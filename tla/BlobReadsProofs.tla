-------------------------- MODULE BlobReadsProofs --------------------------
(***************************************************************************)
(* A snapshot protects a read through all of its steps, for every number   *)
(* of files, of readers and of compactions.                                *)
(***************************************************************************)
EXTENDS BlobReads, WellFoundedInduction, TLAPS

\* A nonempty set of naturals has a least element.
LEMMA MinExists ==
  ASSUME NEW S \in SUBSET Nat, S # {}
  PROVE  \E m \in S : \A x \in S : m <= x
<1> DEFINE R == OpToRel(<, Nat)
<1>1. R = {ss \in Nat \X Nat : ss[1] < ss[2]}
  BY Zenon DEF OpToRel
<1>2. IsWellFoundedOn(R, Nat)
  BY Zenon, NatLessThanWellFounded
<1> HIDE DEF R
<1>3. PICK m \in S : \A y \in S : <<y, m>> \notin R
  BY Zenon, <1>2, WFMin
<1>4. ASSUME NEW x \in S PROVE m <= x
  <2>1. x \in Nat /\ m \in Nat
    BY Zenon
  <2>2. x < m => <<x, m>> \in R
    BY Zenon, <1>1, <2>1
  <2> QED BY <1>3, <2>1, <2>2
<1> QED BY Zenon, <1>4

USE DEF NoFile, NoSnap, NoPurge, kMaxSequenceNumber

-----------------------------------------------------------------------------
(* The inductive invariant.                                                *)

\* The sequence of an obsolete file: no later snapshot sees the file, or it
\* became obsolete with its column family, which is written no more.  A file
\* that is gone is seen by no later snapshot, or there can be none.
ObsoleteInv ==
  /\ \A f \in File : obsSeq[f] <= seq
  /\ \A f \in obsolete : hidden[f] <= obsSeq[f] \/ (dropped /\ obsSeq[f] = seq)
  /\ \A f \in File \ files : hidden[f] <= seq \/ ~handle
  /\ dropped => obsolete = files

\* A storage goes with the last of its obsolete files, and not before the
\* handle; a handle is destroyed after the drop, unless DestroyOpen.
StorageInv ==
  /\ ~storage => obsolete = {}
  /\ handle \/ dropped \/ DestroyOpen

\* A running purge protects every snapshot that is not late.
PurgeInv ==
  oldest # NoPurge =>
    \A r \in Reader : snap[r] # NoSnap /\ ~late[r] => oldest <= snap[r]

\* The readers that never use a storage that does not exist: an iterator may,
\* after the handle of a column family that is not dropped is destroyed.
Safe(r) == r \in Iterator => ~DestroyOpen

\* An active reader has a snapshot.  If it is not late, all the files it can
\* see are there, the one it is opening is one of them, and its last read has
\* not failed.
ReaderInv(r) ==
  /\ (snap[r] = NoSnap) = (pc[r] = "idle")
  /\ snap[r] <= seq
  /\ snap[r] = NoSnap => status[r] = "kOk"
  /\ snap[r] # NoSnap /\ ~late[r] =>
       /\ Safe(r) => status[r] = "kOk"
       /\ \A f \in File : snap[r] < hidden[f] => f \in files
       /\ file[r] # NoFile => snap[r] < hidden[file[r]]

IndInv ==
  /\ TypeOK
  /\ ObsoleteInv
  /\ StorageInv
  /\ PurgeInv
  /\ \A r \in Reader : ReaderInv(r)

-----------------------------------------------------------------------------
(* Types.                                                                  *)

\* What the steps on files and column families do to the types.
LEMMA FileStepTypes ==
  ASSUME TypeOK,
         \/ \E f \in File : Overwrite(f) \/ DeleteInputBlobFiles(f)
                            \/ DeleteFile(f) \/ EvictLRU(f)
         \/ GetObsoleteFiles
         \/ DropColumnFamilies \/ DestroyColumnFamilyHandle
  PROVE  TypeOK'
<1> USE BlobReadsAssumption
<1>1. ASSUME NEW f \in File, Overwrite(f) PROVE TypeOK'
  BY <1>1 DEF TypeOK, Overwrite, cfVars, actVars
<1>2. ASSUME NEW f \in File, DeleteInputBlobFiles(f) PROVE TypeOK'
  BY <1>2 DEF TypeOK, DeleteInputBlobFiles, cfVars, actVars
<1>3. ASSUME NEW f \in File, DeleteFile(f) PROVE TypeOK'
  BY <1>3 DEF TypeOK, DeleteFile, cfVars, actVars
<1>4. ASSUME NEW f \in File, EvictLRU(f) PROVE TypeOK'
  BY <1>4 DEF TypeOK, EvictLRU, fileVars, cfVars, actVars
<1>5. CASE GetObsoleteFiles
  <2>1. cached' \subseteq cached
    BY Zenon, <1>5 DEF GetObsoleteFiles, Destroyed
  <2> QED BY <1>5, <2>1 DEF TypeOK, GetObsoleteFiles, actVars, Purgeable
<1>6. CASE DropColumnFamilies
  BY <1>6 DEF TypeOK, DropColumnFamilies, actVars
<1>7. CASE DestroyColumnFamilyHandle
  <2>1. cached' \subseteq cached
    BY Zenon, <1>7 DEF DestroyColumnFamilyHandle, Destroyed
  <2> QED BY <1>7, <2>1 DEF TypeOK, DestroyColumnFamilyHandle, fileVars, actVars, MaybeRemove
<1> QED BY Zenon, <1>1, <1>2, <1>3, <1>4, <1>5, <1>6, <1>7

\* What the steps of readers and compactions do to the types.
LEMMA ReadStepTypes ==
  ASSUME TypeOK,
         \/ \E r \in Reader : NewRead(r)
         \/ \E a \in Compaction : NewCompaction(a)
         \/ \E a \in Actor :
              \/ \E f \in File : FindFile(a, f)
              \/ Lookup(a) \/ NewRandomAccessFile(a) \/ Insert(a) \/ EndRead(a)
  PROVE  TypeOK'
<1> USE BlobReadsAssumption
<1>1. ASSUME NEW r \in Reader, NewRead(r) PROVE TypeOK'
  BY <1>1 DEF TypeOK, NewRead, Starts, fileVars, cfVars, Actor
<1>2. ASSUME NEW a \in Compaction, NewCompaction(a) PROVE TypeOK'
  BY <1>2 DEF TypeOK, NewCompaction, Starts, fileVars, cfVars, Actor
<1>3. ASSUME NEW a \in Actor, NEW f \in File, FindFile(a, f) PROVE TypeOK'
  <2>u. UNCHANGED <<seq, hidden, files, obsSeq, obsolete, disk, oldest, candidates,
                    handle, dropped, storage, cached, snap, late, pins>>
    BY Zenon, <1>3 DEF FindFile, fileVars, cfVars
  <2>1. CASE /\ pc' = [pc EXCEPT ![a] = "found"]
             /\ file' = [file EXCEPT ![a] = f]
             /\ UNCHANGED <<status, bgError>>
    BY <2>u, <2>1 DEF TypeOK
  <2>2. CASE UNCHANGED <<pc, file>>
    <3>1. \E s \in {"kOk", "kCorruption", "freed"} : Ends(a, s)
      BY ZenonT(40), <1>3, <2>2 DEF FindFile, TypeOK
    <3> QED BY <2>u, <2>2, <3>1 DEF TypeOK, Ends
  <2> QED BY Zenon, <1>3, <2>1, <2>2 DEF FindFile
<1>s. ASSUME NEW a \in Actor, pc[a] \in {"found", "opened"}, Served(a),
             cached' \subseteq File,
             UNCHANGED <<seq, fileVars, oldest, candidates, cfVars, snap, late>>
      PROVE  TypeOK'
  BY <1>s DEF TypeOK, Served, Ends, fileVars, cfVars
<1>4. ASSUME NEW a \in Actor, Lookup(a) PROVE TypeOK'
  <2>1. CASE Served(a)
    BY Zenon, <1>4, <1>s, <2>1 DEF Lookup, TypeOK
  <2>2. CASE pc' = [pc EXCEPT ![a] = "missed"] /\ UNCHANGED <<file, pins, status, bgError>>
    BY <1>4, <2>2 DEF TypeOK, Lookup, fileVars, cfVars
  <2> QED BY Zenon, <1>4, <2>1, <2>2 DEF Lookup
<1>5. ASSUME NEW a \in Actor, NewRandomAccessFile(a) PROVE TypeOK'
  <2>1. CASE file[a] \in disk
    BY <1>5, <2>1 DEF TypeOK, NewRandomAccessFile, fileVars, cfVars
  <2>2. CASE file[a] \notin disk
    BY <1>5, <2>2 DEF TypeOK, NewRandomAccessFile, Ends, fileVars, cfVars
  <2> QED BY Zenon, <2>1, <2>2
<1>6. ASSUME NEW a \in Actor, Insert(a) PROVE TypeOK'
  <2>1. cached' \subseteq File
    BY <1>6 DEF TypeOK, Insert
  <2> QED BY Zenon, <1>6, <1>s, <2>1 DEF Insert
<1>7. ASSUME NEW a \in Actor, EndRead(a) PROVE TypeOK'
  <2>1. cached' \subseteq File
    BY <1>7 DEF TypeOK, EndRead
  <2> QED BY <1>7, <2>1 DEF TypeOK, EndRead, fileVars, cfVars
<1> QED BY Zenon, <1>1, <1>2, <1>3, <1>4, <1>5, <1>6, <1>7

-----------------------------------------------------------------------------
(* Files become obsolete and are purged.                                   *)

\* A reader is not concerned by a step that leaves it alone, loses no file it
\* can see and hides none from it.
LEMMA ReaderFrame ==
  ASSUME NEW r \in Reader, ReaderInv(r), TypeOK, TypeOK',
         UNCHANGED <<pc[r], snap[r], late[r], file[r], status[r]>>,
         seq <= seq',
         \A f \in File : \/ hidden'[f] = hidden[f]
                         \/ snap[r] < hidden'[f] /\ snap[r] < hidden[f],
         ~late[r] /\ snap[r] # NoSnap =>
           \A f \in files : snap[r] < hidden[f] => f \in files'
  PROVE  ReaderInv(r)'
<1>1. snap[r] \in Int /\ seq \in Int /\ seq' \in Int
  BY BlobReadsAssumption DEF TypeOK, Actor
<1>2. file[r] \in File \cup {NoFile}
  BY Zenon DEF TypeOK, Actor
<1>3. \A f \in File : snap[r] < hidden[f] <=> snap[r] < hidden'[f]
  BY Zenon
<1> QED BY <1>1, <1>2, <1>3 DEF ReaderInv, Safe

\* Overwrite preserves the invariant: a file that a snapshot sees stays
\* visible to it.
LEMMA OverwritePreserves ==
  ASSUME IndInv, NEW f \in File, Overwrite(f)
  PROVE  IndInv'
<1> USE BlobReadsAssumption
<1>t. TypeOK /\ TypeOK'
  BY Zenon, FileStepTypes DEF IndInv
<1>u. /\ seq' = seq + 1 /\ ~dropped /\ seq < hidden[f]
      /\ hidden' = [hidden EXCEPT ![f] = seq + 1]
      /\ UNCHANGED <<files, obsSeq, obsolete, oldest, handle, dropped, storage,
                     pc, snap, late, file, status>>
  BY Zenon DEF Overwrite, cfVars, actVars
<1>1. ObsoleteInv'
  BY <1>t, <1>u DEF IndInv, ObsoleteInv, TypeOK
<1>2. StorageInv' /\ PurgeInv'
  BY Zenon, <1>u DEF IndInv, StorageInv, PurgeInv
<1>3. ASSUME NEW r \in Reader PROVE ReaderInv(r)'
  <2>1. snap[r] <= seq /\ ReaderInv(r)
    BY Zenon DEF IndInv, ReaderInv
  <2>2. \A g \in File : \/ hidden'[g] = hidden[g]
                        \/ snap[r] < hidden'[g] /\ snap[r] < hidden[g]
    <3>1. snap[r] \in Int /\ seq \in Int
      BY <1>t DEF TypeOK, Actor
    <3>2. snap[r] < hidden[f] /\ snap[r] < seq + 1
      BY <1>t, <1>u, <2>1, <3>1 DEF TypeOK
    <3>3. hidden'[f] = seq + 1 /\ \A g \in File : g # f => hidden'[g] = hidden[g]
      BY <1>t, <1>u DEF TypeOK
    <3> QED BY <3>2, <3>3
  <2>3. seq <= seq'
    BY <1>t, <1>u DEF TypeOK
  <2> QED BY Zenon, <1>t, <1>u, <2>1, <2>2, <2>3, ReaderFrame
<1> QED BY Zenon, <1>t, <1>1, <1>2, <1>3 DEF IndInv

\* A file becomes obsolete, by GC or with its column family.
LEMMA ObsoletePreserves ==
  ASSUME IndInv, (\E f \in File : DeleteInputBlobFiles(f)) \/ DropColumnFamilies
  PROVE  IndInv'
<1> USE BlobReadsAssumption
<1>t. TypeOK /\ TypeOK'
  BY Zenon, FileStepTypes DEF IndInv
<1>u. UNCHANGED <<seq, hidden, files, oldest, handle, storage, pc, snap, late,
                  file, status>>
  BY Zenon DEF DeleteInputBlobFiles, DropColumnFamilies, cfVars, actVars
<1>1. ObsoleteInv' /\ StorageInv'
  <2>1. ASSUME NEW f \in File, DeleteInputBlobFiles(f)
        PROVE  ObsoleteInv' /\ StorageInv'
    BY <1>t, <1>u, <2>1
    DEF IndInv, ObsoleteInv, StorageInv, TypeOK, DeleteInputBlobFiles, cfVars
  <2>2. CASE DropColumnFamilies
    BY <1>t, <1>u, <2>2
    DEF IndInv, ObsoleteInv, StorageInv, TypeOK, DropColumnFamilies
  <2> QED BY Zenon, <2>1, <2>2
<1>2. PurgeInv'
  BY Zenon, <1>u DEF IndInv, PurgeInv
<1>3. \A r \in Reader : ReaderInv(r)'
  BY Zenon, <1>u DEF IndInv, ReaderInv, Safe
<1> QED BY Zenon, <1>t, <1>1, <1>2, <1>3 DEF IndInv

\* The purge starts, and reads the oldest snapshot.
LEMMA PurgeObsoleteFilesPreserves ==
  ASSUME IndInv, PurgeObsoleteFiles
  PROVE  IndInv'
<1> USE BlobReadsAssumption
<1>t. TypeOK
  BY Zenon DEF IndInv
<1>u. UNCHANGED <<seq, hidden, files, obsSeq, obsolete, disk, candidates, handle,
                  dropped, storage, cached, pc, snap, late, file, pins, status,
                  bgError>>
  BY Zenon DEF PurgeObsoleteFiles, fileVars, cfVars, actVars
<1> DEFINE S == {snap[r] : r \in Reader} \ {NoSnap}
<1>1. S \subseteq 0 .. MaxSeq
  BY <1>t DEF TypeOK, Actor
<1>2. /\ oldest' \in 0 .. (MaxSeq + 1)
      /\ S # {} => \A t \in S : oldest' <= t
  <2>1. CASE S = {}
    <3>1. oldest' = MaxSeq + 1
      BY Zenon, <2>1 DEF PurgeObsoleteFiles
    <3> QED BY <2>1, <3>1
  <2>2. CASE S # {}
    <3>1. \E s \in S : \A t \in S : s <= t
      <4>1. S \subseteq Nat
        BY <1>1
      <4> QED BY Zenon, <2>2, <4>1, MinExists
    <3>2. oldest' = CHOOSE s \in S : \A t \in S : s <= t
      BY Zenon, <2>2 DEF PurgeObsoleteFiles
    <3> HIDE DEF S
    <3>3. oldest' \in S /\ \A t \in S : oldest' <= t
      BY Zenon, <3>1, <3>2
    <3> QED BY <1>1, <3>3
  <2> QED BY Zenon, <2>1, <2>2
<1>3. TypeOK'
  BY <1>t, <1>u, <1>2 DEF TypeOK
<1>4. PurgeInv'
  <2>1. \A r \in Reader : snap[r] # NoSnap => snap[r] \in S
    BY Zenon
  <2> QED BY Zenon, <1>u, <1>2, <2>1 DEF PurgeInv
<1>5. ObsoleteInv' /\ StorageInv'
  BY Zenon, <1>u DEF IndInv, ObsoleteInv, StorageInv
<1>6. \A r \in Reader : ReaderInv(r)'
  BY Zenon, <1>u DEF IndInv, ReaderInv, Safe
<1> QED BY Zenon, <1>3, <1>4, <1>5, <1>6 DEF IndInv

\* The purge takes the files that are old enough: no snapshot that is not late
\* sees one of them.
LEMMA GetObsoleteFilesPreserves ==
  ASSUME IndInv, GetObsoleteFiles
  PROVE  IndInv'
<1> USE BlobReadsAssumption
<1>t. TypeOK /\ TypeOK'
  BY Zenon, FileStepTypes DEF IndInv
<1> DEFINE gone == {f \in File : storage /\ ~InObsoleteColumns /\ Purgeable(f)}
<1>u. /\ oldest # NoPurge
      /\ oldest' = NoPurge
      /\ files' = files \ gone
      /\ obsolete' = obsolete \ gone
      /\ storage' = (storage /\ (handle \/ ~(obsolete' = {})))
      /\ UNCHANGED <<seq, hidden, obsSeq, handle, dropped, pc, snap, late, file,
                     status>>
  BY Zenon DEF GetObsoleteFiles, MaybeRemove, actVars
<1>g. \A f \in gone : /\ storage /\ (dropped => ~handle)
                      /\ f \in obsolete /\ oldest > obsSeq[f] /\ f \in File
  BY Zenon DEF InObsoleteColumns, Purgeable
<1>s. ~storage => gone = {}
  BY Zenon
<1> HIDE DEF gone
<1>o. \A f \in gone : \/ hidden[f] <= obsSeq[f]
                      \/ dropped /\ obsSeq[f] = seq
  BY Zenon, <1>g DEF IndInv, ObsoleteInv
<1>1. ObsoleteInv'
  <2>1. /\ \A f \in File : obsSeq[f] <= seq
        /\ \A f \in obsolete' : hidden[f] <= obsSeq[f] \/ (dropped /\ obsSeq[f] = seq)
        /\ dropped => obsolete' = files'
    BY Zenon, <1>u DEF IndInv, ObsoleteInv
  <2>2. ASSUME NEW f \in File, f \notin files' PROVE hidden[f] <= seq \/ ~handle
    <3>1. CASE f \notin files
      BY Zenon, <2>2, <3>1 DEF IndInv, ObsoleteInv
    <3>2. CASE f \in gone /\ hidden[f] <= obsSeq[f]
      BY <1>t, <2>1, <3>2 DEF TypeOK
    <3> QED BY Zenon, <1>u, <1>g, <1>o, <2>2, <3>1, <3>2
  <2> QED BY Zenon, <1>u, <2>1, <2>2 DEF ObsoleteInv
<1>2. StorageInv'
  BY Zenon, <1>t, <1>u, <1>s DEF IndInv, StorageInv, TypeOK
<1>3. PurgeInv'
  BY Zenon, <1>u DEF PurgeInv
<1>4. ASSUME NEW r \in Reader PROVE ReaderInv(r)'
  <2>1. ReaderInv(r) /\ snap[r] <= seq /\ snap[r] \in Int /\ seq \in Int /\ oldest \in Int
    BY <1>t DEF IndInv, ReaderInv, TypeOK, Actor
  <2>2. ASSUME ~late[r], snap[r] # NoSnap, NEW f \in files, snap[r] < hidden[f]
        PROVE  f \in files'
    <3> SUFFICES ASSUME f \in gone PROVE FALSE
      BY Zenon, <1>u
    <3>1. oldest <= snap[r]
      BY Zenon, <1>u, <2>2 DEF IndInv, PurgeInv
    <3>2. obsSeq[f] \in Int /\ hidden[f] \in Int
      BY <1>t, <1>g DEF TypeOK
    <3> QED BY <1>g, <1>o, <2>1, <2>2, <3>1, <3>2
  <2> QED BY <1>t, <1>u, <2>1, <2>2, ReaderFrame
<1> QED BY Zenon, <1>t, <1>1, <1>2, <1>3, <1>4 DEF IndInv

\* Deleting a file that the storage has forgotten, or evicting a reader from
\* the cache, concerns no snapshot.
LEMMA DeleteFilePreserves ==
  ASSUME IndInv, NEW f \in File, DeleteFile(f) \/ EvictLRU(f)
  PROVE  IndInv'
<1>t. TypeOK'
  BY Zenon, FileStepTypes DEF IndInv
<1>u. UNCHANGED <<seq, hidden, files, obsSeq, obsolete, oldest, handle, dropped,
                  storage, pc, snap, late, file, status>>
  BY Zenon DEF DeleteFile, EvictLRU, fileVars, cfVars, actVars
<1>1. ObsoleteInv' /\ StorageInv' /\ PurgeInv'
  BY Zenon, <1>u DEF IndInv, ObsoleteInv, StorageInv, PurgeInv
<1>2. \A r \in Reader : ReaderInv(r)'
  BY Zenon, <1>u DEF IndInv, ReaderInv, Safe
<1> QED BY Zenon, <1>t, <1>1, <1>2 DEF IndInv

\* The handle is destroyed.
LEMMA DestroyHandlePreserves ==
  ASSUME IndInv, DestroyColumnFamilyHandle
  PROVE  IndInv'
<1>t. TypeOK'
  BY Zenon, FileStepTypes DEF IndInv
<1>u. /\ dropped \/ DestroyOpen
      /\ handle' = FALSE
      /\ storage' = ~(obsolete = {})
      /\ UNCHANGED <<seq, hidden, files, obsSeq, obsolete, oldest, dropped, pc,
                     snap, late, file, status>>
  BY Zenon DEF DestroyColumnFamilyHandle, MaybeRemove, fileVars, actVars
<1>1. ObsoleteInv' /\ StorageInv' /\ PurgeInv'
  BY Zenon, <1>u DEF IndInv, ObsoleteInv, StorageInv, PurgeInv
<1>2. \A r \in Reader : ReaderInv(r)'
  BY Zenon, <1>u DEF IndInv, ReaderInv, Safe
<1> QED BY Zenon, <1>t, <1>1, <1>2 DEF IndInv

-----------------------------------------------------------------------------
(* Reads.                                                                  *)

\* A step of one actor that changes nothing but its own read: what remains to
\* be shown is about that actor, if it is a reader.
LEMMA ActorFrame ==
  ASSUME IndInv, TypeOK', NEW a \in Actor,
         UNCHANGED <<seq, hidden, files, obsSeq, obsolete, oldest, handle, dropped,
                     storage>>,
         \A r \in Reader \ {a} :
           UNCHANGED <<pc[r], snap[r], late[r], file[r], status[r]>>,
         a \in Reader =>
           /\ ReaderInv(a)'
           /\ oldest # NoPurge /\ snap'[a] # NoSnap /\ ~late'[a] => oldest <= snap'[a]
  PROVE  IndInv'
<1>1. ObsoleteInv' /\ StorageInv'
  BY Zenon DEF IndInv, ObsoleteInv, StorageInv
<1>2. PurgeInv'
  BY Zenon DEF IndInv, PurgeInv
<1>3. ASSUME NEW r \in Reader, r # a PROVE ReaderInv(r)'
  BY Zenon, <1>3 DEF IndInv, ReaderInv, Safe
<1> QED BY Zenon, <1>1, <1>2, <1>3 DEF IndInv

\* A read begins with a snapshot of the latest sequence: every file that this
\* snapshot sees is there, and a running purge that is not behind its back
\* protects it.
LEMMA NewReadPreserves ==
  ASSUME IndInv, NEW r \in Reader, NewRead(r)
  PROVE  IndInv'
<1> USE BlobReadsAssumption
<1>t. TypeOK /\ TypeOK' /\ r \in Actor
  BY Zenon, ReadStepTypes DEF IndInv, Actor
<1>u. /\ handle
      /\ pc[r] = "idle"
      /\ pc' = [pc EXCEPT ![r] = "ready"]
      /\ snap' = [snap EXCEPT ![r] = seq]
      /\ late' = [late EXCEPT ![r] = oldest # NoPurge /\ oldest > seq]
      /\ UNCHANGED <<seq, hidden, files, obsSeq, obsolete, oldest, handle, dropped,
                     storage, file, status>>
  BY Zenon DEF NewRead, Starts, fileVars, cfVars
<1>v. /\ pc'[r] = "ready" /\ snap'[r] = seq /\ seq # NoSnap /\ seq \in Int
      /\ oldest \in Int
      /\ file[r] = NoFile
  BY <1>t, <1>u DEF TypeOK
<1>w. ~late'[r] => ~(oldest # NoPurge /\ oldest > seq)
  BY Zenon, <1>t, <1>u DEF TypeOK
<1>1. ASSUME NEW q \in Reader \ {r}
      PROVE  UNCHANGED <<pc[q], snap[q], late[q], file[q], status[q]>>
  BY Zenon, <1>t, <1>u DEF TypeOK, Actor
<1>2. status[r] = "kOk"
  BY Zenon, <1>u DEF IndInv, ReaderInv
<1>3. \A f \in File : seq < hidden[f] => f \in files
  BY <1>t, <1>u, <1>v DEF IndInv, ObsoleteInv, TypeOK
<1>4. ReaderInv(r)'
  BY <1>u, <1>v, <1>2, <1>3 DEF ReaderInv
<1>5. oldest # NoPurge /\ snap'[r] # NoSnap /\ ~late'[r] => oldest <= snap'[r]
  BY <1>v, <1>w
<1> QED BY Zenon, <1>t, <1>u, <1>1, <1>4, <1>5, ActorFrame

\* A compaction has no snapshot.
LEMMA NewCompactionPreserves ==
  ASSUME IndInv, NEW a \in Compaction, NewCompaction(a)
  PROVE  IndInv'
<1>t. TypeOK /\ TypeOK' /\ a \in Actor /\ a \notin Reader
  BY Zenon, ReadStepTypes, BlobReadsAssumption DEF IndInv, Actor, Reader, Compaction
<1>u. /\ pc' = [pc EXCEPT ![a] = "ready"]
      /\ UNCHANGED <<seq, hidden, files, obsSeq, obsolete, oldest, handle, dropped,
                     storage, snap, late, file, status>>
  BY Zenon DEF NewCompaction, Starts, fileVars, cfVars
<1>1. \A q \in Reader \ {a} : UNCHANGED <<pc[q], snap[q], late[q], file[q], status[q]>>
  BY Zenon, <1>t, <1>u DEF TypeOK, Actor
<1> QED BY Zenon, <1>t, <1>u, <1>1, ActorFrame

\* A step of an actor in the middle of a read, from its program counter p to q,
\* that ends with status s.
LEMMA ReadFrame ==
  ASSUME IndInv, TypeOK', NEW a \in Actor, NEW p, NEW q, NEW s, NEW g,
         pc[a] = p, p # "idle", q # "idle",
         pc' = [pc EXCEPT ![a] = q],
         file' = [file EXCEPT ![a] = g],
         status' = [status EXCEPT ![a] = s],
         UNCHANGED <<seq, hidden, files, obsSeq, obsolete, oldest, handle, dropped,
                     storage, snap, late>>,
         a \in Reader /\ snap[a] # NoSnap /\ ~late[a] =>
           /\ Safe(a) => s = "kOk"
           /\ g # NoFile => snap[a] < hidden[g]
  PROVE  IndInv'
<1>t. TypeOK
  BY Zenon DEF IndInv
<1>1. \A r \in Reader \ {a} :
        UNCHANGED <<pc[r], snap[r], late[r], file[r], status[r]>>
  BY Zenon, <1>t DEF TypeOK, Actor
<1>2. pc'[a] = q /\ file'[a] = g /\ status'[a] = s
  BY Zenon, <1>t DEF TypeOK
<1>3. a \in Reader => snap[a] # NoSnap
  BY DEF IndInv, ReaderInv
<1>4. a \in Reader => ReaderInv(a)'
  <2> SUFFICES ASSUME a \in Reader PROVE ReaderInv(a)'
    BY Zenon
  <2>1. (snap'[a] = NoSnap) = (pc'[a] = "idle")
    BY <1>2, <1>3
  <2>2. /\ snap[a] <= seq
        /\ ~late[a] => \A f \in File : snap[a] < hidden[f] => f \in files
    BY Zenon, <1>3 DEF IndInv, ReaderInv
  <2> QED BY Zenon, <1>2, <1>3, <2>1, <2>2 DEF ReaderInv, Safe
<1>5. a \in Reader =>
        (oldest # NoPurge /\ snap'[a] # NoSnap /\ ~late'[a] => oldest <= snap'[a])
  BY Zenon DEF IndInv, PurgeInv
<1> QED BY Zenon, <1>1, <1>4, <1>5, ActorFrame

\* A reader that is not late finds every file it meets, in a storage that
\* exists.
LEMMA Finds ==
  ASSUME IndInv, NEW r \in Reader, NEW f \in File, pc[r] = "ready",
         Meets(r, f), ~late[r]
  PROVE  f \in files /\ (Safe(r) => r \notin Iterator \/ storage)
<1>1. snap[r] # NoSnap
  BY DEF IndInv, ReaderInv
<1>2. f \in files
  BY Zenon, <1>1 DEF IndInv, ReaderInv, Meets
<1>3. ASSUME r \in Iterator, Safe(r), ~storage PROVE FALSE
  <2>1. obsolete = {} /\ ~handle
    BY Zenon, <1>3 DEF IndInv, StorageInv, TypeOK
  <2>2. dropped
    BY Zenon, <1>3, <2>1 DEF IndInv, StorageInv, Safe
  <2> QED BY Zenon, <1>2, <2>1, <2>2 DEF IndInv, ObsoleteInv
<1> QED BY Zenon, <1>2, <1>3

\* FindFile preserves the invariant.
LEMMA FindFilePreserves ==
  ASSUME IndInv, NEW a \in Actor, NEW f \in File, FindFile(a, f)
  PROVE  IndInv'
<1> USE BlobReadsAssumption
<1>t. TypeOK /\ TypeOK'
  BY Zenon, ReadStepTypes DEF IndInv
<1>u. /\ pc[a] = "ready" /\ Meets(a, f)
      /\ UNCHANGED <<seq, hidden, files, obsSeq, obsolete, oldest, handle, dropped,
                     storage, snap, late>>
  BY Zenon DEF FindFile, fileVars, cfVars
<1>e. pc = [pc EXCEPT ![a] = "ready"] /\ file = [file EXCEPT ![a] = file[a]]
      /\ status = [status EXCEPT ![a] = status[a]] /\ file[a] = NoFile
  BY <1>t, <1>u DEF TypeOK
<1>1. CASE /\ pc' = [pc EXCEPT ![a] = "found"]
           /\ file' = [file EXCEPT ![a] = f]
           /\ UNCHANGED status
  <2>1. a \in Reader /\ snap[a] # NoSnap /\ ~late[a] =>
          /\ Safe(a) => status[a] = "kOk"
          /\ f # NoFile => snap[a] < hidden[f]
    BY Zenon, <1>u DEF IndInv, ReaderInv, Meets
  <2>2. status' = [status EXCEPT ![a] = status[a]]
    BY Zenon, <1>1, <1>e
  <2>3. "ready" # "idle" /\ "found" # "idle"
    OBVIOUS
  <2> QED BY Zenon, <1>t, <1>u, <1>1, <2>1, <2>2, <2>3, ReadFrame
<1>2. ASSUME NEW s, Ends(a, s), UNCHANGED <<pc, file>>,
             \/ s = "kOk"
             \/ s = "freed" /\ a \in Prefetches /\ ~storage
             \/ s = "kCorruption" /\ f \notin files
      PROVE  IndInv'
  <2>1. a \in Reader /\ snap[a] # NoSnap /\ ~late[a] =>
          /\ Safe(a) => s = "kOk"
          /\ file[a] # NoFile => snap[a] < hidden[file[a]]
    <3> SUFFICES ASSUME a \in Reader, ~late[a], Safe(a) PROVE s = "kOk"
      BY Zenon, <1>e
    <3>1. a \in Prefetches => a \in Iterator
      BY Zenon DEF Prefetches, Reader
    <3> QED BY Zenon, <1>u, <1>2, <3>1, Finds
  <2>2. /\ pc' = [pc EXCEPT ![a] = "ready"]
        /\ file' = [file EXCEPT ![a] = file[a]]
        /\ status' = [status EXCEPT ![a] = s]
    BY Zenon, <1>2, <1>e DEF Ends
  <2>3. "ready" # "idle"
    OBVIOUS
  <2> QED BY Zenon, <1>t, <1>u, <2>1, <2>2, <2>3, ReadFrame
<1> QED BY Zenon, <1>1, <1>2 DEF FindFile

\* An actor gets its reader from the cache or from the file it has opened.
LEMMA ServedPreserves ==
  ASSUME IndInv, TypeOK', NEW a \in Actor, pc[a] \in {"found", "opened"}, Served(a),
         UNCHANGED <<seq, fileVars, oldest, candidates, cfVars, snap, late>>
  PROVE  IndInv'
<1>u. /\ pc' = [pc EXCEPT ![a] = "ready"]
      /\ file' = [file EXCEPT ![a] = NoFile]
      /\ status' = [status EXCEPT ![a] = "kOk"]
      /\ UNCHANGED <<seq, hidden, files, obsSeq, obsolete, oldest, handle, dropped,
                     storage, snap, late>>
  BY Zenon DEF Served, Ends, fileVars, cfVars
<1>1. pc[a] # "idle" /\ "ready" # "idle"
  OBVIOUS
<1> QED BY Zenon, <1>u, <1>1, ReadFrame

\* Lookup, NewRandomAccessFile and Insert preserve the invariant: the file a
\* protected reader has found is still on disk.
LEMMA OpenPreserves ==
  ASSUME IndInv, NEW a \in Actor,
         Lookup(a) \/ NewRandomAccessFile(a) \/ Insert(a)
  PROVE  IndInv'
<1> USE BlobReadsAssumption
<1>t. TypeOK /\ TypeOK'
  BY Zenon, ReadStepTypes DEF IndInv
<1>e. file = [file EXCEPT ![a] = file[a]] /\ status = [status EXCEPT ![a] = status[a]]
  BY <1>t DEF TypeOK
<1>n. a \in Reader /\ snap[a] # NoSnap /\ ~late[a] =>
        /\ Safe(a) => status[a] = "kOk"
        /\ file[a] # NoFile => snap[a] < hidden[file[a]]
  BY Zenon DEF IndInv, ReaderInv
<1>i. "missed" # "idle" /\ "found" # "idle" /\ "opened" # "idle" /\ "ready" # "idle"
  OBVIOUS
<1>1. CASE Lookup(a)
  <2>1. CASE Served(a)
    BY Zenon, <1>t, <1>1, <2>1, ServedPreserves DEF Lookup
  <2>2. CASE pc' = [pc EXCEPT ![a] = "missed"] /\ UNCHANGED <<file, status>>
    <3>1. /\ pc[a] = "found"
          /\ UNCHANGED <<seq, hidden, files, obsSeq, obsolete, oldest, handle,
                         dropped, storage, snap, late>>
      BY Zenon, <1>1 DEF Lookup, fileVars, cfVars
    <3> QED BY Zenon, <1>t, <1>e, <1>n, <1>i, <2>2, <3>1, ReadFrame
  <2> QED BY Zenon, <1>1, <2>1, <2>2 DEF Lookup
<1>2. CASE NewRandomAccessFile(a)
  <2>1. /\ pc[a] = "missed"
        /\ UNCHANGED <<seq, hidden, files, obsSeq, obsolete, oldest, handle,
                       dropped, storage, snap, late>>
    BY Zenon, <1>2 DEF NewRandomAccessFile, fileVars, cfVars
  <2>2. CASE pc' = [pc EXCEPT ![a] = "opened"] /\ UNCHANGED <<file, status>>
    BY Zenon, <1>t, <1>e, <1>n, <1>i, <2>1, <2>2, ReadFrame
  <2>3. CASE /\ file[a] \notin disk
             /\ pc' = [pc EXCEPT ![a] = "ready"]
             /\ file' = [file EXCEPT ![a] = NoFile]
             /\ status' = [status EXCEPT ![a] = "kIOError"]
    <3>1. ~(a \in Reader /\ snap[a] # NoSnap /\ ~late[a])
      <4> SUFFICES ASSUME a \in Reader, snap[a] # NoSnap, ~late[a] PROVE FALSE
        BY Zenon
      <4>1. file[a] \in File
        BY <1>t, <2>1 DEF TypeOK
      <4>2. file[a] # NoFile
        BY Zenon, <4>1
      <4>3. file[a] \in files
        BY Zenon, <1>n, <4>1, <4>2 DEF IndInv, ReaderInv
      <4> QED BY Zenon, <1>t, <2>3, <4>3 DEF TypeOK
    <3> QED BY Zenon, <1>t, <1>i, <2>1, <2>3, <3>1, ReadFrame
  <2> QED BY Zenon, <1>2, <2>2, <2>3 DEF NewRandomAccessFile, Ends
<1>3. CASE Insert(a)
  BY Zenon, <1>t, <1>3, ServedPreserves DEF Insert
<1> QED BY Zenon, <1>1, <1>2, <1>3

\* EndRead preserves the invariant: the snapshot goes, and with it the status.
LEMMA EndReadPreserves ==
  ASSUME IndInv, NEW a \in Actor, EndRead(a)
  PROVE  IndInv'
<1> USE BlobReadsAssumption
<1>t. TypeOK /\ TypeOK'
  BY Zenon, ReadStepTypes DEF IndInv
<1>u. /\ pc' = [pc EXCEPT ![a] = "idle"]
      /\ snap' = [snap EXCEPT ![a] = NoSnap]
      /\ late' = [late EXCEPT ![a] = FALSE]
      /\ status' = [status EXCEPT ![a] = "kOk"]
      /\ UNCHANGED <<seq, hidden, files, obsSeq, obsolete, oldest, handle, dropped,
                     storage, file>>
  BY Zenon DEF EndRead, fileVars, cfVars
<1>1. \A r \in Reader \ {a} :
        UNCHANGED <<pc[r], snap[r], late[r], file[r], status[r]>>
  BY Zenon, <1>t, <1>u DEF TypeOK, Actor
<1>2. pc'[a] = "idle" /\ snap'[a] = NoSnap /\ status'[a] = "kOk"
  BY Zenon, <1>t, <1>u DEF TypeOK
<1>3. ReaderInv(a)'
  <2>1. snap'[a] <= seq'
    BY <1>t, <1>2 DEF TypeOK
  <2>2. (snap'[a] = NoSnap) = (pc'[a] = "idle")
    BY <1>2
  <2> QED BY Zenon, <1>2, <2>1, <2>2 DEF ReaderInv
<1> QED BY Zenon, <1>t, <1>u, <1>1, <1>2, <1>3, ActorFrame

-----------------------------------------------------------------------------
(* The theorems.                                                           *)

\* The invariant holds at the start.
LEMMA InitIndInv == Init => IndInv
<1> SUFFICES ASSUME Init PROVE IndInv
  OBVIOUS
<1> USE BlobReadsAssumption
<1>1. TypeOK
  <2>1. /\ seq \in 0 .. MaxSeq
        /\ hidden \in [File -> 1 .. kMaxSequenceNumber]
        /\ obsSeq \in [File -> 0 .. MaxSeq]
        /\ oldest \in {NoPurge} \cup (0 .. kMaxSequenceNumber)
        /\ snap \in [Actor -> {NoSnap} \cup (0 .. MaxSeq)]
    BY DEF Init
  <2>2. /\ obsolete \subseteq files /\ files \subseteq disk /\ disk \subseteq File
        /\ candidates \subseteq disk \ files
        /\ handle \in BOOLEAN /\ dropped \in BOOLEAN /\ storage \in BOOLEAN
        /\ handle => storage
        /\ cached \subseteq File
        /\ bgError \in BOOLEAN
    BY DEF Init
  <2>3. /\ pc \in [Actor -> {"idle", "ready", "found", "missed", "opened"}]
        /\ late \in [Actor -> BOOLEAN]
        /\ file \in [Actor -> File \cup {NoFile}]
        /\ \A a \in Actor : (file[a] = NoFile) = (pc[a] \in {"idle", "ready"})
    BY DEF Init
  <2>4. /\ pins \in [Actor -> SUBSET File]
        /\ \A a \in Actor \ Prefetches : pins[a] = {}
        /\ status \in [Actor -> {"kOk", "kCorruption", "kIOError", "freed"}]
    BY DEF Init
  <2> QED BY Zenon, <2>1, <2>2, <2>3, <2>4 DEF TypeOK
<1>2. ObsoleteInv /\ StorageInv /\ PurgeInv
  BY DEF Init, ObsoleteInv, StorageInv, PurgeInv
<1>3. \A r \in Reader : ReaderInv(r)
  BY DEF Init, ReaderInv, Actor
<1> QED BY Zenon, <1>1, <1>2, <1>3 DEF IndInv

\* Every step preserves the invariant.
LEMMA NextIndInv == IndInv /\ [Next]_vars => IndInv'
<1> SUFFICES ASSUME IndInv, [Next]_vars PROVE IndInv'
  OBVIOUS
<1>1. CASE Next
  BY Zenon, <1>1, OverwritePreserves, ObsoletePreserves, DeleteFilePreserves,
     PurgeObsoleteFilesPreserves, GetObsoleteFilesPreserves, DestroyHandlePreserves,
     NewReadPreserves, NewCompactionPreserves, FindFilePreserves, OpenPreserves,
     EndReadPreserves
  DEF Next
<1>2. CASE UNCHANGED vars
  <2>u. UNCHANGED <<seq, hidden, files, obsSeq, obsolete, disk, oldest, candidates,
                    handle, dropped, storage, cached, pc, snap, late, file, pins,
                    status, bgError>>
    BY Zenon, <1>2 DEF vars, fileVars, cfVars, actVars
  <2>1. TypeOK'
    BY <2>u DEF IndInv, TypeOK
  <2>2. ObsoleteInv' /\ StorageInv' /\ PurgeInv'
    BY Zenon, <2>u DEF IndInv, ObsoleteInv, StorageInv, PurgeInv
  <2>3. \A r \in Reader : ReaderInv(r)'
    BY Zenon, <2>u DEF IndInv, ReaderInv, Safe
  <2> QED BY Zenon, <2>1, <2>2, <2>3 DEF IndInv
<1> QED BY Zenon, <1>1, <1>2

\* The inductive invariant holds.
THEOREM Invariance == Spec => []IndInv
BY InitIndInv, NextIndInv, PTL DEF Spec

\* A Get that is not behind the back of a running purge finds its file and
\* opens it, through purges, drops and the destruction of handles.
THEOREM GetsServed == Spec => [](\A r \in Get : ~late[r] => status[r] = "kOk")
<1>1. IndInv => \A r \in Get : ~late[r] => status[r] = "kOk"
  <2> SUFFICES ASSUME IndInv, NEW r \in Get, ~late[r] PROVE status[r] = "kOk"
    BY Zenon
  <2>1. r \in Reader /\ Safe(r)
    BY Zenon, BlobReadsAssumption DEF Reader, Safe
  <2> QED BY Zenon, <2>1 DEF IndInv, ReaderInv
<1> QED BY <1>1, Invariance, PTL

\* Iterators as well, if no handle is destroyed before its column family is
\* dropped.
THEOREM ReadsServed ==
  ASSUME ~DestroyOpen PROVE Spec => []SnapshotServed
<1>1. IndInv => SnapshotServed
  <2> SUFFICES ASSUME IndInv, NEW r \in Reader, ~late[r] PROVE status[r] = "kOk"
    BY Zenon DEF SnapshotServed
  <2> QED BY Zenon DEF IndInv, ReaderInv, Safe
<1> QED BY <1>1, Invariance, PTL
=============================================================================

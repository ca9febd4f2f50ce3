-------------------------- MODULE CounterProofs --------------------------
(***************************************************************************)
(* The two components whose threads hold one another off by counters: the  *)
(* GC scheduler (bg_gc_scheduled_, bg_gc_running_, drop_cf_requests_) and  *)
(* checkpoints (disable_titandb_file_deletions_).  A counter counts the    *)
(* threads at certain points of their programs, so the proofs are about    *)
(* cardinalities.  The two specifications are independent.                 *)
(*                                                                         *)
(* The scheduler: a step moves one process, and a signal moves processes   *)
(* between points that are counted alike.                                  *)
(*                                                                         *)
(* A checkpoint is openable, for any number of column families, threads,   *)
(* files and concurrent checkpoints, as long as nothing fails and nobody   *)
(* destroys a handle or forces file deletions on.  The argument:           *)
(* disable_titandb_file_deletions_ counts the checkpoints under way, so    *)
(* from the first step of a checkpoint to its last the purge neither       *)
(* forgets nor unlinks a file.  What the tables and the log refer to when  *)
(* they are captured is alive then, and alive or obsolete, but known and   *)
(* on disk, when the blob files are listed and linked.                     *)
(***************************************************************************)
EXTENDS Checkpoint, GCScheduler, FiniteSetTheorems, TLAPS

-----------------------------------------------------------------------------
(* Checkpoints.                                                            *)

\* The points of a checkpoint under way.
Active == {"tables", "log", "files", "link", "current", "enable"}

\* The checkpoints under way.
UnderWay == {t \in Caller : pc[t] \in Active}

Points == {"idle", "tables", "log", "files", "link", "current", "enable", "done"}

\* The types of the variables that the proof looks at.
Typed ==
  /\ files \in [Family -> SUBSET Number] /\ obsolete \in [Family -> SUBSET Number]
  /\ ref \in [Family -> SUBSET Number]
  /\ pc \in [Caller -> Points]
  /\ captured \in [Caller -> [Family -> SUBSET Number]]
  /\ list \in [Caller -> [Family -> SUBSET Number]]
  /\ todo \in [Caller -> SUBSET Number] /\ linked \in [Caller -> SUBSET Number]
  /\ current \in [Caller -> BOOLEAN]
  /\ next \in Nat \ {0}

\* Every column family is there, and nothing has failed.
Undisturbed == open = Family /\ destroyed = {} /\ disturbed = 0

\* What the database knows of its files: those that tables refer to are
\* alive; those that are alive or obsolete are on disk and are not about to be
\* unlinked; no file is both or is in two column families.
FilesKnown ==
  /\ \A c \in Family : ref[c] \subseteq files[c]
  /\ \A c \in Family : files[c] \subseteq disk /\ obsolete[c] \subseteq disk
  /\ \A c \in Family : unlink \cap files[c] = {} /\ unlink \cap obsolete[c] = {}
  /\ \A b, c \in Family : files[b] \cap obsolete[c] = {}
  /\ \A b, c \in Family : b # c => files[b] \cap files[c] = {}
  /\ \A f \in disk \cup unlink : f \in Nat /\ f < next

\* The counter of disabled deletions, and what it keeps away.
PurgeHeldOff ==
  /\ disabled = Cardinality(UnderWay)
  /\ (\E t \in Caller : pc[t] \in Active) => ~ purging

\* What a checkpoint has captured at each of its points.
Captured(t) ==
  /\ pc[t] \in {"tables", "log", "files"} =>
       \A c \in Family : captured[t][c] \subseteq files[c] \cup obsolete[c]
  /\ pc[t] = "link" =>
       /\ \A c \in Family : captured[t][c] \subseteq list[t][c]
       /\ \A c \in Family : list[t][c] \subseteq todo[t] \cup linked[t]
       /\ todo[t] \subseteq disk
  /\ pc[t] \in {"current", "enable", "done"} =>
       \A c \in Family : captured[t][c] \subseteq list[t][c] \cap linked[t]
  /\ pc[t] \in {"enable", "done"} => current[t]

\* The inductive invariant.
CheckpointInv ==
  /\ Typed
  /\ Undisturbed
  /\ FilesKnown
  /\ PurgeHeldOff
  /\ \A t \in Caller : Captured(t)

-----------------------------------------------------------------------------
\* The checkpoints under way are finitely many.
LEMMA UnderWayFinite == IsFiniteSet(UnderWay) /\ Cardinality(UnderWay) \in Nat
<1>1. UnderWay \in SUBSET Caller
  BY DEF UnderWay
<1> QED BY <1>1, CheckpointAssumption, FS_Subset, FS_CardinalityType

\* With no deletions disabled, no checkpoint is under way.
LEMMA NobodyActive ==
  ASSUME CheckpointInv, disabled = 0
  PROVE  \A t \in Caller : pc[t] \notin Active
<1>1. IsFiniteSet(UnderWay)
  BY Zenon, UnderWayFinite
<1>2. UnderWay = {}
  BY Zenon, <1>1, FS_EmptySet DEF CheckpointInv, PurgeHeldOff
<1> QED BY <1>2 DEF UnderWay

\* A step that moves no checkpoint and takes nothing away from what the
\* database knows keeps what the checkpoints have captured.
LEMMA StillCaptured ==
  ASSUME NEW t \in Caller, Captured(t), UNCHANGED <<pc, captured, list, todo, linked, current>>,
         pc[t] \in Active =>
           /\ \A c \in Family : files[c] \cup obsolete[c] \subseteq files'[c] \cup obsolete'[c]
           /\ disk \subseteq disk'
  PROVE  Captured(t)'
<1>1. pc[t] \in {"tables", "log", "files", "link"} => pc[t] \in Active
  BY DEF Active
<1>2. /\ pc'[t] = pc[t] /\ captured'[t] = captured[t] /\ list'[t] = list[t]
      /\ todo'[t] = todo[t] /\ linked'[t] = linked[t] /\ current'[t] = current[t]
  BY Zenon
<1>3. pc'[t] \in {"tables", "log", "files"} =>
        \A c \in Family : captured'[t][c] \subseteq files'[c] \cup obsolete'[c]
  BY <1>1, <1>2 DEF Captured
<1>4. pc'[t] = "link" => todo'[t] \subseteq disk'
  BY <1>1, <1>2 DEF Captured
<1> QED BY Zenon, <1>2, <1>3, <1>4 DEF Captured

-----------------------------------------------------------------------------
(* The steps of the database.                                              *)

\* A new file has a number that nobody knows.
LEMMA AddBlobFileInv ==
  ASSUME CheckpointInv, NEW cf \in Family, AddBlobFile(cf)
  PROVE  CheckpointInv'
<1> USE DEF CheckpointInv
<1>1. /\ UNCHANGED <<obsolete, open, destroyed, ref, unlink, purging, disabled, pc,
                     captured, list, todo, linked, current, status, disturbed>>
      /\ files' = [files EXCEPT ![cf] = @ \cup {next}]
      /\ disk' = disk \cup {next}
      /\ next' = next + 1
      /\ next <= MaxFile
  BY DEF AddBlobFile, purgeVars, ckptVars
<1>2. next \in Nat /\ files \in [Family -> SUBSET Number] /\ obsolete \in [Family -> SUBSET Number]
  BY Zenon DEF Typed
<1>3. \A f \in disk \cup unlink : f \in Nat /\ f < next
  BY Zenon DEF FilesKnown
<1>4. next \notin disk /\ next \notin unlink
  BY <1>2, <1>3
<1>5. FilesKnown'
  <2>1. \A f \in disk' \cup unlink' : f \in Nat /\ f < next'
    BY <1>1, <1>2, <1>3
  <2>2. \A c \in Family : files'[c] = IF c = cf THEN files[c] \cup {next} ELSE files[c]
    BY Zenon, <1>1, <1>2
  <2> QED BY <1>1, <1>4, <2>1, <2>2 DEF FilesKnown
<1>6. Typed'
  <2>1. next \in Number
    BY <1>1, <1>2 DEF Number, Typed
  <2>2. files' \in [Family -> SUBSET Number] /\ next' \in Nat \ {0}
    BY <1>1, <1>2, <2>1
  <2> QED BY Zenon, <1>1, <2>2 DEF Typed
<1>7. Undisturbed' /\ PurgeHeldOff'
  BY Zenon, <1>1 DEF Undisturbed, PurgeHeldOff, UnderWay
<1>8. ASSUME NEW t \in Caller PROVE Captured(t)'
  <2>1. \A c \in Family : files[c] \cup obsolete[c] \subseteq files'[c] \cup obsolete'[c]
    BY <1>1, <1>2
  <2>2. disk \subseteq disk'
    BY <1>1
  <2> QED BY Zenon, <1>1, <2>1, <2>2, StillCaptured
<1> QED BY Zenon, <1>5, <1>6, <1>7, <1>8

\* A table or a write-back refers to a file that is alive.
LEMMA ReferenceInv ==
  ASSUME CheckpointInv, NEW cf \in Family, NEW f \in Number, Reference(cf, f)
  PROVE  CheckpointInv'
<1> USE DEF CheckpointInv
<1>1. /\ UNCHANGED <<files, obsolete, open, destroyed, disk, next, unlink, purging,
                     disabled, pc, captured, list, todo, linked, current, disturbed>>
      /\ ref' = [ref EXCEPT ![cf] = @ \cup {f}]
      /\ f \in files[cf]
  BY DEF Reference, purgeVars, ckptVars
<1>2. ref \in [Family -> SUBSET Number]
  BY Zenon DEF Typed
<1>3. FilesKnown'
  <2>1. \A c \in Family : ref'[c] \subseteq files'[c]
    BY <1>1, <1>2 DEF FilesKnown
  <2> QED BY Zenon, <1>1, <2>1 DEF FilesKnown
<1>4. Typed'
  <2>1. ref' \in [Family -> SUBSET Number]
    BY <1>1, <1>2
  <2> QED BY Zenon, <1>1, <2>1 DEF Typed
<1>5. Undisturbed' /\ PurgeHeldOff'
  BY Zenon, <1>1 DEF Undisturbed, PurgeHeldOff, UnderWay
<1>6. \A t \in Caller : Captured(t)'
  BY Zenon, <1>1 DEF Captured
<1> QED BY Zenon, <1>3, <1>4, <1>5, <1>6

\* A deleted input is obsolete: the storage still knows it.
LEMMA DeleteInputBlobFilesInv ==
  ASSUME CheckpointInv, NEW cf \in Family, NEW f \in Number, DeleteInputBlobFiles(cf, f)
  PROVE  CheckpointInv'
<1> USE DEF CheckpointInv
<1>1. /\ UNCHANGED <<open, destroyed, disk, next, unlink, purging, disabled, pc, captured,
                     list, todo, linked, current, disturbed>>
      /\ f \in files[cf]
      /\ ref' = [ref EXCEPT ![cf] = @ \ {f}]
      /\ files' = [files EXCEPT ![cf] = @ \ {f}]
      /\ obsolete' = [obsolete EXCEPT ![cf] = @ \cup {f}]
  BY DEF DeleteInputBlobFiles, purgeVars, ckptVars
<1>2. /\ ref \in [Family -> SUBSET Number] /\ files \in [Family -> SUBSET Number]
      /\ obsolete \in [Family -> SUBSET Number]
  BY Zenon DEF Typed
<1>3. \A c \in Family :
        /\ ref'[c] = IF c = cf THEN ref[c] \ {f} ELSE ref[c]
        /\ files'[c] = IF c = cf THEN files[c] \ {f} ELSE files[c]
        /\ obsolete'[c] = IF c = cf THEN obsolete[c] \cup {f} ELSE obsolete[c]
  BY Zenon, <1>1, <1>2
<1>4. FilesKnown'
  <2>1. ASSUME NEW c \in Family PROVE ref'[c] \subseteq files'[c]
    <3>1. ref[c] \subseteq files[c]
      BY Zenon DEF FilesKnown
    <3> QED BY Zenon, <1>3, <3>1
  <2>2. \A c \in Family : files'[c] \subseteq disk' /\ obsolete'[c] \subseteq disk'
    <3>1. f \in disk
      BY <1>1 DEF FilesKnown
    <3>2. \A c \in Family : files'[c] \subseteq files[c] /\ obsolete'[c] \subseteq obsolete[c] \cup {f}
      BY Zenon, <1>3
    <3> QED BY <1>1, <3>1, <3>2 DEF FilesKnown
  <2>3. \A c \in Family : unlink' \cap files'[c] = {} /\ unlink' \cap obsolete'[c] = {}
    BY <1>1, <1>3 DEF FilesKnown
  <2>4. ASSUME NEW b \in Family, NEW c \in Family PROVE files'[b] \cap obsolete'[c] = {}
    <3>1. files[b] \cap obsolete[c] = {}
      BY Zenon DEF FilesKnown
    <3>2. f \notin files'[b]
      <4>1. CASE b = cf
        BY Zenon, <1>3, <4>1
      <4>2. CASE b # cf
        <5>1. files[b] \cap files[cf] = {} /\ files'[b] = files[b]
          BY Zenon, <1>3, <4>2 DEF FilesKnown
        <5> QED BY <1>1, <5>1
      <4> QED BY Zenon, <4>1, <4>2
    <3>3. files'[b] \subseteq files[b] /\ obsolete'[c] \subseteq obsolete[c] \cup {f}
      BY Zenon, <1>3
    <3> QED BY <3>1, <3>2, <3>3
  <2>5. \A b, c \in Family : b # c => files'[b] \cap files'[c] = {}
    BY Zenon, <1>3 DEF FilesKnown
  <2> QED BY Zenon, <1>1, <2>1, <2>2, <2>3, <2>4, <2>5 DEF FilesKnown
<1>5. Typed'
  <2>1. /\ ref' \in [Family -> SUBSET Number] /\ files' \in [Family -> SUBSET Number]
        /\ obsolete' \in [Family -> SUBSET Number]
    BY <1>1, <1>2
  <2> QED BY Zenon, <1>1, <2>1 DEF Typed
<1>6. Undisturbed' /\ PurgeHeldOff'
  BY Zenon, <1>1 DEF Undisturbed, PurgeHeldOff, UnderWay
<1>7. ASSUME NEW t \in Caller PROVE Captured(t)'
  <2>1. \A c \in Family : files[c] \cup obsolete[c] \subseteq files'[c] \cup obsolete'[c]
    BY Zenon, <1>3
  <2>2. disk \subseteq disk'
    BY <1>1
  <2> QED BY Zenon, <1>1, <2>1, <2>2, StillCaptured
<1> QED BY Zenon, <1>4, <1>5, <1>6, <1>7

\* The purge forgets obsolete files only when no checkpoint is under way.
LEMMA GetObsoleteFilesInv ==
  ASSUME CheckpointInv, PurgeObsoleteFilesImpl
  PROVE  CheckpointInv'
<1> USE DEF CheckpointInv
<1>1. /\ UNCHANGED <<files, destroyed, ref, disk, next, disabled, pc, captured, list, todo,
                     linked, current, disturbed>>
      /\ disabled = 0
      /\ unlink' = All(obsolete)
      /\ obsolete' = Empty
      /\ open' = open \ destroyed
  BY DEF PurgeObsoleteFilesImpl, ckptVars
<1>2. \A t \in Caller : pc[t] \notin Active
  BY Zenon, <1>1, NobodyActive
<1>3. \A c \in Family : obsolete'[c] = {}
  BY <1>1 DEF Empty
<1>4. FilesKnown'
  <2>1. \A x \in unlink' : \E c \in Family : x \in obsolete[c]
    BY <1>1 DEF All
  <2>2. \A c \in Family : unlink' \cap files'[c] = {} /\ unlink' \cap obsolete'[c] = {}
    BY <1>1, <1>3, <2>1 DEF FilesKnown
  <2>3. unlink' \subseteq disk
    BY <2>1 DEF FilesKnown
  <2>4. \A x \in disk' \cup unlink' : x \in Nat /\ x < next'
    BY <1>1, <2>3 DEF FilesKnown
  <2> QED BY <1>1, <1>3, <2>2, <2>4 DEF FilesKnown
<1>5. Typed'
  <2>1. obsolete' \in [Family -> SUBSET Number]
    BY <1>1 DEF Empty
  <2> QED BY Zenon, <1>1, <2>1 DEF Typed
<1>6. Undisturbed'
  BY <1>1 DEF Undisturbed
<1>7. PurgeHeldOff'
  BY Zenon, <1>1, <1>2 DEF PurgeHeldOff, UnderWay
<1>8. \A t \in Caller : Captured(t)'
  BY Zenon, <1>1, <1>2, StillCaptured
<1> QED BY Zenon, <1>4, <1>5, <1>6, <1>7, <1>8

\* The purge unlinks files only when no checkpoint is under way.
LEMMA DeleteFilesInv ==
  ASSUME CheckpointInv, DeleteFiles
  PROVE  CheckpointInv'
<1> USE DEF CheckpointInv
<1>1. /\ UNCHANGED <<files, obsolete, open, destroyed, ref, next, disabled, pc, captured,
                     list, todo, linked, current, disturbed>>
      /\ disk' = disk \ unlink
      /\ unlink' = {}
  BY DEF DeleteFiles, ckptVars
<1>2. \A t \in Caller : pc[t] \notin Active
  BY Zenon DEF DeleteFiles, PurgeHeldOff
<1>3. FilesKnown'
  BY <1>1 DEF FilesKnown
<1>4. Typed' /\ Undisturbed'
  BY Zenon, <1>1 DEF Typed, Undisturbed
<1>5. PurgeHeldOff'
  BY Zenon, <1>1, <1>2 DEF PurgeHeldOff, UnderWay
<1>6. \A t \in Caller : Captured(t)'
  BY Zenon, <1>1, <1>2, StillCaptured
<1> QED BY Zenon, <1>3, <1>4, <1>5, <1>6

-----------------------------------------------------------------------------
(* The steps of a checkpoint.                                              *)

\* A thread that moves within the points of a checkpoint, or outside them,
\* leaves the count as it is.
LEMMA CountKept ==
  ASSUME CheckpointInv, NEW t \in Caller, NEW v \in Points, pc' = [pc EXCEPT ![t] = v],
         v \in Active <=> pc[t] \in Active,
         UNCHANGED <<disabled, purging>>
  PROVE  PurgeHeldOff'
<1>1. pc \in [Caller -> Points] /\ PurgeHeldOff
  BY Zenon DEF CheckpointInv, Typed
<1>2. \A x \in Caller : pc'[x] \in Active <=> pc[x] \in Active
  BY <1>1
<1>3. UnderWay' = UnderWay
  BY <1>2 DEF UnderWay
<1> QED BY Zenon, <1>1, <1>2, <1>3 DEF PurgeHeldOff

\* The other threads have captured what they had.
LEMMA OthersCaptured ==
  ASSUME CheckpointInv, NEW t \in Caller, NEW u \in Caller \ {t},
         UNCHANGED <<files, obsolete, disk>>,
         /\ pc'[u] = pc[u] /\ captured'[u] = captured[u] /\ list'[u] = list[u]
         /\ todo'[u] = todo[u] /\ linked'[u] = linked[u] /\ current'[u] = current[u]
  PROVE  Captured(u)'
BY Zenon DEF CheckpointInv, Captured

\* A checkpoint begins when no purge is in progress.
LEMMA DisableFileDeletionsInv ==
  ASSUME CheckpointInv, NEW t \in Caller, DisableFileDeletions(t)
  PROVE  CheckpointInv'
<1> USE DEF CheckpointInv
<1>1. /\ UNCHANGED <<files, obsolete, open, destroyed, ref, disk, next, unlink, purging,
                     disturbed>>
      /\ pc[t] = "idle" /\ ~ purging
      /\ disabled' = disabled + 1
      /\ captured' = [captured EXCEPT ![t] = Empty] /\ list' = [list EXCEPT ![t] = Empty]
      /\ todo' = [todo EXCEPT ![t] = {}] /\ linked' = [linked EXCEPT ![t] = {}]
      /\ current' = [current EXCEPT ![t] = FALSE]
      /\ pc' = [pc EXCEPT ![t] = "tables"]
  BY Zenon DEF DisableFileDeletions, dbVars, purgeVars, Goto
<1>2. Typed
  BY Zenon
<1>3. Typed'
  <2>1. Empty \in [Family -> SUBSET Number]
    BY DEF Empty
  <2>2. /\ captured' \in [Caller -> [Family -> SUBSET Number]]
        /\ list' \in [Caller -> [Family -> SUBSET Number]]
    BY <1>1, <1>2, <2>1 DEF Typed
  <2>3. /\ todo' \in [Caller -> SUBSET Number] /\ linked' \in [Caller -> SUBSET Number]
        /\ pc' \in [Caller -> Points]
    BY <1>1, <1>2 DEF Typed, Points
  <2>4. current' \in [Caller -> BOOLEAN]
    BY Zenon, <1>1, <1>2 DEF Typed
  <2> QED BY Zenon, <1>1, <1>2, <2>2, <2>3, <2>4 DEF Typed
<1>4. Undisturbed' /\ FilesKnown'
  BY Zenon, <1>1 DEF Undisturbed, FilesKnown
<1>5. PurgeHeldOff'
  <2>1. DOMAIN pc = Caller /\ pc = [x \in Caller |-> pc[x]]
    BY <1>2 DEF Typed
  <2>2. "tables" \in Active /\ pc[t] \notin Active
    BY <1>1 DEF Active
  <2>3. UnderWay' = UnderWay \cup {t} /\ t \notin UnderWay
    BY <1>1, <2>1, <2>2 DEF UnderWay
  <2>4. Cardinality(UnderWay') = Cardinality(UnderWay) + 1
    BY SMTT(30), <2>3, UnderWayFinite, FS_AddElement
  <2> QED BY Zenon, <1>1, <2>4 DEF PurgeHeldOff
<1>6. Captured(t)'
  <2>1. pc'[t] = "tables" /\ captured'[t] = Empty
    BY <1>1, <1>2 DEF Typed
  <2> QED BY Zenon, <2>1 DEF Captured, Empty
<1>7. ASSUME NEW u \in Caller \ {t} PROVE Captured(u)'
  <2>1. /\ pc'[u] = pc[u] /\ captured'[u] = captured[u] /\ list'[u] = list[u]
        /\ todo'[u] = todo[u] /\ linked'[u] = linked[u]
    BY <1>1, <1>2 DEF Typed
  <2>2. current'[u] = current[u]
    BY Zenon, <1>1, <1>2 DEF Typed
  <2> QED BY Zenon, <1>1, <2>1, <2>2, OthersCaptured
<1> QED BY Zenon, <1>3, <1>4, <1>5, <1>6, <1>7

\* What the base DB refers to is alive when it is captured.
LEMMA CaptureBaseInv ==
  ASSUME CheckpointInv, NEW t \in Caller, CaptureBase(t)
  PROVE  CheckpointInv'
<1> USE DEF CheckpointInv
<1>1. /\ UNCHANGED <<files, obsolete, open, destroyed, ref, disk, next, unlink, purging,
                     disabled, list, todo, linked, current, disturbed>>
      /\ pc[t] \in {"tables", "log"}
      /\ captured' = [captured EXCEPT ![t] = [c \in Family |-> captured[t][c] \cup ref[c]]]
  BY Zenon DEF CaptureBase, dbVars, purgeVars, Goto
<1>2. PICK v \in {"log", "files"} : pc' = [pc EXCEPT ![t] = v]
  BY Zenon DEF CaptureBase, Goto
<1>3. Typed
  BY Zenon
<1>4. Typed'
  <2>1. captured' \in [Caller -> [Family -> SUBSET Number]] /\ pc' \in [Caller -> Points]
    BY <1>1, <1>2, <1>3 DEF Typed, Points
  <2> QED BY Zenon, <1>1, <1>3, <2>1 DEF Typed
<1>5. Undisturbed' /\ FilesKnown'
  BY Zenon, <1>1 DEF Undisturbed, FilesKnown
<1>6. PurgeHeldOff'
  <2>1. v \in Points /\ v \in Active /\ pc[t] \in Active
    BY <1>1 DEF Points, Active
  <2> QED BY Zenon, <1>1, <1>2, <2>1, CountKept
<1>7. Captured(t)'
  <2>1. pc'[t] = v /\ \A c \in Family : captured'[t][c] = captured[t][c] \cup ref[c]
    BY <1>1, <1>2, <1>3 DEF Typed
  <2>2. \A c \in Family : captured[t][c] \subseteq files[c] \cup obsolete[c]
    BY <1>1 DEF Captured
  <2>3. \A c \in Family : captured'[t][c] \subseteq files'[c] \cup obsolete'[c]
    BY <1>1, <2>1, <2>2 DEF FilesKnown
  <2> QED BY <2>1, <2>3 DEF Captured
<1>8. ASSUME NEW u \in Caller \ {t} PROVE Captured(u)'
  <2>1. pc'[u] = pc[u] /\ captured'[u] = captured[u]
    BY <1>1, <1>2, <1>3 DEF Typed
  <2> QED BY Zenon, <1>1, <2>1, OthersCaptured
<1> QED BY Zenon, <1>4, <1>5, <1>6, <1>7, <1>8

\* The files that are listed hold all that is captured, and are on disk.
LEMMA GetAllTitanFilesInv ==
  ASSUME CheckpointInv, NEW t \in Caller, GetAllTitanFiles(t)
  PROVE  CheckpointInv'
<1> USE DEF CheckpointInv
<1> DEFINE known == [c \in Family |-> IF c \in open THEN files[c] \cup obsolete[c] ELSE {}]
<1>1. /\ UNCHANGED <<files, obsolete, open, destroyed, ref, disk, next, unlink, purging,
                     disabled, captured, linked, current, disturbed>>
      /\ pc[t] = "files"
      /\ list' = [list EXCEPT ![t] = known]
      /\ todo' = [todo EXCEPT ![t] = All(list'[t])]
      /\ pc' = [pc EXCEPT ![t] = "link"]
  BY Zenon DEF GetAllTitanFiles, dbVars, purgeVars, Goto
<1>2. Typed
  BY Zenon
<1>3. \A c \in Family : known[c] = files[c] \cup obsolete[c]
  BY DEF Undisturbed
<1>4. known \in [Family -> SUBSET Number]
  BY <1>2 DEF Typed
<1> HIDE DEF known
<1>5. list'[t] = known /\ todo'[t] = All(known)
  BY <1>1, <1>2 DEF Typed
<1>6. Typed'
  <2>1. All(known) \in SUBSET Number
    BY <1>4 DEF All
  <2>2. todo' = [todo EXCEPT ![t] = All(known)]
    BY Zenon, <1>1, <1>5
  <2>3. /\ list' \in [Caller -> [Family -> SUBSET Number]] /\ pc' \in [Caller -> Points]
        /\ todo' \in [Caller -> SUBSET Number]
    BY <1>1, <1>2, <1>4, <2>1, <2>2 DEF Typed, Points
  <2> QED BY Zenon, <1>1, <1>2, <2>3 DEF Typed
<1>7. Undisturbed' /\ FilesKnown'
  BY Zenon, <1>1 DEF Undisturbed, FilesKnown
<1>8. PurgeHeldOff'
  <2>1. "link" \in Points /\ "link" \in Active /\ pc[t] \in Active
    BY SMTT(30), <1>1 DEF Points, Active
  <2> QED BY Zenon, <1>1, <2>1, CountKept
<1>9. Captured(t)'
  <2>1. pc'[t] = "link" /\ captured'[t] = captured[t]
    BY <1>1, <1>2 DEF Typed
  <2>2. \A c \in Family : captured[t][c] \subseteq files[c] \cup obsolete[c]
    BY <1>1 DEF Captured
  <2>3. \A c \in Family : known[c] \subseteq All(known)
    BY DEF All
  <2>4. All(known) \subseteq disk'
    <3>1. \A c \in Family : files[c] \subseteq disk /\ obsolete[c] \subseteq disk
      BY Zenon DEF FilesKnown
    <3>2. \A c \in Family : known[c] \subseteq disk'
      BY Zenon, <1>1, <1>3, <3>1
    <3> QED BY Zenon, <3>2 DEF All
  <2>5. \A c \in Family : captured'[t][c] \subseteq list'[t][c]
    BY Zenon, <1>3, <1>5, <2>1, <2>2
  <2>6. \A c \in Family : list'[t][c] \subseteq todo'[t] \cup linked'[t]
    BY <1>5, <2>3
  <2> QED BY <1>5, <2>1, <2>4, <2>5, <2>6 DEF Captured
<1>10. ASSUME NEW u \in Caller \ {t} PROVE Captured(u)'
  <2>1. pc'[u] = pc[u] /\ list'[u] = list[u] /\ todo'[u] = todo[u]
    BY <1>1, <1>2 DEF Typed
  <2> QED BY Zenon, <1>1, <2>1, OthersCaptured
<1> QED BY Zenon, <1>6, <1>7, <1>8, <1>9, <1>10

\* A file that is left to link is on disk, and linked.
LEMMA LinkFileInv ==
  ASSUME CheckpointInv, disturbed' = 0, NEW t \in Caller, NEW f \in Number,
         NEW ok \in BOOLEAN, LinkFile(t, f, ok)
  PROVE  CheckpointInv'
<1> USE DEF CheckpointInv
<1>1. /\ UNCHANGED <<files, obsolete, open, destroyed, ref, disk, next, unlink, purging,
                     disabled, pc, captured, list, current>>
      /\ pc[t] = "link" /\ f \in todo[t]
      /\ todo' = [todo EXCEPT ![t] = @ \ {f}]
  BY DEF LinkFile, dbVars, purgeVars
<1>2. Typed
  BY Zenon
<1>3. f \in disk
  BY <1>1 DEF Captured
<1>4. linked' = [linked EXCEPT ![t] = @ \cup {f}] /\ disturbed' = disturbed
  BY <1>3 DEF LinkFile, Undisturbed, Disturb
<1>5. Typed'
  <2>1. todo' \in [Caller -> SUBSET Number] /\ linked' \in [Caller -> SUBSET Number]
    BY <1>1, <1>2, <1>4 DEF Typed
  <2> QED BY Zenon, <1>1, <1>2, <2>1 DEF Typed
<1>6. Undisturbed' /\ FilesKnown' /\ PurgeHeldOff'
  BY Zenon, <1>1, <1>4 DEF Undisturbed, FilesKnown, PurgeHeldOff, UnderWay
<1>7. Captured(t)'
  <2>1. /\ todo'[t] = todo[t] \ {f} /\ linked'[t] = linked[t] \cup {f}
        /\ pc'[t] = "link" /\ list'[t] = list[t] /\ captured'[t] = captured[t]
    BY <1>1, <1>2, <1>4 DEF Typed
  <2>2. /\ \A c \in Family : captured[t][c] \subseteq list[t][c]
        /\ \A c \in Family : list[t][c] \subseteq todo[t] \cup linked[t]
        /\ todo[t] \subseteq disk
    BY <1>1 DEF Captured
  <2>3. todo'[t] \cup linked'[t] = todo[t] \cup linked[t]
    BY <1>1, <2>1
  <2>4. todo'[t] \subseteq disk'
    BY <1>1, <2>1, <2>2
  <2>5. "link" \notin {"tables", "log", "files", "current", "enable", "done"}
    OBVIOUS
  <2> QED BY ZenonT(40), <2>1, <2>2, <2>3, <2>4, <2>5 DEF Captured
<1>8. ASSUME NEW u \in Caller \ {t} PROVE Captured(u)'
  <2>1. linked'[u] = linked[u] /\ todo'[u] = todo[u]
    BY <1>1, <1>2, <1>4 DEF Typed
  <2> QED BY Zenon, <1>1, <2>1, OthersCaptured
<1> QED BY Zenon, <1>5, <1>6, <1>7, <1>8

\* The manifest comes when every file is linked.
LEMMA CreateTitanManifestInv ==
  ASSUME CheckpointInv, NEW t \in Caller, CreateTitanManifest(t)
  PROVE  CheckpointInv'
<1> USE DEF CheckpointInv
<1>1. /\ UNCHANGED <<files, obsolete, open, destroyed, ref, disk, next, unlink, purging,
                     disabled, captured, list, todo, linked, current, disturbed>>
      /\ pc[t] = "link" /\ todo[t] = {}
      /\ pc' = [pc EXCEPT ![t] = "current"]
  BY Zenon DEF CreateTitanManifest, dbVars, purgeVars, Goto
<1>2. Typed
  BY Zenon
<1>3. Typed'
  <2>1. pc' \in [Caller -> Points]
    BY <1>1, <1>2 DEF Typed, Points
  <2> QED BY Zenon, <1>1, <1>2, <2>1 DEF Typed
<1>4. Undisturbed' /\ FilesKnown'
  BY Zenon, <1>1 DEF Undisturbed, FilesKnown
<1>5. PurgeHeldOff'
  <2>1. "current" \in Points /\ "current" \in Active /\ pc[t] \in Active
    BY <1>1 DEF Points, Active
  <2> QED BY Zenon, <1>1, <2>1, CountKept
<1>6. Captured(t)'
  <2>1. pc'[t] = "current" /\ captured'[t] = captured[t] /\ list'[t] = list[t] /\ linked'[t] = linked[t]
    BY Zenon, <1>1, <1>2 DEF Typed
  <2>2. \A c \in Family : captured[t][c] \subseteq list[t][c] \cap linked[t]
    BY <1>1 DEF Captured
  <2> QED BY <2>1, <2>2 DEF Captured
<1>7. ASSUME NEW u \in Caller \ {t} PROVE Captured(u)'
  <2>1. pc'[u] = pc[u]
    BY <1>1, <1>2 DEF Typed
  <2> QED BY Zenon, <1>1, <2>1, OthersCaptured
<1> QED BY Zenon, <1>3, <1>4, <1>5, <1>6, <1>7

\* CURRENT is the last file of the checkpoint.
LEMMA CreateCurrentInv ==
  ASSUME CheckpointInv, disturbed' = 0, NEW t \in Caller, NEW ok \in BOOLEAN,
         CreateCurrent(t, ok)
  PROVE  CheckpointInv'
<1> USE DEF CheckpointInv
<1>1. /\ UNCHANGED <<files, obsolete, open, destroyed, ref, disk, next, unlink, purging,
                     disabled, captured, list, todo, linked>>
      /\ pc[t] = "current"
      /\ pc' = [pc EXCEPT ![t] = "enable"]
      /\ current' = [current EXCEPT ![t] = ok]
  BY Zenon DEF CreateCurrent, dbVars, purgeVars, Goto
<1>2. Typed
  BY Zenon
<1>3. ok
  <2>1. disturbed' # disturbed + 1
    BY DEF Undisturbed
  <2> QED BY Zenon, <2>1 DEF CreateCurrent, Disturb
<1>4. disturbed' = disturbed
  BY Zenon, <1>3 DEF CreateCurrent
<1>5. Typed'
  <2>1. pc' \in [Caller -> Points]
    BY <1>1, <1>2 DEF Typed, Points
  <2>2. current' \in [Caller -> BOOLEAN]
    BY Zenon, <1>1, <1>2 DEF Typed
  <2> QED BY Zenon, <1>1, <1>2, <2>1, <2>2 DEF Typed
<1>6. Undisturbed' /\ FilesKnown'
  BY Zenon, <1>1, <1>4 DEF Undisturbed, FilesKnown
<1>7. PurgeHeldOff'
  <2>1. "enable" \in Points /\ "enable" \in Active /\ pc[t] \in Active
    BY <1>1 DEF Points, Active
  <2> QED BY Zenon, <1>1, <2>1, CountKept
<1>8. Captured(t)'
  <2>1. pc'[t] = "enable"
    BY <1>1, <1>2 DEF Typed
  <2>2. current'[t]
    BY Zenon, <1>1, <1>2, <1>3 DEF Typed
  <2>3. \A c \in Family : captured'[t][c] \subseteq list'[t][c] \cap linked'[t]
    BY <1>1 DEF Captured
  <2>4. "enable" \notin {"tables", "log", "files", "link"}
    OBVIOUS
  <2>5. "enable" # "link"
    OBVIOUS
  <2> QED BY Zenon, <2>1, <2>2, <2>3, <2>4, <2>5 DEF Captured
<1>9. ASSUME NEW u \in Caller \ {t} PROVE Captured(u)'
  <2>1. pc'[u] = pc[u]
    BY <1>1, <1>2 DEF Typed
  <2>2. current'[u] = current[u]
    BY Zenon, <1>1, <1>2 DEF Typed
  <2> QED BY Zenon, <1>1, <2>1, <2>2, OthersCaptured
<1> QED BY Zenon, <1>5, <1>6, <1>7, <1>8, <1>9

\* The last step of a checkpoint takes its own share of the counter.
LEMMA EnableFileDeletionsInv ==
  ASSUME CheckpointInv, NEW t \in Caller, EnableFileDeletions(t)
  PROVE  CheckpointInv'
<1> USE DEF CheckpointInv
<1>1. /\ UNCHANGED <<files, obsolete, open, destroyed, ref, disk, next, unlink, purging,
                     captured, list, todo, linked, current, disturbed>>
      /\ pc[t] = "enable"
      /\ disabled' = IF disabled > 0 THEN disabled - 1 ELSE disabled
  BY Zenon DEF EnableFileDeletions, dbVars, purgeVars, ckptVars
<1>2. PICK v \in {"done", "idle"} : pc' = [pc EXCEPT ![t] = v]
  BY Zenon DEF EnableFileDeletions, Goto
<1>3. Typed
  BY Zenon
<1>4. Typed'
  <2>1. pc' \in [Caller -> Points]
    BY <1>2, <1>3 DEF Typed, Points
  <2> QED BY Zenon, <1>1, <1>3, <2>1 DEF Typed
<1>5. Undisturbed' /\ FilesKnown'
  BY Zenon, <1>1 DEF Undisturbed, FilesKnown
<1>6. PurgeHeldOff'
  <2>1. DOMAIN pc = Caller /\ pc = [x \in Caller |-> pc[x]]
    BY <1>3 DEF Typed
  <2>2. v \notin Active /\ pc[t] \in Active
    BY <1>1 DEF Active
  <2>3. UnderWay' = UnderWay \ {t} /\ t \in UnderWay
    BY <1>2, <2>1, <2>2 DEF UnderWay
  <2>4. Cardinality(UnderWay') = Cardinality(UnderWay) - 1
    BY <2>3, UnderWayFinite, FS_RemoveElement
  <2>5. IsFiniteSet(UnderWay) /\ Cardinality(UnderWay) \in Nat
    BY Zenon, UnderWayFinite
  <2>6. UnderWay # {}
    BY <2>2 DEF UnderWay
  <2>7. Cardinality(UnderWay) # 0
    BY Zenon, <2>5, <2>6, FS_EmptySet
  <2>8. disabled = Cardinality(UnderWay) /\ ~ purging
    BY Zenon, <2>2 DEF PurgeHeldOff
  <2>9. disabled' = disabled - 1
    BY <1>1, <2>5, <2>7, <2>8
  <2> QED BY Zenon, <1>1, <2>4, <2>8, <2>9 DEF PurgeHeldOff
<1>7. Captured(t)'
  <2>1. pc'[t] = v
    BY <1>2, <1>3 DEF Typed
  <2>2. current[t] /\ \A c \in Family : captured[t][c] \subseteq list[t][c] \cap linked[t]
    BY Zenon, <1>1 DEF Captured
  <2>3. v \notin {"tables", "log", "files", "link"} /\ v # "link"
    OBVIOUS
  <2> QED BY Zenon, <1>1, <2>1, <2>2, <2>3 DEF Captured
<1>8. ASSUME NEW u \in Caller \ {t} PROVE Captured(u)'
  <2>1. pc'[u] = pc[u]
    BY <1>2, <1>3 DEF Typed
  <2> QED BY Zenon, <1>1, <2>1, OthersCaptured
<1> QED BY Zenon, <1>4, <1>5, <1>6, <1>7, <1>8

\* CreateCheckpoint has returned.
LEMMA ReturnInv ==
  ASSUME CheckpointInv, NEW t \in Caller, Return(t)
  PROVE  CheckpointInv'
<1> USE DEF CheckpointInv
<1>1. /\ UNCHANGED <<files, obsolete, open, destroyed, ref, disk, next, unlink, purging,
                     disabled, captured, list, todo, linked, current, disturbed>>
      /\ pc[t] = "done"
      /\ pc' = [pc EXCEPT ![t] = "idle"]
  BY Zenon DEF Return, dbVars, purgeVars, ckptVars, Goto
<1>2. Typed
  BY Zenon
<1>3. Typed'
  <2>1. pc' \in [Caller -> Points]
    BY <1>1, <1>2 DEF Typed, Points
  <2> QED BY Zenon, <1>1, <1>2, <2>1 DEF Typed
<1>4. Undisturbed' /\ FilesKnown'
  BY Zenon, <1>1 DEF Undisturbed, FilesKnown
<1>5. PurgeHeldOff'
  <2>1. "idle" \in Points /\ "idle" \notin Active /\ pc[t] \notin Active
    BY <1>1 DEF Points, Active
  <2> QED BY Zenon, <1>1, <2>1, CountKept
<1>6. Captured(t)'
  <2>1. pc'[t] = "idle"
    BY Zenon, <1>1, <1>2 DEF Typed
  <2> QED BY <2>1 DEF Captured
<1>7. ASSUME NEW u \in Caller \ {t} PROVE Captured(u)'
  <2>1. pc'[u] = pc[u]
    BY <1>1, <1>2 DEF Typed
  <2> QED BY ZenonT(40), <1>1, <2>1, OthersCaptured
<1> QED BY Zenon, <1>3, <1>4, <1>5, <1>6, <1>7

-----------------------------------------------------------------------------
\* The invariant holds initially.
LEMMA CheckpointInitInv == CheckpointInit => CheckpointInv
<1> SUFFICES ASSUME CheckpointInit PROVE CheckpointInv
  BY Zenon
<1>1. Typed
  <2>1. Empty \in [Family -> SUBSET Number]
    BY DEF Empty
  <2>2. pc \in [Caller -> Points] /\ next \in Nat \ {0}
    BY DEF CheckpointInit, Points
  <2>3. /\ captured \in [Caller -> [Family -> SUBSET Number]]
        /\ list \in [Caller -> [Family -> SUBSET Number]]
        /\ todo \in [Caller -> SUBSET Number] /\ linked \in [Caller -> SUBSET Number]
    BY <2>1 DEF CheckpointInit
  <2>4. current \in [Caller -> BOOLEAN]
    BY Zenon DEF CheckpointInit
  <2> QED BY Zenon, <2>1, <2>2, <2>3, <2>4 DEF Typed, CheckpointInit
<1>2. Undisturbed /\ FilesKnown
  BY DEF CheckpointInit, Undisturbed, FilesKnown, Empty
<1>3. UnderWay = {}
  BY DEF CheckpointInit, UnderWay, Active
<1>4. PurgeHeldOff
  <2>1. Cardinality(UnderWay) = 0
    BY Zenon, <1>3, FS_EmptySet
  <2> QED BY Zenon, <2>1 DEF CheckpointInit, PurgeHeldOff
<1>5. \A t \in Caller : Captured(t)
  BY DEF CheckpointInit, Captured
<1> QED BY Zenon, <1>1, <1>2, <1>4, <1>5 DEF CheckpointInv

\* Every step that leaves the checkpoints undisturbed preserves the invariant.
LEMMA CheckpointNextInv ==
  ASSUME CheckpointInv, [CheckpointNext]_checkpointVars, disturbed' = 0
  PROVE  CheckpointInv'
<1>1. ~ Disturb
  BY DEF CheckpointInv, Undisturbed, Disturb
<1>2. ASSUME NEW t \in Caller, Step(t) PROVE CheckpointInv'
  BY Zenon, <1>1, <1>2, CaptureBaseInv, GetAllTitanFilesInv, LinkFileInv,
     CreateTitanManifestInv, CreateCurrentInv, EnableFileDeletionsInv, ReturnInv
     DEF Step, BaseFails, ManifestFails, Fails
<1>3. ASSUME NEW cf \in Family,
             \/ AddBlobFile(cf) \/ MaybeDestroyColumnFamily(cf)
             \/ \E f \in Number : Reference(cf, f) \/ DeleteInputBlobFiles(cf, f)
      PROVE  CheckpointInv'
  BY Zenon, <1>1, <1>3, AddBlobFileInv, ReferenceInv, DeleteInputBlobFilesInv
     DEF MaybeDestroyColumnFamily
<1>4. CASE UNCHANGED checkpointVars
  <2>1. UNCHANGED <<files, obsolete, open, destroyed, ref, disk, next, unlink, purging,
                    disabled, pc, captured, list, todo, linked, current, disturbed>>
    BY Zenon, <1>4 DEF checkpointVars, dbVars, purgeVars, ckptVars
  <2> QED BY ZenonT(40), <2>1 DEF CheckpointInv, Typed, Undisturbed, FilesKnown, PurgeHeldOff, UnderWay,
                             Captured
<1>5. CASE ForceFileDeletions
  BY Zenon, <1>1, <1>5 DEF ForceFileDeletions
<1> QED BY Zenon, <1>2, <1>3, <1>4, <1>5, GetObsoleteFilesInv, DeleteFilesInv,
           DisableFileDeletionsInv DEF CheckpointNext

\* What disturbs the checkpoints is never undone.
LEMMA NeverUndone ==
  ASSUME [CheckpointNext]_checkpointVars
  PROVE  disturbed' = disturbed \/ disturbed' = disturbed + 1
<1>1. ASSUME NEW t \in Caller, Step(t)
      PROVE  disturbed' = disturbed \/ disturbed' = disturbed + 1
  BY Zenon, <1>1
     DEF Step, CaptureBase, BaseFails, Fails, GetAllTitanFiles, LinkFile,
         CreateTitanManifest, ManifestFails, CreateCurrent, EnableFileDeletions, Return,
         Disturb
<1> QED BY Zenon, <1>1
     DEF CheckpointNext, AddBlobFile, Reference, DeleteInputBlobFiles, MaybeDestroyColumnFamily,
         PurgeObsoleteFilesImpl, DeleteFiles, ForceFileDeletions, DisableFileDeletions,
         Disturb, checkpointVars

\* A checkpoint that CreateCheckpoint reports as created holds CURRENT and
\* every blob file that its tables and its log refer to, whatever flushes, GC
\* jobs, purges and other checkpoints ran meanwhile, as long as no step of a
\* checkpoint failed, no handle was destroyed and nobody forced deletions on.
THEOREM CheckpointOpenable == CheckpointSpec => []QuietOpenable
<1> DEFINE Inv == disturbed \in Nat /\ (disturbed = 0 => CheckpointInv)
<1>1. CheckpointInit => Inv
  BY CheckpointInitInv DEF CheckpointInit
<1>2. Inv => QuietOpenable
  BY Zenon DEF CheckpointInv, Captured, Openable, QuietOpenable
<1>3. Inv /\ [CheckpointNext]_checkpointVars => Inv'
  <2> SUFFICES ASSUME Inv, [CheckpointNext]_checkpointVars PROVE Inv'
    BY Zenon
  <2>1. disturbed' = disturbed \/ disturbed' = disturbed + 1
    BY Zenon, NeverUndone
  <2>2. disturbed' \in Nat /\ (disturbed' = 0 => disturbed = 0)
    BY <2>1
  <2> QED BY Zenon, <2>2, CheckpointNextInv
<1> HIDE DEF Inv
<1> QED BY <1>1, <1>2, <1>3, PTL DEF CheckpointSpec

-----------------------------------------------------------------------------
(* The GC scheduler.                                                       *)

\* The processes of S that are at a point of pcs when f is their counter.
At(S, f, pcs) == {x \in S : f[x] \in pcs}

\* The processes at some points are finitely many.
LEMMA AtFinite ==
  ASSUME NEW S, IsFiniteSet(S), NEW f, NEW pcs
  PROVE  /\ IsFiniteSet(At(S, f, pcs))
         /\ Cardinality(At(S, f, pcs)) \in Nat
         /\ Cardinality(At(S, f, pcs)) <= Cardinality(S)
         /\ Cardinality(S) \in Nat
<1>1. At(S, f, pcs) \in SUBSET S
  BY DEF At
<1> QED BY <1>1, FS_Subset, FS_CardinalityType

\* Moving one process changes a count by what it enters and what it leaves.
LEMMA Move ==
  ASSUME NEW S, IsFiniteSet(S), NEW f, DOMAIN f = S, f = [y \in S |-> f[y]],
         NEW x \in S, NEW v, NEW pcs
  PROVE  LET g == [f EXCEPT ![x] = v]
         IN  /\ v \in pcs /\ f[x] \in pcs =>
                  At(S, g, pcs) = At(S, f, pcs)
             /\ v \notin pcs /\ f[x] \notin pcs =>
                  At(S, g, pcs) = At(S, f, pcs)
             /\ v \in pcs /\ f[x] \notin pcs =>
                  Cardinality(At(S, g, pcs)) = Cardinality(At(S, f, pcs)) + 1
             /\ v \notin pcs /\ f[x] \in pcs =>
                  Cardinality(At(S, g, pcs)) = Cardinality(At(S, f, pcs)) - 1
<1> DEFINE g == [f EXCEPT ![x] = v]
<1>1. v \in pcs /\ f[x] \in pcs => At(S, g, pcs) = At(S, f, pcs)
  BY DEF At
<1>2. v \notin pcs /\ f[x] \notin pcs => At(S, g, pcs) = At(S, f, pcs)
  BY DEF At
<1>3. v \in pcs /\ f[x] \notin pcs =>
        /\ At(S, g, pcs) = At(S, f, pcs) \cup {x}
        /\ x \notin At(S, f, pcs)
  BY DEF At
<1>4. v \notin pcs /\ f[x] \in pcs =>
        /\ At(S, g, pcs) = At(S, f, pcs) \ {x}
        /\ x \in At(S, f, pcs)
  BY DEF At
<1>5. IsFiniteSet(At(S, f, pcs))
  BY AtFinite
<1> HIDE DEF g
<1>6. v \in pcs /\ f[x] \notin pcs =>
        Cardinality(At(S, g, pcs)) = Cardinality(At(S, f, pcs)) + 1
  BY <1>3, <1>5, FS_AddElement
<1>7. v \notin pcs /\ f[x] \in pcs =>
        Cardinality(At(S, g, pcs)) = Cardinality(At(S, f, pcs)) - 1
  BY <1>4, <1>5, FS_RemoveElement
<1> QED BY Zenon, <1>1, <1>2, <1>6, <1>7 DEF g
Waiting == {"start", "asleep"}
Busy    == {"gc", "log"}
InJob   == {"start", "asleep", "gc", "log"}
\* Points of a drop request that is announced and not withdrawn.
Dropping == {"asleep", "check", "base", "install"}
\* Points of a drop that was called.
Called  == {"asleep", "check", "base", "install", "done"}

\* The counts that the invariant relates to the counters of the code.
queued   == Len(gc_queue)
waiting  == Cardinality(At(Thread, tpc, Waiting))
busy     == Cardinality(At(Thread, tpc, Busy))
inJob    == Cardinality(At(Thread, tpc, InJob))
dropping == Cardinality(At(Dropper, dpc, Dropping))
called   == Cardinality(At(Dropper, dpc, Called))

\* drop_cf_requests_ counts the drops under way, and those that left their
\* request behind when the base DB refused the drop; each has its column family.
DropsAccounted ==
  /\ dropping <= drop_requests
  /\ drop_requests <= called
  /\ \A d \in Dropper : dpc[d] # "idle" => dcf[d] \in CF

\* A running job has a column family.
JobsTyped == \A t \in Thread : tpc[t] = "gc" => job[t] \in CF

\* The inductive invariant.
SchedulerInv ==
  /\ TypeOK
  /\ QueueAccounted
  /\ DropExclusive
  /\ DropsAccounted
  /\ JobsTyped

\* A column family that GC may pick is in the base DB, or its drop is between
\* the base DB and the blob manifest.
StoredInBase ==
  \A c \in stored : c \in base \/ \E d \in Dropper : dpc[d] = "install" /\ dcf[d] = c

-----------------------------------------------------------------------------
(* Signals and submissions.                                                *)

\* A signal moves threads within the points that are counted alike.
LEMMA SignalThreadsCounts ==
  ASSUME TypeOK
  PROVE  /\ SignalThreads \in [Thread -> ThreadPC]
         /\ At(Thread, SignalThreads, Waiting) = At(Thread, tpc, Waiting)
         /\ At(Thread, SignalThreads, Busy) = At(Thread, tpc, Busy)
         /\ At(Thread, SignalThreads, InJob) = At(Thread, tpc, InJob)
         /\ \A t \in Thread : tpc[t] # "asleep" => SignalThreads[t] = tpc[t]
         /\ \A t \in Thread : SignalThreads[t] = "gc" => tpc[t] = "gc"
BY DEF SignalThreads, TypeOK, ThreadPC, At, Waiting, Busy, InJob

\* ... and so for the droppers.
LEMMA SignalDroppersCounts ==
  ASSUME TypeOK
  PROVE  /\ SignalDroppers \in [Dropper -> DropPC]
         /\ At(Dropper, SignalDroppers, Dropping) = At(Dropper, dpc, Dropping)
         /\ At(Dropper, SignalDroppers, Called) = At(Dropper, dpc, Called)
         /\ \A d \in Dropper : dpc[d] # "asleep" => SignalDroppers[d] = dpc[d]
         /\ \A d \in Dropper : SignalDroppers[d] # "idle" => dpc[d] # "idle"
         /\ \A d \in Dropper : SignalDroppers[d] \in {"base", "install"} =>
              dpc[d] = SignalDroppers[d]
BY DEF SignalDroppers, TypeOK, DropPC, At, Dropping, Called

\* MaybeScheduleGC submits no more than was asked for and than the pool takes.
LEMMA Schedules ==
  ASSUME NEW u \in Nat, NEW s \in 0 .. max_background_gc, MaybeScheduleGC(u, s)
  PROVE  \E n \in Nat : /\ n <= u /\ s + n <= max_background_gc
                        /\ unscheduled' = u - n
                        /\ scheduled' = s + n
                        /\ pool' = pool + n
<1>1. max_background_gc \in Nat
  BY SchedulerAssumption, FS_CardinalityType DEF max_background_gc
<1>2. /\ Submits(u, s) \in Nat
      /\ Submits(u, s) <= u
      /\ s + Submits(u, s) <= max_background_gc
  <2>1. CASE shutdown
    BY <1>1, <2>1 DEF Submits
  <2>2. CASE ~shutdown
    BY <1>1, <2>2 DEF Submits, Lower
  <2> QED BY Zenon, <2>1, <2>2
<1> QED BY Zenon, <1>2 DEF MaybeScheduleGC

-----------------------------------------------------------------------------
(* The parts of the invariant over the counts.                             *)

\* The counts are numbers.
LEMMA Counts ==
  /\ \A f, pcs : /\ Cardinality(At(Thread, f, pcs)) \in Nat
                 /\ Cardinality(At(Thread, f, pcs)) <= max_background_gc
                 /\ Cardinality(At(Dropper, f, pcs)) \in Nat
                 /\ Cardinality(At(Dropper, f, pcs)) <= Cardinality(Dropper)
  /\ max_background_gc \in Nat
  /\ Cardinality(Dropper) \in Nat
BY SchedulerAssumption, AtFinite DEF max_background_gc

\* The same, for the counts of the invariant before and after a step.
LEMMA CountsNow ==
  /\ waiting \in Nat /\ busy \in Nat /\ inJob \in Nat
  /\ waiting' \in Nat /\ busy' \in Nat /\ inJob' \in Nat
  /\ busy' <= max_background_gc
  /\ dropping \in Nat /\ called \in Nat /\ dropping' \in Nat /\ called' \in Nat
  /\ called' <= Cardinality(Dropper)
  /\ max_background_gc \in Nat
  /\ Cardinality(Dropper) \in Nat
BY Zenon, Counts DEF waiting, busy, inJob, dropping, called

\* The invariants over these counts, before and after a step.
LEMMA Accounts ==
  /\ QueueAccounted <=> /\ queued = unscheduled + pool + waiting
                        /\ scheduled = pool + inJob
                        /\ running = busy
  /\ QueueAccounted' <=> /\ queued' = unscheduled' + pool' + waiting'
                         /\ scheduled' = pool' + inJob'
                         /\ running' = busy'
BY Zenon DEF QueueAccounted, Threads, At, Waiting, InJob, Busy, queued, waiting,
             busy, inJob

\* DropExclusive over the sets of this module, before and after a step.
LEMMA Excludes ==
  /\ DropExclusive <=>
       \A d \in Dropper : dpc[d] \in {"base", "install"} => At(Thread, tpc, Busy) = {}
  /\ DropExclusive' <=>
       \A d \in Dropper : dpc'[d] \in {"base", "install"} => At(Thread, tpc', Busy) = {}
BY Zenon DEF DropExclusive, Threads, At, Busy

\* A job runs exactly when running is not 0.
LEMMA NobodyRuns ==
  ASSUME QueueAccounted, running = 0
  PROVE  At(Thread, tpc, Busy) = {}
<1>1. IsFiniteSet(At(Thread, tpc, Busy))
  BY SchedulerAssumption, AtFinite
<1> QED BY Zenon, <1>1, Accounts, FS_EmptySet DEF busy

\* With no request pending, no drop is under way.
LEMMA NobodyDrops ==
  ASSUME TypeOK, DropsAccounted, drop_requests = 0
  PROVE  \A d \in Dropper : dpc[d] \notin {"base", "install"}
<1>1. IsFiniteSet(At(Dropper, dpc, Dropping))
  BY SchedulerAssumption, AtFinite
<1>2. dropping = 0
  BY CountsNow DEF DropsAccounted
<1>3. At(Dropper, dpc, Dropping) = {}
  BY Zenon, <1>1, <1>2, FS_EmptySet DEF dropping
<1> QED BY <1>3 DEF At, Dropping

\* What the move of one thread does to a count of threads.
LEMMA ThreadMove ==
  ASSUME TypeOK, NEW t \in Thread, NEW v, tpc' = [tpc EXCEPT ![t] = v], NEW pcs
  PROVE  /\ v \in pcs /\ tpc[t] \in pcs =>
              At(Thread, tpc', pcs) = At(Thread, tpc, pcs)
         /\ v \notin pcs /\ tpc[t] \notin pcs =>
              At(Thread, tpc', pcs) = At(Thread, tpc, pcs)
         /\ v \in pcs /\ tpc[t] \notin pcs =>
              Cardinality(At(Thread, tpc', pcs)) = Cardinality(At(Thread, tpc, pcs)) + 1
         /\ v \notin pcs /\ tpc[t] \in pcs =>
              Cardinality(At(Thread, tpc', pcs)) = Cardinality(At(Thread, tpc, pcs)) - 1
<1>1. DOMAIN tpc = Thread /\ tpc = [y \in Thread |-> tpc[y]]
  BY DEF TypeOK
<1>2. IsFiniteSet(Thread)
  BY SchedulerAssumption
<1> QED BY <1>1, <1>2, Move

\* What the move of one dropper does to a count of droppers.
LEMMA DropperMove ==
  ASSUME TypeOK, NEW d \in Dropper, NEW v, dpc' = [dpc EXCEPT ![d] = v], NEW pcs
  PROVE  /\ v \in pcs /\ dpc[d] \in pcs =>
              At(Dropper, dpc', pcs) = At(Dropper, dpc, pcs)
         /\ v \notin pcs /\ dpc[d] \notin pcs =>
              At(Dropper, dpc', pcs) = At(Dropper, dpc, pcs)
         /\ v \in pcs /\ dpc[d] \notin pcs =>
              Cardinality(At(Dropper, dpc', pcs)) = Cardinality(At(Dropper, dpc, pcs)) + 1
         /\ v \notin pcs /\ dpc[d] \in pcs =>
              Cardinality(At(Dropper, dpc', pcs)) = Cardinality(At(Dropper, dpc, pcs)) - 1
<1>1. DOMAIN dpc = Dropper /\ dpc = [y \in Dropper |-> dpc[y]]
  BY DEF TypeOK
<1>2. IsFiniteSet(Dropper)
  BY SchedulerAssumption
<1> QED BY <1>1, <1>2, Move

-----------------------------------------------------------------------------
(* The invariant holds initially.                                          *)

\* The invariant holds in the initial state.
LEMMA InitInv == Init => SchedulerInv
<1> SUFFICES ASSUME Init PROVE SchedulerInv
  OBVIOUS
<1>1. Cardinality(CF) \in Nat
  BY SchedulerAssumption, FS_CardinalityType
<1>2. gc_queue \in Seq(CF) /\ Len(gc_queue) = Cardinality(CF)
  BY <1>1 DEF Init
<1>3. /\ At(Thread, tpc, Waiting) = {}
      /\ At(Thread, tpc, Busy) = {}
      /\ At(Thread, tpc, InJob) = {}
      /\ At(Dropper, dpc, Dropping) = {}
      /\ At(Dropper, dpc, Called) = {}
  BY DEF Init, At, Waiting, Busy, InJob, Dropping, Called
<1>4. Cardinality({}) = 0
  BY FS_EmptySet
<1>5. scheduled \in 0 .. max_background_gc /\ unscheduled \in Nat
  BY <1>1, <1>2, Counts DEF Init, Lower
<1>6. TypeOK
  <2>1. /\ running \in 0 .. max_background_gc
        /\ drop_requests \in 0 .. Cardinality(Dropper)
        /\ pool \in 0 .. max_background_gc
        /\ adds \in 0 .. MaxAdd
    BY <1>5, Counts, SchedulerAssumption DEF Init
  <2>2. /\ tpc \in [Thread -> ThreadPC] /\ dpc \in [Dropper -> DropPC]
        /\ job \in [Thread -> CF \cup {NoCF}] /\ dcf \in [Dropper -> CF \cup {NoCF}]
        /\ cpc \in ClosePC
    BY DEF Init, ThreadPC, DropPC, ClosePC
  <2> QED BY Zenon, <1>2, <1>5, <2>1, <2>2 DEF TypeOK, Init
<1>7. QueueAccounted /\ DropExclusive
  <2>1. waiting = 0 /\ busy = 0 /\ inJob = 0
    BY Zenon, <1>3, <1>4 DEF waiting, busy, inJob
  <2>2. running = 0 /\ pool = scheduled /\ unscheduled = queued - scheduled
    BY Zenon DEF Init, queued
  <2>3. queued \in Nat
    BY Zenon, <1>1, <1>2 DEF queued
  <2>4. QueueAccounted
    BY <2>1, <2>2, <2>3, <1>5, Accounts, CountsNow
  <2> QED BY Zenon, <2>4, <1>3, Excludes
<1>8. DropsAccounted
  <2>1. dropping = 0 /\ called = 0
    BY Zenon, <1>3, <1>4 DEF dropping, called
  <2>2. drop_requests = 0
    BY DEF Init
  <2>3. \A d \in Dropper : dpc[d] = "idle"
    BY DEF Init
  <2> QED BY <2>1, <2>2, <2>3 DEF DropsAccounted
<1>9. JobsTyped
  BY DEF Init, JobsTyped
<1> QED BY Zenon, <1>6, <1>7, <1>8, <1>9 DEF SchedulerInv

-----------------------------------------------------------------------------
(* Every step preserves the invariant.                                     *)

\* The numbers of a state that satisfies the invariant.
LEMMA Numbers ==
  ASSUME SchedulerInv
  PROVE  /\ queued \in Nat /\ unscheduled \in Nat /\ running \in Nat
         /\ scheduled \in 0 .. max_background_gc
         /\ pool \in 0 .. max_background_gc
         /\ drop_requests \in 0 .. Cardinality(Dropper)
         /\ queued = unscheduled + pool + waiting
         /\ scheduled = pool + inJob
         /\ running = busy
         /\ TypeOK
<1>1. QueueAccounted /\ TypeOK
  BY Zenon DEF SchedulerInv
<1>2. queued \in Nat
  BY <1>1 DEF TypeOK, queued
<1>3. running \in Nat
  BY <1>1, CountsNow DEF TypeOK
<1> QED BY Zenon, <1>1, <1>2, <1>3, Accounts DEF TypeOK

\* A request for GC of column family c.
LEMMA OnCompactionCompletedInv ==
  ASSUME SchedulerInv, NEW c \in CF, OnCompactionCompleted(c)
  PROVE  SchedulerInv'
<1>1. gc_queue' \in Seq(CF) /\ queued' = queued + 1
  BY Numbers DEF OnCompactionCompleted, TypeOK, queued
<1>2. PICK n \in Nat : /\ n <= unscheduled + 1 /\ scheduled + n <= max_background_gc
                       /\ unscheduled' = (unscheduled + 1) - n
                       /\ scheduled' = scheduled + n
                       /\ pool' = pool + n
  <2>1. unscheduled + 1 \in Nat /\ MaybeScheduleGC(unscheduled + 1, scheduled)
    BY Numbers DEF OnCompactionCompleted
  <2> QED BY Zenon, <2>1, Numbers, Schedules
<1>3. UNCHANGED <<running, drop_requests, shutdown, exit_all, cfVars, tpc, job,
                  dpc, dcf, cpc>>
  BY Zenon DEF OnCompactionCompleted
<1>4. waiting' = waiting /\ inJob' = inJob /\ busy' = busy
  BY Zenon, <1>3 DEF waiting, inJob, busy
<1>5. QueueAccounted'
  <2>1. running' = running
    BY Zenon, <1>3
  <2>2. /\ queued + 1 = ((unscheduled + 1) - n) + (pool + n) + waiting
        /\ scheduled + n = (pool + n) + inJob
    BY <1>2, Numbers, CountsNow
  <2>3. /\ queued' = unscheduled' + pool' + waiting'
        /\ scheduled' = pool' + inJob'
    BY Zenon, <1>1, <1>2, <1>4, <2>2
  <2>4. running' = busy'
    BY Zenon, <2>1, <1>4, Numbers
  <2> QED BY Zenon, <2>3, <2>4, Accounts
<1>6. TypeOK'
  <2>1. /\ unscheduled' \in Nat
        /\ scheduled' \in 0 .. max_background_gc
        /\ pool' \in 0 .. max_background_gc
    BY <1>2, Numbers, CountsNow
  <2>2. adds' \in 0 .. MaxAdd
    BY SMTT(30), Numbers, SchedulerAssumption DEF OnCompactionCompleted, TypeOK
  <2> QED BY Zenon, Numbers, <1>1, <1>3, <2>1, <2>2
          DEF TypeOK, max_background_gc, cfVars
<1>7. DropExclusive' /\ DropsAccounted' /\ JobsTyped'
  BY Zenon, <1>3 DEF SchedulerInv, DropExclusive, DropsAccounted, JobsTyped,
                     Threads, dropping, called
<1> QED BY Zenon, <1>5, <1>6, <1>7 DEF SchedulerInv

\* A thread of the pool takes a job or leaves.
LEMMA BGThreadInv ==
  ASSUME SchedulerInv, NEW t \in Thread, BGThread(t)
  PROVE  SchedulerInv'
<1>1. UNCHANGED <<queueVars, drop_requests, shutdown, exit_all, cfVars, job, dpc,
                  dcf, cpc, adds>>
  BY Zenon DEF BGThread
<1>2. PICK v \in {"exited", "start"} :
        /\ tpc' = [tpc EXCEPT ![t] = v]
        /\ v = "exited" => pool' = pool
        /\ v = "start" => pool > 0 /\ pool' = pool - 1
  BY DEF BGThread
<1>3. /\ At(Thread, tpc', Busy) = At(Thread, tpc, Busy)
      /\ v = "exited" => waiting' = waiting /\ inJob' = inJob
      /\ v = "start" => waiting' = waiting + 1 /\ inJob' = inJob + 1
  <2>1. /\ "idle" \notin Busy /\ "idle" \notin Waiting /\ "idle" \notin InJob
        /\ "exited" \notin Busy /\ "exited" \notin Waiting /\ "exited" \notin InJob
        /\ "start" \notin Busy /\ "start" \in Waiting /\ "start" \in InJob
    BY DEF Busy, Waiting, InJob
  <2>2. tpc[t] = "idle"
    BY Zenon DEF BGThread
  <2> QED BY ZenonT(30), <1>2, <2>1, <2>2, Numbers, ThreadMove DEF waiting, inJob
<1>4. queued' = queued /\ busy' = busy
  BY Zenon, <1>1, <1>3 DEF queueVars, queued, busy
<1>5. /\ unscheduled' = unscheduled /\ scheduled' = scheduled
      /\ running' = running
  BY Zenon, <1>1 DEF queueVars
<1>6. QueueAccounted' /\ pool' \in 0 .. max_background_gc
  BY <1>2, <1>3, <1>4, <1>5, Numbers, CountsNow, Accounts
<1>7. TypeOK'
  <2>1. tpc' \in [Thread -> ThreadPC]
    BY <1>2, Numbers DEF TypeOK, ThreadPC
  <2> QED BY Zenon, Numbers, <1>1, <1>6, <2>1
          DEF TypeOK, queueVars, cfVars, max_background_gc
<1>8. DropExclusive'
  BY Zenon, <1>1, <1>3, Excludes DEF SchedulerInv
<1>9. DropsAccounted'
  BY ZenonT(40), <1>1 DEF SchedulerInv, DropsAccounted, dropping, called
<1>10. JobsTyped'
  BY <1>1, <1>2, Numbers DEF SchedulerInv, JobsTyped, TypeOK
<1> QED BY Zenon, <1>6, <1>7, <1>8, <1>9, <1>10 DEF SchedulerInv

\* A job takes the first request: the queue is not empty.
LEMMA QueueNotEmpty ==
  ASSUME SchedulerInv, NEW t \in Thread, tpc[t] = "start"
  PROVE  gc_queue # <<>> /\ queued > 0
<1>1. t \in At(Thread, tpc, Waiting)
  BY SMTT(30) DEF At, Waiting
<1>2. IsFiniteSet(At(Thread, tpc, Waiting))
  BY SchedulerAssumption, AtFinite
<1>3. waiting # 0
  BY Zenon, <1>1, <1>2, FS_EmptySet DEF waiting
<1>4. queued > 0
  BY <1>3, Numbers, CountsNow
<1> QED BY <1>4, Numbers DEF queued, TypeOK

\* A thread takes a column family from the queue, and picks files or not.
LEMMA BackgroundCallGCInv ==
  ASSUME SchedulerInv, NEW t \in Thread, NEW picks \in BOOLEAN,
         BackgroundCallGC(t, picks)
  PROVE  SchedulerInv'
<1>1. /\ UNCHANGED <<unscheduled, scheduled, drop_requests, shutdown, poolVars,
                     cfVars, dpc, dcf, cpc, adds>>
      /\ tpc[t] = "start" /\ drop_requests = 0
      /\ running' = running + 1
  BY Zenon DEF BackgroundCallGC
<1>2. gc_queue # <<>> /\ queued > 0
  BY Zenon, <1>1, QueueNotEmpty
<1>3. PICK v \in Busy :
        /\ tpc' = [tpc EXCEPT ![t] = v]
        /\ gc_queue' = Tail(gc_queue)
        /\ v = "gc" => job' = [job EXCEPT ![t] = gc_queue[1]]
        /\ v = "log" => job' = [job EXCEPT ![t] = NoCF]
  BY <1>2 DEF BackgroundCallGC, Busy
<1>4. gc_queue' \in Seq(CF) /\ queued' = queued - 1 /\ gc_queue[1] \in CF
  BY <1>2, <1>3, Numbers DEF TypeOK, queued
<1>5. waiting' = waiting - 1 /\ busy' = busy + 1 /\ inJob' = inJob
  <2>1. /\ "start" \notin Busy /\ "start" \in Waiting /\ "start" \in InJob
        /\ v \in Busy /\ v \notin Waiting /\ v \in InJob
    BY DEF Busy, Waiting, InJob
  <2>2. TypeOK
    BY Zenon, Numbers
  <2>3. waiting' = waiting - 1
    <3>1. tpc[t] \in Waiting /\ v \notin Waiting
      BY Zenon, <1>1, <2>1
    <3> QED BY Zenon, <1>3, <3>1, <2>2, ThreadMove DEF waiting
  <2>4. busy' = busy + 1
    <3>1. tpc[t] \notin Busy /\ v \in Busy
      BY Zenon, <1>1, <2>1
    <3> QED BY Zenon, <1>3, <3>1, <2>2, ThreadMove DEF busy
  <2>5. inJob' = inJob
    <3>1. tpc[t] \in InJob /\ v \in InJob
      BY Zenon, <1>1, <2>1
    <3> QED BY Zenon, <1>3, <3>1, <2>2, ThreadMove DEF inJob
  <2> QED BY Zenon, <2>3, <2>4, <2>5
<1>6. unscheduled' = unscheduled /\ scheduled' = scheduled /\ pool' = pool
  BY Zenon, <1>1 DEF poolVars
<1>7. QueueAccounted'
  <2>1. queued - 1 = unscheduled + pool + (waiting - 1) /\ running + 1 = busy + 1
    BY Numbers, CountsNow
  <2>2. queued' = unscheduled' + pool' + waiting'
    BY Zenon, <1>4, <1>5, <1>6, <2>1
  <2>3. scheduled' = pool' + inJob' /\ running' = busy'
    BY Zenon, <1>1, <1>5, <1>6, <2>1, Numbers
  <2> QED BY Zenon, <2>2, <2>3, Accounts
<1>8. TypeOK'
  <2>1. running' \in 0 .. max_background_gc
    BY <1>7, Accounts, CountsNow
  <2>2. tpc' \in [Thread -> ThreadPC] /\ job' \in [Thread -> CF \cup {NoCF}]
    BY Zenon, <1>3, <1>4, Numbers DEF TypeOK, ThreadPC, Busy
  <2> QED BY Zenon, Numbers, <1>1, <1>4, <2>1, <2>2
          DEF TypeOK, poolVars, cfVars, max_background_gc
<1>9. DropExclusive'
  BY Zenon, <1>1, NobodyDrops, Excludes DEF SchedulerInv
<1>10. DropsAccounted'
  BY Zenon, <1>1 DEF SchedulerInv, DropsAccounted, dropping, called
<1>11. JobsTyped'
  BY Zenon, <1>3, <1>4, Numbers DEF SchedulerInv, JobsTyped, TypeOK, Busy
<1> QED BY Zenon, <1>7, <1>8, <1>9, <1>10, <1>11 DEF SchedulerInv

\* A thread that finds a drop request waits on bg_cv_.
LEMMA BackgroundCallGCWaitsInv ==
  ASSUME SchedulerInv, NEW t \in Thread, BackgroundCallGCWaits(t)
  PROVE  SchedulerInv'
<1>1. /\ UNCHANGED <<queueVars, drop_requests, shutdown, poolVars, cfVars, job, dpc,
                     dcf, cpc, adds>>
      /\ tpc[t] = "start"
      /\ tpc' = [tpc EXCEPT ![t] = "asleep"]
  BY Zenon DEF BackgroundCallGCWaits
<1>2. /\ At(Thread, tpc', Waiting) = At(Thread, tpc, Waiting)
      /\ At(Thread, tpc', Busy) = At(Thread, tpc, Busy)
      /\ At(Thread, tpc', InJob) = At(Thread, tpc, InJob)
  <2>1. /\ "start" \notin Busy /\ "start" \in Waiting /\ "start" \in InJob
        /\ "asleep" \notin Busy /\ "asleep" \in Waiting /\ "asleep" \in InJob
    BY DEF Busy, Waiting, InJob
  <2>2. TypeOK
    BY Zenon, Numbers
  <2> QED BY Zenon, <1>1, <2>1, <2>2, ThreadMove
<1>3. QueueAccounted'
  BY Zenon, <1>1, <1>2, Accounts
     DEF SchedulerInv, queueVars, poolVars, queued, waiting, busy, inJob
<1>4. TypeOK'
  <2>1. tpc' \in [Thread -> ThreadPC]
    BY <1>1, Numbers DEF TypeOK, ThreadPC
  <2> QED BY ZenonT(40), Numbers, <1>1, <2>1
          DEF TypeOK, queueVars, poolVars, cfVars, max_background_gc
<1>5. DropExclusive'
  BY Zenon, <1>1, <1>2, Excludes DEF SchedulerInv
<1>6. DropsAccounted'
  BY Zenon, <1>1 DEF SchedulerInv, DropsAccounted, dropping, called
<1>7. JobsTyped'
  <2>1. job' = job
    BY Zenon, <1>1
  <2>2. \A x \in Thread : tpc'[x] = "gc" => tpc[x] = "gc"
    BY <1>1, Numbers DEF TypeOK
  <2> QED BY Zenon, <2>1, <2>2 DEF SchedulerInv, JobsTyped
<1> QED BY Zenon, <1>3, <1>4, <1>5, <1>6, <1>7 DEF SchedulerInv

\* A job ends, and may put its column family back in the queue.
LEMMA BackgroundGCInv ==
  ASSUME SchedulerInv, NEW t \in Thread, NEW trigger_next \in BOOLEAN,
         BackgroundGC(t, trigger_next)
  PROVE  SchedulerInv'
<1>1. /\ UNCHANGED <<scheduled, running, drop_requests, shutdown, poolVars, cfVars,
                     dpc, dcf, cpc, adds>>
      /\ tpc[t] = "gc"
      /\ tpc' = [tpc EXCEPT ![t] = "log"]
      /\ job' = [job EXCEPT ![t] = NoCF]
  BY Zenon DEF BackgroundGC
<1>2. /\ At(Thread, tpc', Waiting) = At(Thread, tpc, Waiting)
      /\ At(Thread, tpc', Busy) = At(Thread, tpc, Busy)
      /\ At(Thread, tpc', InJob) = At(Thread, tpc, InJob)
  <2>1. /\ "gc" \in Busy /\ "gc" \notin Waiting /\ "gc" \in InJob
        /\ "log" \in Busy /\ "log" \notin Waiting /\ "log" \in InJob
    BY DEF Busy, Waiting, InJob
  <2>2. TypeOK
    BY Zenon, Numbers
  <2> QED BY Zenon, <1>1, <2>1, <2>2, ThreadMove
<1>3. /\ gc_queue' \in Seq(CF) /\ unscheduled' \in Nat
      /\ \/ queued' = queued /\ unscheduled' = unscheduled
         \/ queued' = queued + 1 /\ unscheduled' = unscheduled + 1
  <2>1. \/ gc_queue' = gc_queue /\ unscheduled' = unscheduled
        \/ gc_queue' = Append(gc_queue, job[t]) /\ unscheduled' = unscheduled + 1
    BY Zenon DEF BackgroundGC
  <2>2. job[t] \in CF
    BY Zenon, <1>1 DEF SchedulerInv, JobsTyped
  <2>3. gc_queue \in Seq(CF) /\ unscheduled \in Nat
    BY Zenon, Numbers DEF TypeOK
  <2>4. CASE gc_queue' = gc_queue /\ unscheduled' = unscheduled
    BY Zenon, <2>3, <2>4 DEF queued
  <2>5. CASE gc_queue' = Append(gc_queue, job[t]) /\ unscheduled' = unscheduled + 1
    BY <2>2, <2>3, <2>5 DEF queued
  <2> QED BY Zenon, <2>1, <2>4, <2>5
<1>4. QueueAccounted'
  <2>1. waiting' = waiting /\ busy' = busy /\ inJob' = inJob
    BY Zenon, <1>2 DEF waiting, busy, inJob
  <2>2. scheduled' = scheduled /\ running' = running /\ pool' = pool
    BY Zenon, <1>1 DEF poolVars
  <2>3. /\ queued' = unscheduled' + pool' + waiting'
        /\ scheduled' = pool' + inJob'
    <3>1. queued + 1 = (unscheduled + 1) + pool + waiting
      BY Numbers, CountsNow
    <3> QED BY ZenonT(40), <3>1, <1>3, <2>1, <2>2, Numbers
  <2>4. running' = busy'
    BY Zenon, <2>1, <2>2, Numbers
  <2> QED BY Zenon, <2>3, <2>4, Accounts
<1>5. TypeOK'
  <2>1. tpc' \in [Thread -> ThreadPC] /\ job' \in [Thread -> CF \cup {NoCF}]
    BY <1>1, Numbers DEF TypeOK, ThreadPC
  <2> QED BY ZenonT(40), Numbers, <1>1, <1>3, <2>1
          DEF TypeOK, poolVars, cfVars, max_background_gc
<1>6. DropExclusive'
  BY Zenon, <1>1, <1>2, Excludes DEF SchedulerInv
<1>7. DropsAccounted'
  BY ZenonT(40), <1>1 DEF SchedulerInv, DropsAccounted, dropping, called
<1>8. JobsTyped'
  BY <1>1, Numbers DEF SchedulerInv, JobsTyped, TypeOK
<1> QED BY Zenon, <1>4, <1>5, <1>6, <1>7, <1>8 DEF SchedulerInv

\* The thread that ends its call is counted no more; a signal to the others
\* changes no count.
LEMMA EndMove ==
  ASSUME TypeOK, NEW t \in Thread, tpc[t] = "log",
         NEW f \in {SignalThreads, tpc}, tpc' = [f EXCEPT ![t] = "idle"]
  PROVE  /\ waiting' = waiting /\ busy' = busy - 1 /\ inJob' = inJob - 1
         /\ At(Thread, tpc', Busy) \subseteq At(Thread, tpc, Busy)
         /\ tpc' \in [Thread -> ThreadPC]
         /\ \A x \in Thread : tpc'[x] = "gc" => tpc[x] = "gc"
<1>1. /\ f \in [Thread -> ThreadPC]
      /\ At(Thread, f, Waiting) = At(Thread, tpc, Waiting)
      /\ At(Thread, f, Busy) = At(Thread, tpc, Busy)
      /\ At(Thread, f, InJob) = At(Thread, tpc, InJob)
      /\ f[t] = "log"
      /\ \A x \in Thread : f[x] = "gc" => tpc[x] = "gc"
  <2>1. CASE f = tpc
    BY Zenon, <2>1 DEF TypeOK
  <2>2. CASE f = SignalThreads
    <3>1. tpc[t] # "asleep"
      OBVIOUS
    <3> QED BY Zenon, <2>2, <3>1, SignalThreadsCounts
  <2> QED BY Zenon, <2>1, <2>2
<1>2. DOMAIN f = Thread /\ f = [y \in Thread |-> f[y]] /\ IsFiniteSet(Thread)
  BY <1>1, SchedulerAssumption
<1>3. /\ "log" \in Busy /\ "log" \notin Waiting /\ "log" \in InJob
      /\ "idle" \notin Busy /\ "idle" \notin Waiting /\ "idle" \notin InJob
  BY DEF Busy, Waiting, InJob
<1>4. At(Thread, tpc', Waiting) = At(Thread, f, Waiting)
  BY SMTT(30), <1>1, <1>2, <1>3, Move
<1>5. Cardinality(At(Thread, tpc', Busy)) = Cardinality(At(Thread, f, Busy)) - 1
  BY SMTT(30), <1>1, <1>2, <1>3, Move
<1>6. Cardinality(At(Thread, tpc', InJob)) = Cardinality(At(Thread, f, InJob)) - 1
  BY <1>1, <1>2, <1>3, Move
<1>7. At(Thread, tpc', Busy) \subseteq At(Thread, f, Busy)
  BY <1>1, <1>3 DEF At
<1>8. tpc' \in [Thread -> ThreadPC]
  BY <1>1 DEF ThreadPC
<1>9. \A x \in Thread : tpc'[x] = "gc" => tpc[x] = "gc"
  BY <1>1
<1> QED BY Zenon, <1>1, <1>4, <1>5, <1>6, <1>7, <1>8, <1>9 DEF waiting, busy, inJob

\* Signalled droppers are counted as before, and none is past its wait.
LEMMA DroppersSignalled ==
  ASSUME TypeOK, dpc' \in {SignalDroppers, dpc}
  PROVE  /\ dropping' = dropping /\ called' = called
         /\ dpc' \in [Dropper -> DropPC]
         /\ \A d \in Dropper : dpc'[d] \in {"base", "install"} => dpc[d] = dpc'[d]
         /\ \A d \in Dropper : dpc'[d] # "idle" => dpc[d] # "idle"
<1>1. CASE dpc' = dpc
  BY Zenon, <1>1 DEF dropping, called, TypeOK
<1>2. CASE dpc' = SignalDroppers
  BY Zenon, <1>2, SignalDroppersCounts DEF dropping, called
<1> QED BY Zenon, <1>1, <1>2

\* The end of BackgroundCallGC.
LEMMA EndCallInv ==
  ASSUME SchedulerInv, NEW t \in Thread, EndCall(t)
  PROVE  SchedulerInv'
<1>1. /\ UNCHANGED <<gc_queue, drop_requests, shutdown, exit_all, cfVars, job, dcf,
                     adds>>
      /\ tpc[t] = "log"
      /\ running' = running - 1
      /\ MaybeScheduleGC(unscheduled, scheduled - 1)
  BY Zenon DEF EndCall
<1>2. TypeOK
  BY Zenon, Numbers
<1>3. /\ \E f \in {SignalThreads, tpc} : tpc' = [f EXCEPT ![t] = "idle"]
      /\ dpc' \in {SignalDroppers, dpc}
      /\ cpc' \in ClosePC
  <2>1. cpc \in ClosePC
    BY Zenon, <1>2 DEF TypeOK
  <2>2. SignalClose \in ClosePC
    BY <2>1 DEF SignalClose, ClosePC
  <2> QED BY Zenon, <2>1, <2>2 DEF EndCall
<1>4. /\ waiting' = waiting /\ busy' = busy - 1 /\ inJob' = inJob - 1
      /\ At(Thread, tpc', Busy) \subseteq At(Thread, tpc, Busy)
      /\ tpc' \in [Thread -> ThreadPC]
      /\ \A x \in Thread : tpc'[x] = "gc" => tpc[x] = "gc"
  BY Zenon, <1>1, <1>2, <1>3, EndMove
<1>5. inJob > 0 /\ scheduled - 1 \in 0 .. max_background_gc
  <2>1. inJob > 0
    BY <1>4, CountsNow
  <2> QED BY <2>1, Numbers, CountsNow
<1>6. PICK n \in Nat : /\ n <= unscheduled /\ (scheduled - 1) + n <= max_background_gc
                       /\ unscheduled' = unscheduled - n
                       /\ scheduled' = (scheduled - 1) + n
                       /\ pool' = pool + n
  BY Zenon, <1>1, <1>5, Numbers, Schedules
<1>7. /\ queued = (unscheduled - n) + (pool + n) + waiting
      /\ (scheduled - 1) + n = (pool + n) + (inJob - 1)
      /\ unscheduled - n \in Nat
      /\ (scheduled - 1) + n \in 0 .. max_background_gc
      /\ pool + n \in 0 .. max_background_gc
  BY <1>5, <1>6, Numbers, CountsNow
<1>8. QueueAccounted'
  <2>1. queued' = queued
    BY Zenon, <1>1 DEF queued
  <2>2. running' = busy'
    BY Zenon, <1>1, <1>4, Numbers
  <2> QED BY Zenon, <2>1, <2>2, <1>4, <1>6, <1>7, Accounts
<1>9. TypeOK'
  <2>1. running' \in 0 .. max_background_gc
    BY <1>8, Accounts, CountsNow
  <2>2. dpc' \in [Dropper -> DropPC]
    BY Zenon, <1>2, <1>3, DroppersSignalled
  <2> QED BY ZenonT(40), <1>1, <1>2, <1>3, <1>4, <1>6, <1>7, <2>1, <2>2
          DEF TypeOK, cfVars, max_background_gc
<1>10. DropExclusive'
  <2>1. \A d \in Dropper : dpc'[d] \in {"base", "install"} => dpc[d] = dpc'[d]
    BY Zenon, <1>2, <1>3, DroppersSignalled
  <2>2. At(Thread, tpc, Busy) = {} => At(Thread, tpc', Busy) = {}
    BY <1>4
  <2> QED BY Zenon, <2>1, <2>2, Excludes DEF SchedulerInv
<1>11. DropsAccounted'
  BY Zenon, <1>1, <1>2, <1>3, DroppersSignalled DEF SchedulerInv, DropsAccounted
<1>12. JobsTyped'
  BY Zenon, <1>1, <1>4 DEF SchedulerInv, JobsTyped
<1> QED BY Zenon, <1>8, <1>9, <1>10, <1>11, <1>12 DEF SchedulerInv

\* A signal to the threads changes nothing that QueueAccounted counts.
LEMMA ThreadsSignalled ==
  ASSUME SchedulerInv, tpc' \in {SignalThreads, tpc}, UNCHANGED <<queueVars, poolVars>>
  PROVE  /\ QueueAccounted'
         /\ At(Thread, tpc', Busy) = At(Thread, tpc, Busy)
         /\ tpc' \in [Thread -> ThreadPC]
         /\ \A x \in Thread : tpc'[x] = "gc" => tpc[x] = "gc"
<1>1. TypeOK
  BY Zenon, Numbers
<1>2. /\ At(Thread, tpc', Waiting) = At(Thread, tpc, Waiting)
      /\ At(Thread, tpc', Busy) = At(Thread, tpc, Busy)
      /\ At(Thread, tpc', InJob) = At(Thread, tpc, InJob)
      /\ tpc' \in [Thread -> ThreadPC]
      /\ \A x \in Thread : tpc'[x] = "gc" => tpc[x] = "gc"
  <2>1. CASE tpc' = tpc
    BY Zenon, <1>1, <2>1 DEF TypeOK
  <2>2. CASE tpc' = SignalThreads
    BY Zenon, <1>1, <2>2, SignalThreadsCounts
  <2> QED BY Zenon, <2>1, <2>2
<1>3. QueueAccounted'
  BY Zenon, <1>2, Accounts
     DEF SchedulerInv, queueVars, poolVars, queued, waiting, busy, inJob
<1> QED BY Zenon, <1>2, <1>3

\* The points of a drop.
LEMMA DropPoints ==
  /\ "idle" \notin Dropping /\ "idle" \notin Called
  /\ "done" \notin Dropping /\ "done" \in Called
  /\ \A v \in {"asleep", "check", "base", "install"} : v \in Dropping /\ v \in Called
BY DEF Dropping, Called

\* A dropper that does not have to wait meets no running job.
LEMMA WaitForGCExclusive ==
  ASSUME SchedulerInv, NEW d \in Dropper, WaitForGC(d), tpc' = tpc
  PROVE  /\ DropExclusive'
         /\ dpc' \in [Dropper -> DropPC]
         /\ \E v \in {"asleep", "base"} : dpc' = [dpc EXCEPT ![d] = v]
<1>1. TypeOK /\ QueueAccounted /\ DropExclusive
  BY Zenon DEF SchedulerInv
<1>2. PICK v \in {"asleep", "base"} :
        /\ dpc' = [dpc EXCEPT ![d] = v]
        /\ v = "base" => ~(running > 0)
  BY Zenon DEF WaitForGC
<1>3. dpc' \in [Dropper -> DropPC]
  BY <1>1, <1>2 DEF TypeOK, DropPC
<1>4. DropExclusive'
  <2>1. CASE v = "base"
    <3>1. running = 0
      BY <1>2, <2>1, Numbers
    <3> QED BY Zenon, <1>1, <3>1, NobodyRuns, Excludes
  <2>2. CASE v = "asleep"
    <3>1. \A e \in Dropper : dpc'[e] \in {"base", "install"} => dpc[e] = dpc'[e]
      BY <1>1, <1>2, <2>2 DEF TypeOK
    <3> QED BY Zenon, <1>1, <3>1, Excludes
  <2> QED BY Zenon, <1>2, <2>1, <2>2
<1> QED BY Zenon, <1>2, <1>3, <1>4

\* A drop is announced.
LEMMA DropColumnFamiliesInv ==
  ASSUME SchedulerInv, NEW d \in Dropper, NEW c \in CF, DropColumnFamilies(d, c)
  PROVE  SchedulerInv'
<1>1. /\ UNCHANGED <<queueVars, shutdown, poolVars, cfVars, tpc, job, cpc, adds>>
      /\ dpc[d] = "idle"
      /\ dcf' = [dcf EXCEPT ![d] = c]
      /\ drop_requests' = drop_requests + 1
      /\ WaitForGC(d)
  BY Zenon DEF DropColumnFamilies
<1>2. TypeOK /\ DropsAccounted /\ JobsTyped
  BY Zenon DEF SchedulerInv
<1>3. /\ DropExclusive' /\ dpc' \in [Dropper -> DropPC]
      /\ \E v \in {"asleep", "base"} : dpc' = [dpc EXCEPT ![d] = v]
  BY Zenon, <1>1, WaitForGCExclusive
<1>4. QueueAccounted'
  BY Zenon, <1>1, ThreadsSignalled
<1>5. dropping' = dropping + 1 /\ called' = called + 1
  <2>1. PICK v \in {"asleep", "base"} : dpc' = [dpc EXCEPT ![d] = v]
    BY Zenon, <1>3
  <2>2. /\ dpc[d] \notin Dropping /\ dpc[d] \notin Called
        /\ v \in Dropping /\ v \in Called
    BY Zenon, <1>1, DropPoints
  <2>3. dropping' = dropping + 1
    BY Zenon, <1>2, <2>1, <2>2, DropperMove DEF dropping
  <2>4. called' = called + 1
    BY ZenonT(40), <1>2, <2>1, <2>2, DropperMove DEF called
  <2> QED BY Zenon, <2>3, <2>4
<1>6. /\ dropping + 1 <= drop_requests + 1 /\ drop_requests + 1 <= called + 1
  BY <1>2, Numbers, CountsNow DEF DropsAccounted
<1>7. DropsAccounted'
  <2>1. \A e \in Dropper : dpc'[e] # "idle" => dcf'[e] \in CF
    BY <1>1, <1>2, <1>3 DEF TypeOK, DropsAccounted
  <2> QED BY ZenonT(40), <1>1, <1>5, <1>6, <2>1 DEF DropsAccounted
<1>8. TypeOK'
  <2>1. called + 1 <= Cardinality(Dropper)
    BY Zenon, <1>5, CountsNow
  <2>2. drop_requests + 1 \in 0 .. Cardinality(Dropper)
    BY SMTT(30), <1>6, <2>1, Numbers, CountsNow
  <2>3. dcf' \in [Dropper -> CF \cup {NoCF}]
    BY <1>1, <1>2 DEF TypeOK
  <2> QED BY Zenon, <1>1, <1>2, <1>3, <2>2, <2>3
          DEF TypeOK, queueVars, poolVars, cfVars, max_background_gc
<1>9. JobsTyped'
  BY Zenon, <1>1, <1>2 DEF JobsTyped
<1> QED BY Zenon, <1>3, <1>4, <1>7, <1>8, <1>9 DEF SchedulerInv

\* A drop tests again whether jobs run.
LEMMA DropColumnFamiliesWakesInv ==
  ASSUME SchedulerInv, NEW d \in Dropper, DropColumnFamiliesWakes(d)
  PROVE  SchedulerInv'
<1>1. /\ UNCHANGED <<queueVars, drop_requests, shutdown, poolVars, cfVars, tpc, job,
                     dcf, cpc, adds>>
      /\ dpc[d] = "check"
      /\ WaitForGC(d)
  BY Zenon DEF DropColumnFamiliesWakes
<1>2. TypeOK /\ DropsAccounted /\ JobsTyped
  BY Zenon DEF SchedulerInv
<1>3. /\ DropExclusive' /\ dpc' \in [Dropper -> DropPC]
      /\ \E v \in {"asleep", "base"} : dpc' = [dpc EXCEPT ![d] = v]
  BY Zenon, <1>1, WaitForGCExclusive
<1>4. QueueAccounted'
  BY Zenon, <1>1, ThreadsSignalled
<1>5. dropping' = dropping /\ called' = called
  <2>1. PICK v \in {"asleep", "base"} : dpc' = [dpc EXCEPT ![d] = v]
    BY Zenon, <1>3
  <2>2. /\ dpc[d] \in Dropping /\ dpc[d] \in Called
        /\ v \in Dropping /\ v \in Called
    BY Zenon, <1>1, DropPoints
  <2> QED BY Zenon, <1>2, <2>1, <2>2, DropperMove DEF dropping, called
<1>6. DropsAccounted' /\ JobsTyped'
  <2>1. \A e \in Dropper : dpc'[e] # "idle" => dpc[e] # "idle"
    <3>1. PICK v \in {"asleep", "base"} : dpc' = [dpc EXCEPT ![d] = v]
      BY Zenon, <1>3
    <3>2. DOMAIN dpc = Dropper
      BY Zenon, <1>2 DEF TypeOK
    <3>3. dpc[d] # "idle"
      BY Zenon, <1>1, DropPoints
    <3>4. ASSUME NEW e \in Dropper, e # d PROVE dpc'[e] = dpc[e]
      BY Zenon, <3>1, <3>2, <3>4
    <3> QED BY Zenon, <3>3, <3>4
  <2> QED BY ZenonT(40), <1>1, <1>2, <1>5, <2>1 DEF DropsAccounted, JobsTyped
<1>7. TypeOK'
  BY Zenon, <1>1, <1>2, <1>3
     DEF TypeOK, queueVars, poolVars, cfVars, max_background_gc
<1> QED BY Zenon, <1>3, <1>4, <1>6, <1>7 DEF SchedulerInv

\* The drop in the base DB; a drop that it refuses stays counted.
LEMMA BaseDropInv ==
  ASSUME SchedulerInv, NEW d \in Dropper, BaseDrop(d)
  PROVE  SchedulerInv'
<1>1. /\ UNCHANGED <<queueVars, drop_requests, shutdown, poolVars, obsolete_columns, handles,
                     stored, tpc, job, dcf, cpc, adds>>
      /\ dpc[d] = "base"
      /\ base' = base \ {dcf[d]} \/ base' = base
  BY Zenon DEF BaseDrop
<1>2. TypeOK /\ DropsAccounted /\ JobsTyped /\ DropExclusive
  BY Zenon DEF SchedulerInv
<1>3. PICK v \in {"install", "done"} : dpc' = [dpc EXCEPT ![d] = v]
  BY Zenon DEF BaseDrop
<1>4. QueueAccounted'
  BY Zenon, <1>1, ThreadsSignalled
<1>5. dpc[d] \in Dropping /\ dpc[d] \in Called /\ v \in Called
  BY Zenon, <1>1, DropPoints
<1>6. called' = called
  BY Zenon, <1>2, <1>3, <1>5, DropperMove DEF called
<1>7. dropping' = dropping \/ dropping' = dropping - 1
  BY Zenon, <1>2, <1>3, <1>5, DropperMove DEF dropping
<1>8. DropsAccounted'
  <2>1. dropping <= drop_requests /\ drop_requests <= called
    BY Zenon, <1>2 DEF DropsAccounted
  <2>2. dropping - 1 <= drop_requests
    BY <2>1, Numbers, CountsNow
  <2>3. \A e \in Dropper : dpc'[e] # "idle" => dpc[e] # "idle"
    BY <1>1, <1>2, <1>3 DEF TypeOK
  <2> QED BY Zenon, <1>1, <1>2, <1>6, <1>7, <2>1, <2>2, <2>3 DEF DropsAccounted
<1>9. TypeOK'
  <2>1. dpc' \in [Dropper -> DropPC]
    BY <1>2, <1>3 DEF TypeOK, DropPC
  <2>2. base' \subseteq CF
    BY <1>1, <1>2 DEF TypeOK
  <2> QED BY Zenon, <1>1, <1>2, <2>1, <2>2
          DEF TypeOK, queueVars, poolVars, max_background_gc
<1>10. DropExclusive'
  <2>1. dpc[d] \in {"base", "install"}
    BY Zenon, <1>1
  <2>2. At(Thread, tpc, Busy) = {}
    BY Zenon, <1>2, <2>1, Excludes
  <2> QED BY Zenon, <1>1, <2>2, Excludes
<1>11. JobsTyped'
  BY Zenon, <1>1, <1>2 DEF JobsTyped
<1> QED BY Zenon, <1>4, <1>8, <1>9, <1>10, <1>11 DEF SchedulerInv

\* What InstallDrop does to the droppers.
LEMMA InstallDropPoints ==
  ASSUME TypeOK, NEW d \in Dropper, InstallDrop(d)
  PROVE  /\ dropping' = dropping - 1 /\ called' = called
         /\ dpc' \in [Dropper -> DropPC]
         /\ \A e \in Dropper : dpc'[e] \in {"base", "install"} => dpc[e] = dpc'[e]
         /\ \A e \in Dropper : dpc'[e] # "idle" => dpc[e] # "idle"
         /\ \A e \in Dropper \ {d} : dpc[e] = "install" => dpc'[e] = "install"
<1>1. PICK f \in {SignalDroppers, dpc} : dpc' = [f EXCEPT ![d] = "done"]
  BY Zenon DEF InstallDrop
<1>2. dpc[d] = "install"
  BY Zenon DEF InstallDrop
<1>3. /\ f \in [Dropper -> DropPC]
      /\ At(Dropper, f, Dropping) = At(Dropper, dpc, Dropping)
      /\ At(Dropper, f, Called) = At(Dropper, dpc, Called)
      /\ \A e \in Dropper : f[e] \in {"base", "install"} => dpc[e] = f[e]
      /\ \A e \in Dropper : f[e] # "idle" => dpc[e] # "idle"
      /\ \A e \in Dropper : dpc[e] # "asleep" => f[e] = dpc[e]
  <2>1. CASE f = dpc
    BY Zenon, <2>1 DEF TypeOK
  <2>2. CASE f = SignalDroppers
    BY Zenon, <2>2, SignalDroppersCounts
  <2> QED BY Zenon, <2>1, <2>2
<1>4. dpc' \in [Dropper -> DropPC]
  BY <1>1, <1>3 DEF DropPC
<1>5. /\ \A e \in Dropper : dpc'[e] \in {"base", "install"} => dpc[e] = dpc'[e]
      /\ \A e \in Dropper : dpc'[e] # "idle" => dpc[e] # "idle"
      /\ \A e \in Dropper \ {d} : dpc[e] = "install" => dpc'[e] = "install"
  BY <1>1, <1>2, <1>3
<1>6. f[d] = "install" /\ DOMAIN f = Dropper /\ f = [y \in Dropper |-> f[y]]
  BY <1>2, <1>3
<1>7. IsFiniteSet(Dropper)
  BY SchedulerAssumption
<1>8. /\ f[d] \in Dropping /\ f[d] \in Called
      /\ "done" \notin Dropping /\ "done" \in Called
  BY Zenon, <1>6, DropPoints
<1>9. Cardinality(At(Dropper, dpc', Dropping)) = Cardinality(At(Dropper, f, Dropping)) - 1
  BY <1>1, <1>6, <1>7, <1>8, Move
<1>10. At(Dropper, dpc', Called) = At(Dropper, f, Called)
  BY <1>1, <1>6, <1>7, <1>8, Move
<1> QED BY Zenon, <1>3, <1>4, <1>5, <1>9, <1>10 DEF dropping, called

\* The drop is installed and its request withdrawn.
LEMMA InstallDropInv ==
  ASSUME SchedulerInv, NEW d \in Dropper, InstallDrop(d)
  PROVE  SchedulerInv'
<1>1. /\ UNCHANGED <<queueVars, shutdown, poolVars, base, handles, job, dcf, adds>>
      /\ dpc[d] = "install"
      /\ drop_requests' = drop_requests - 1
      /\ tpc' \in {SignalThreads, tpc}
      /\ cpc' \in {SignalClose, cpc}
      /\ obsolete_columns' \in {obsolete_columns \cup {dcf[d]}, obsolete_columns}
      /\ stored' \in {stored \ {dcf[d]}, stored}
  BY Zenon DEF InstallDrop
<1>2. TypeOK /\ DropsAccounted /\ JobsTyped /\ DropExclusive
  BY Zenon DEF SchedulerInv
<1>3. /\ dropping' = dropping - 1 /\ called' = called
      /\ dpc' \in [Dropper -> DropPC]
      /\ \A e \in Dropper : dpc'[e] \in {"base", "install"} => dpc[e] = dpc'[e]
      /\ \A e \in Dropper : dpc'[e] # "idle" => dpc[e] # "idle"
  BY Zenon, <1>2, InstallDropPoints
<1>4. /\ QueueAccounted'
      /\ At(Thread, tpc', Busy) = At(Thread, tpc, Busy)
      /\ tpc' \in [Thread -> ThreadPC]
      /\ \A x \in Thread : tpc'[x] = "gc" => tpc[x] = "gc"
  BY ZenonT(40), <1>1, ThreadsSignalled
<1>5. /\ dropping - 1 <= drop_requests - 1 /\ drop_requests - 1 <= called
      /\ drop_requests - 1 \in 0 .. Cardinality(Dropper)
  <2>1. dropping - 1 \in Nat
    BY Zenon, <1>3, CountsNow
  <2> QED BY <1>2, <2>1, Numbers, CountsNow DEF DropsAccounted
<1>6. DropsAccounted' /\ JobsTyped'
  BY Zenon, <1>1, <1>2, <1>3, <1>4, <1>5 DEF DropsAccounted, JobsTyped
<1>7. TypeOK'
  <2>1. cpc' \in ClosePC
    BY <1>1, <1>2 DEF TypeOK, SignalClose, ClosePC
  <2>2. dcf[d] \in CF
    BY <1>1, <1>2 DEF DropsAccounted
  <2>3. obsolete_columns' \subseteq CF /\ stored' \subseteq CF
    BY <1>1, <1>2, <2>2 DEF TypeOK
  <2> QED BY ZenonT(40), <1>1, <1>2, <1>3, <1>4, <1>5, <2>1, <2>3
          DEF TypeOK, queueVars, poolVars, max_background_gc
<1>8. DropExclusive'
  BY Zenon, <1>2, <1>3, <1>4, Excludes
<1> QED BY Zenon, <1>4, <1>6, <1>7, <1>8 DEF SchedulerInv

\* Destruction of a handle, the purge of a storage, and the steps of Close
\* change nothing that is counted.
LEMMA OtherStepsInv ==
  ASSUME SchedulerInv,
         \/ \E c \in CF : DestroyColumnFamilyHandle(c) \/ GetObsoleteFiles(c)
         \/ CloseImpl \/ CloseNext
  PROVE  SchedulerInv'
<1>1. TypeOK /\ DropsAccounted /\ JobsTyped /\ DropExclusive
  BY Zenon DEF SchedulerInv
<1>2. /\ UNCHANGED <<queueVars, drop_requests, pool, base, tpc, job, dpc, dcf, adds>>
      /\ shutdown' \in {TRUE, shutdown} /\ exit_all' \in {TRUE, exit_all}
      /\ obsolete_columns' \subseteq obsolete_columns /\ handles' \subseteq handles
      /\ stored' \subseteq stored
      /\ cpc' \in {"shutdown", "join", "joined", "asleep", "closed", cpc}
  BY Zenon DEF DestroyColumnFamilyHandle, GetObsoleteFiles, CloseImpl, CloseNext,
         JoinAllThreads, Joined, CloseWaits, cfVars, poolVars
<1>3. QueueAccounted'
  BY Zenon, <1>2, Accounts
     DEF SchedulerInv, queueVars, queued, waiting, busy, inJob
<1>4. DropsAccounted' /\ JobsTyped' /\ DropExclusive'
  BY Zenon, <1>1, <1>2, Excludes DEF DropsAccounted, JobsTyped, dropping, called
<1>5. TypeOK'
  <2>1. cpc' \in ClosePC /\ shutdown' \in BOOLEAN /\ exit_all' \in BOOLEAN
    BY Zenon, <1>1, <1>2 DEF TypeOK, ClosePC
  <2>2. obsolete_columns' \subseteq CF /\ handles' \subseteq CF /\ stored' \subseteq CF
    BY <1>1, <1>2 DEF TypeOK
  <2> QED BY Zenon, <1>1, <1>2, <2>1, <2>2 DEF TypeOK, queueVars, max_background_gc
<1> QED BY Zenon, <1>3, <1>4, <1>5 DEF SchedulerInv

\* A step that changes nothing.
LEMMA StutterInv == SchedulerInv /\ UNCHANGED vars => SchedulerInv'
<1> SUFFICES ASSUME SchedulerInv, UNCHANGED vars PROVE SchedulerInv'
  BY Zenon
<1>1. UNCHANGED <<gc_queue, unscheduled, scheduled, running, drop_requests, shutdown,
                  pool, exit_all, base, obsolete_columns, handles, stored, tpc, job, dpc, dcf,
                  cpc, adds>>
  BY DEF vars, queueVars, poolVars, cfVars
<1> QED BY Zenon, <1>1
        DEF SchedulerInv, TypeOK, QueueAccounted, DropExclusive, DropsAccounted,
            JobsTyped, Threads, At, dropping, called, max_background_gc

\* Every step preserves the invariant.
LEMMA NextInv == SchedulerInv /\ [Next]_vars => SchedulerInv'
<1> SUFFICES ASSUME SchedulerInv, [Next]_vars PROVE SchedulerInv'
  BY Zenon
<1>1. ASSUME NEW t \in Thread, ThreadNext(t) PROVE SchedulerInv'
  BY Zenon, <1>1, BGThreadInv, BackgroundCallGCInv, BackgroundCallGCWaitsInv,
     BackgroundGCInv, EndCallInv DEF ThreadNext
<1>2. ASSUME NEW d \in Dropper, DropNext(d) PROVE SchedulerInv'
  BY Zenon, <1>2, DropColumnFamiliesWakesInv, BaseDropInv, InstallDropInv DEF DropNext
<1>3. ASSUME NEW c \in CF, OnCompactionCompleted(c) PROVE SchedulerInv'
  BY Zenon, <1>3, OnCompactionCompletedInv
<1>4. ASSUME NEW d \in Dropper, NEW c \in CF, DropColumnFamilies(d, c)
      PROVE  SchedulerInv'
  BY Zenon, <1>4, DropColumnFamiliesInv
<1>5. ASSUME \/ \E c \in CF : DestroyColumnFamilyHandle(c) \/ GetObsoleteFiles(c)
             \/ CloseImpl \/ CloseNext
      PROVE  SchedulerInv'
  BY Zenon, <1>5, OtherStepsInv
<1>6. CASE UNCHANGED vars
  BY Zenon, <1>6, StutterInv
<1> QED BY Zenon, <1>1, <1>2, <1>3, <1>4, <1>5, <1>6 DEF Next

\* The inductive invariant holds in every reachable state.
THEOREM SchedulerInvariant == Spec => []SchedulerInv
BY InitInv, NextInv, PTL DEF Spec

\* The counters of the scheduler stay within their types: no more jobs are
\* scheduled or running than the pool has threads (MaybeScheduleGC), and
\* drop_cf_requests_ never becomes negative.
THEOREM TypeCorrect == Spec => []TypeOK
<1>1. SchedulerInv => TypeOK
  BY Zenon DEF SchedulerInv
<1> QED BY <1>1, SchedulerInvariant, PTL

\* Each request in gc_queue_ has exactly one job, submitted or to be
\* submitted, so BackgroundGC never finds the queue empty.
THEOREM QueueIsAccounted == Spec => []QueueAccounted
<1>1. SchedulerInv => QueueAccounted
  BY Zenon DEF SchedulerInv
<1> QED BY <1>1, SchedulerInvariant, PTL

\* No GC job runs while DropColumnFamilies is in the base DB or in the blob
\* manifest, whatever fails in a drop.
THEOREM DropIsExclusive == Spec => []DropExclusive
<1>1. SchedulerInv => DropExclusive
  BY Zenon DEF SchedulerInv
<1> QED BY <1>1, SchedulerInvariant, PTL

-----------------------------------------------------------------------------
(* The column family of a job.  If the blob manifest can be written, a     *)
(* column family that the base DB has dropped is either still guarded by   *)
(* the request of its dropper or no longer stored.                         *)

HandleInv == StoredInBase /\ GCHasHandle

\* A job finds its column family in the base DB when it starts.
LEMMA StartHasHandle ==
  ASSUME SchedulerInv, HandleInv, NEW t \in Thread, NEW picks \in BOOLEAN,
         BackgroundCallGC(t, picks)
  PROVE  HandleInv'
<1>1. /\ UNCHANGED <<cfVars, dpc, dcf>>
      /\ tpc[t] = "start" /\ drop_requests = 0
  BY Zenon DEF BackgroundCallGC
<1>2. StoredInBase'
  BY Zenon, <1>1 DEF HandleInv, StoredInBase, cfVars
<1>3. gc_queue # <<>>
  BY Zenon, <1>1, QueueNotEmpty
<1>4. PICK v \in {"gc", "log"} :
        /\ tpc' = [tpc EXCEPT ![t] = v]
        /\ v = "gc" => /\ gc_queue[1] \in stored
                       /\ job' = [job EXCEPT ![t] = gc_queue[1]]
        /\ v = "log" => job' = [job EXCEPT ![t] = NoCF]
  BY <1>3 DEF BackgroundCallGC
<1>5. \A d \in Dropper : dpc[d] # "install"
  BY <1>1, NobodyDrops DEF SchedulerInv
<1>6. v = "gc" => gc_queue[1] \in base
  BY Zenon, <1>4, <1>5 DEF HandleInv, StoredInBase
<1>7. base' = base /\ TypeOK
  BY Zenon, <1>1 DEF cfVars, SchedulerInv
<1>8. GCHasHandle'
  BY <1>4, <1>6, <1>7 DEF HandleInv, GCHasHandle, TypeOK
<1> QED BY Zenon, <1>2, <1>8 DEF HandleInv

\* A step that starts no job and drops nothing.
LEMMA KeepsHandle ==
  ASSUME HandleInv, base' = base, stored' \subseteq stored,
         \A d \in Dropper : dpc[d] = "install" => dpc'[d] = "install" /\ dcf'[d] = dcf[d],
         \A t \in Thread : tpc'[t] = "gc" => tpc[t] = "gc" /\ job'[t] = job[t]
  PROVE  HandleInv'
<1>1. StoredInBase'
  BY DEF HandleInv, StoredInBase
<1>2. GCHasHandle'
  BY DEF HandleInv, GCHasHandle
<1> QED BY Zenon, <1>1, <1>2 DEF HandleInv

\* The other steps of threads start no job on a column family.
LEMMA ThreadHasHandle ==
  ASSUME SchedulerInv, HandleInv, NEW t \in Thread,
         \/ BGThread(t) \/ BackgroundCallGCWaits(t) \/ EndCall(t)
         \/ \E trigger_next \in BOOLEAN : BackgroundGC(t, trigger_next)
  PROVE  HandleInv'
<1>1. TypeOK
  BY Zenon DEF SchedulerInv
<1>2. UNCHANGED <<cfVars, dcf>>
  BY Zenon DEF BGThread, BackgroundCallGCWaits, EndCall, BackgroundGC
<1>3. base' = base /\ stored' \subseteq stored /\ dcf' = dcf
  BY Zenon, <1>2 DEF cfVars
<1>4. \A d \in Dropper : dpc[d] = "install" => dpc'[d] = "install"
  <2>1. dpc' \in {SignalDroppers, dpc}
    BY Zenon DEF BGThread, BackgroundCallGCWaits, EndCall, BackgroundGC
  <2> QED BY <1>1, <2>1 DEF SignalDroppers, TypeOK
<1>5. \A x \in Thread : tpc'[x] = "gc" => tpc[x] = "gc" /\ job'[x] = job[x]
  <2>1. CASE BGThread(t) \/ BackgroundCallGCWaits(t)
    BY <1>1, <2>1 DEF BGThread, BackgroundCallGCWaits, TypeOK
  <2>2. CASE EndCall(t)
    BY Zenon, <1>1, <2>2 DEF EndCall, SignalThreads, TypeOK
  <2>3. CASE \E trigger_next \in BOOLEAN : BackgroundGC(t, trigger_next)
    <3>1. /\ tpc' = [tpc EXCEPT ![t] = "log"]
          /\ job' = [job EXCEPT ![t] = NoCF]
      BY Zenon, <2>3 DEF BackgroundGC
    <3> QED BY <1>1, <3>1 DEF TypeOK
  <2> QED BY ZenonT(40), <2>1, <2>2, <2>3
<1> QED BY Zenon, <1>3, <1>4, <1>5, KeepsHandle

\* A drop in the base DB finds no job running.
LEMMA BaseDropHasHandle ==
  ASSUME SchedulerInv, HandleInv, NEW d \in Dropper, BaseDrop(d)
  PROVE  HandleInv'
<1>1. /\ UNCHANGED <<stored, tpc, dcf>>
      /\ dpc[d] = "base"
      /\ \/ base' = base \ {dcf[d]} /\ dpc' = [dpc EXCEPT ![d] = "install"]
         \/ base' = base /\ dpc' = [dpc EXCEPT ![d] = "done"]
  BY Zenon DEF BaseDrop
<1>2. TypeOK /\ DropExclusive
  BY Zenon DEF SchedulerInv
<1>3. GCHasHandle'
  <2>1. dpc[d] \in {"base", "install"}
    BY Zenon, <1>1
  <2>2. At(Thread, tpc, Busy) = {}
    BY Zenon, <1>2, <2>1, Excludes
  <2>3. \A t \in Thread : tpc'[t] # "gc"
    BY <1>1, <2>2 DEF At, Busy
  <2> QED BY Zenon, <2>3 DEF GCHasHandle
<1>4. StoredInBase'
  BY <1>1, <1>2 DEF HandleInv, StoredInBase, TypeOK
<1> QED BY Zenon, <1>3, <1>4 DEF HandleInv

\* A drop whose manifest write succeeds leaves nothing to collect.
LEMMA InstallDropHasHandle ==
  ASSUME SchedulerInv, HandleInv, "manifest" \notin Faults,
         NEW d \in Dropper, InstallDrop(d)
  PROVE  HandleInv'
<1>1. /\ UNCHANGED <<queueVars, poolVars, base, job, dcf>>
      /\ stored' = stored \ {dcf[d]}
      /\ tpc' \in {SignalThreads, tpc}
  BY Zenon DEF InstallDrop
<1>2. TypeOK
  BY Zenon DEF SchedulerInv
<1>3. \A e \in Dropper \ {d} : dpc[e] = "install" => dpc'[e] = "install"
  BY Zenon, <1>2, InstallDropPoints
<1>4. \A x \in Thread : tpc'[x] = "gc" => tpc[x] = "gc"
  BY Zenon, <1>1, ThreadsSignalled
<1>5. GCHasHandle'
  BY Zenon, <1>1, <1>4 DEF HandleInv, GCHasHandle
<1>6. StoredInBase'
  BY Zenon, <1>1, <1>3 DEF HandleInv, StoredInBase
<1> QED BY Zenon, <1>5, <1>6 DEF HandleInv

\* Every step keeps HandleInv when the manifest can be written.
LEMMA NextHasHandle ==
  ASSUME "manifest" \notin Faults
  PROVE  SchedulerInv /\ HandleInv /\ [Next]_vars => HandleInv'
<1> SUFFICES ASSUME SchedulerInv, HandleInv, [Next]_vars PROVE HandleInv'
  BY Zenon
<1>1. TypeOK
  BY Zenon DEF SchedulerInv
<1>2. ASSUME NEW t \in Thread, ThreadNext(t) PROVE HandleInv'
  BY Zenon, <1>2, StartHasHandle, ThreadHasHandle DEF ThreadNext
<1>3. ASSUME NEW d \in Dropper, DropNext(d) PROVE HandleInv'
  <2>1. CASE DropColumnFamiliesWakes(d)
    <3>1. /\ base' = base /\ stored' \subseteq stored /\ dcf' = dcf
          /\ tpc' = tpc /\ job' = job
      BY Zenon, <2>1 DEF DropColumnFamiliesWakes, cfVars
    <3>2. \A e \in Dropper : dpc[e] = "install" => dpc'[e] = "install"
      BY <1>1, <2>1 DEF DropColumnFamiliesWakes, WaitForGC, TypeOK
    <3> QED BY Zenon, <3>1, <3>2, KeepsHandle
  <2> QED BY Zenon, <1>3, <2>1, BaseDropHasHandle, InstallDropHasHandle DEF DropNext
<1>4. ASSUME NEW d \in Dropper, NEW c \in CF, DropColumnFamilies(d, c)
      PROVE  HandleInv'
  <2>1. /\ base' = base /\ stored' \subseteq stored /\ tpc' = tpc /\ job' = job
    BY Zenon, <1>4 DEF DropColumnFamilies, cfVars
  <2>2. \A e \in Dropper : dpc[e] = "install" => dpc'[e] = "install" /\ dcf'[e] = dcf[e]
    BY <1>1, <1>4 DEF DropColumnFamilies, WaitForGC, TypeOK
  <2> QED BY Zenon, <2>1, <2>2, KeepsHandle
<1>5. ASSUME \/ \E c \in CF : \/ OnCompactionCompleted(c)
                              \/ DestroyColumnFamilyHandle(c) \/ GetObsoleteFiles(c)
             \/ CloseImpl \/ CloseNext
             \/ UNCHANGED vars
      PROVE  HandleInv'
  <2>1. /\ base' = base /\ stored' \subseteq stored /\ tpc' = tpc /\ job' = job
        /\ dpc' = dpc /\ dcf' = dcf
    BY Zenon, <1>5 DEF OnCompactionCompleted, DestroyColumnFamilyHandle, GetObsoleteFiles,
                CloseImpl, CloseNext, JoinAllThreads, Joined, CloseWaits, cfVars, vars
  <2> QED BY Zenon, <2>1, KeepsHandle
<1> QED BY Zenon, <1>2, <1>3, <1>4, <1>5 DEF Next

\* When the blob manifest can be written, a GC job always works on a column
\* family of the base DB: the handle that BackgroundGC makes for it exists.
\* A base DB that refuses drops does not matter.
THEOREM JobHasHandle ==
  ASSUME "manifest" \notin Faults
  PROVE  Spec => []GCHasHandle
<1>1. Init => HandleInv
  BY DEF Init, HandleInv, StoredInBase, GCHasHandle
<1>2. SchedulerInv /\ HandleInv /\ [Next]_vars => HandleInv'
  BY Zenon, NextHasHandle
<1>3. HandleInv => GCHasHandle
  BY Zenon DEF HandleInv
<1> QED BY <1>1, <1>2, <1>3, SchedulerInvariant, PTL DEF Spec
=============================================================================

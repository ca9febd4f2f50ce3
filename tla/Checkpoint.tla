----------------------------- MODULE Checkpoint -----------------------------
(***************************************************************************)
(* CreateCheckpoint against flushes, GC jobs and the purge: the base DB is *)
(* captured first and the blob files later, while file deletions are       *)
(* disabled.  A checkpoint is openable when its blob files hold all that   *)
(* its tables and its log refer to.                                        *)
(*                                                                         *)
(* Of the base DB there is what its versions refer to (ref), and that its  *)
(* own checkpoint takes the tables first and the log later.                *)
(***************************************************************************)
EXTENDS Integers, FiniteSets

CONSTANTS
  Family,    \* column families
  Caller,    \* threads that create checkpoints
  MaxFile,   \* bound on the file numbers
  MaxCalls,  \* bound on the checkpoints created
  MaxDisturbed  \* bound on the disturbances

ASSUME CheckpointAssumption ==
  /\ IsFiniteSet(Caller)
  /\ MaxFile \in Nat /\ MaxCalls \in Nat /\ MaxDisturbed \in Nat

VARIABLES
  files,     \* cf -> files_ that are not obsolete
  obsolete,  \* cf -> files_ that are obsolete
  open,      \* the domain of column_families_
  destroyed, \* those whose handle is destroyed (destroyed_)
  ref,       \* cf -> blob files that tables and memtables refer to
  disk,      \* blob files on disk
  next,      \* next_file_number_
  unlink,    \* candidate_files of the purge
  purging,   \* whether the purge holds delete_titandb_file_mutex_
  disabled,  \* disable_titandb_file_deletions_
  pc,        \* thread -> program counter
  captured,  \* thread -> cf -> what the captured base DB refers to
  list,      \* thread -> cf -> blob files of the captured manifest
  todo,      \* thread -> blob files left to link
  linked,    \* thread -> blob files in the checkpoint
  current,   \* thread -> whether CURRENT is in the checkpoint
  status,    \* thread -> whether the last status was ok
  calls,     \* number of checkpoints begun
  disturbed  \* number of steps of checkpoints that failed, of handles destroyed
             \* and of file deletions forced on

dbVars == <<files, obsolete, open, destroyed, ref, disk, next>>
purgeVars == <<unlink, purging>>
ckptVars == <<captured, list, todo, linked, current, status>>
checkpointVars == <<dbVars, purgeVars, disabled, pc, ckptVars, calls, disturbed>>

Empty == [c \in Family |-> {}]
All(s) == UNION {s[c] : c \in Family}

Disturb == disturbed < MaxDisturbed /\ disturbed' = disturbed + 1

CheckpointInit ==
  /\ files = Empty /\ obsolete = Empty /\ open = Family /\ destroyed = {}
  /\ ref = Empty
  /\ disk = {} /\ next = 1
  /\ unlink = {} /\ purging = FALSE /\ disabled = 0
  /\ pc = [t \in Caller |-> "idle"]
  /\ captured = [t \in Caller |-> Empty] /\ list = [t \in Caller |-> Empty]
  /\ todo = [t \in Caller |-> {}] /\ linked = [t \in Caller |-> {}]
  /\ current = [t \in Caller |-> FALSE] /\ status = [t \in Caller |-> TRUE]
  /\ calls = 0 /\ disturbed = 0

-----------------------------------------------------------------------------
(* The database meanwhile.                                                 *)

\* A table builder or a GC job adds a file, and then its table or its
\* write-backs refer to it.
AddBlobFile(cf) ==
  /\ cf \in open /\ next <= MaxFile
  /\ files' = [files EXCEPT ![cf] = @ \cup {next}]
  /\ disk' = disk \cup {next}
  /\ next' = next + 1
  /\ UNCHANGED <<obsolete, open, destroyed, ref, purgeVars, disabled, pc,
                 ckptVars, calls, disturbed>>

Reference(cf, f) ==
  /\ f \in files[cf] \ ref[cf]
  /\ ref' = [ref EXCEPT ![cf] = @ \cup {f}]
  /\ UNCHANGED <<files, obsolete, open, destroyed, disk, next, purgeVars,
                 disabled, pc, ckptVars, calls, disturbed>>

\* A GC job rewrites the keys of f and deletes it.
DeleteInputBlobFiles(cf, f) ==
  /\ cf \in open /\ f \in files[cf] \cap ref[cf]
  /\ ref' = [ref EXCEPT ![cf] = @ \ {f}]
  /\ files' = [files EXCEPT ![cf] = @ \ {f}]
  /\ obsolete' = [obsolete EXCEPT ![cf] = @ \cup {f}]
  /\ UNCHANGED <<open, destroyed, disk, next, purgeVars, disabled, pc, ckptVars,
                 calls, disturbed>>

\* DestroyColumnFamilyHandle of a column family that is not dropped.  Its
\* storage goes as soon as it has no obsolete files.
MaybeDestroyColumnFamily(cf) ==
  /\ cf \in open \ destroyed /\ Disturb
  /\ destroyed' = destroyed \cup {cf}
  /\ open' = IF obsolete[cf] = {} THEN open \ {cf} ELSE open
  /\ UNCHANGED <<files, obsolete, ref, disk, next, purgeVars, disabled, pc,
                 ckptVars, calls>>

\* PurgeObsoleteFilesImpl up to the deletions, for a database without
\* snapshots.
PurgeObsoleteFilesImpl ==
  /\ ~ purging /\ disabled = 0
  /\ purging' = TRUE
  /\ unlink' = All(obsolete)
  /\ obsolete' = Empty
  /\ open' = open \ destroyed
  /\ UNCHANGED <<files, destroyed, ref, disk, next, disabled, pc, ckptVars,
                 calls, disturbed>>

DeleteFiles ==
  /\ purging
  /\ purging' = FALSE
  /\ disk' = disk \ unlink
  /\ unlink' = {}
  /\ UNCHANGED <<files, obsolete, open, destroyed, ref, next, disabled, pc,
                 ckptVars, calls, disturbed>>

\* EnableFileDeletions(true).
ForceFileDeletions ==
  /\ disabled > 0 /\ ~ purging /\ Disturb
  /\ disabled' = 0
  /\ UNCHANGED <<dbVars, purgeVars, pc, ckptVars, calls>>

-----------------------------------------------------------------------------
(* CreateCheckpoint.                                                       *)

Goto(t, label) == pc' = [pc EXCEPT ![t] = label]

\* A step of thread t that may fail, after which deletions are enabled again.
Fails(t) ==
  /\ Disturb
  /\ status' = [status EXCEPT ![t] = FALSE]
  /\ Goto(t, "enable")

DisableFileDeletions(t) ==
  /\ pc[t] = "idle" /\ ~ purging
  /\ calls < MaxCalls /\ calls' = calls + 1
  /\ disabled' = disabled + 1
  /\ captured' = [captured EXCEPT ![t] = Empty] /\ list' = [list EXCEPT ![t] = Empty]
  /\ todo' = [todo EXCEPT ![t] = {}] /\ linked' = [linked EXCEPT ![t] = {}]
  /\ current' = [current EXCEPT ![t] = FALSE]
  /\ status' = [status EXCEPT ![t] = TRUE]
  /\ Goto(t, "tables")
  /\ UNCHANGED <<dbVars, purgeVars, disturbed>>

\* The checkpoint of the base DB takes its tables, and later its log.
CaptureBase(t) ==
  /\ pc[t] \in {"tables", "log"}
  /\ captured' = [captured EXCEPT ![t] = [c \in Family |-> @[c] \cup ref[c]]]
  /\ Goto(t, IF pc[t] = "tables" THEN "log" ELSE "files")
  /\ UNCHANGED <<dbVars, purgeVars, disabled, list, todo, linked, current, status,
                 calls, disturbed>>

BaseFails(t) ==
  /\ pc[t] \in {"tables", "log"} /\ Fails(t)
  /\ UNCHANGED <<dbVars, purgeVars, disabled, captured, list, todo, linked, current,
                 calls>>

\* Mutant of GetAllTitanFiles: without the obsolete files.
GetAllTitanFilesAlive(t) ==
  /\ pc[t] = "files" /\ ~ purging
  /\ list' = [list EXCEPT ![t] = [c \in Family |-> IF c \in open THEN files[c] ELSE {}]]
  /\ todo' = [todo EXCEPT ![t] = All(list'[t])]
  /\ Goto(t, "link")
  /\ UNCHANGED <<dbVars, purgeVars, disabled, captured, linked, current, status, calls,
                 disturbed>>

\* GetAllTitanFiles: the files and the manifest are those of files_, which
\* holds the obsolete ones too.
GetAllTitanFiles(t) ==
  /\ pc[t] = "files" /\ ~ purging
  /\ list' = [list EXCEPT ![t] = [c \in Family |-> IF c \in open
                                  THEN files[c] \cup obsolete[c] ELSE {}]]
  /\ todo' = [todo EXCEPT ![t] = All(list'[t])]
  /\ Goto(t, "link")
  /\ UNCHANGED <<dbVars, purgeVars, disabled, captured, linked, current, status, calls,
                 disturbed>>

\* A blob file is linked or not; the loop goes on in both cases.
LinkFile(t, f, ok) ==
  /\ pc[t] = "link" /\ f \in todo[t]
  /\ \/ ok /\ f \in disk /\ UNCHANGED disturbed
     \/ ~ ok /\ f \notin disk /\ UNCHANGED disturbed
     \/ ~ ok /\ Disturb
  /\ todo' = [todo EXCEPT ![t] = @ \ {f}]
  /\ linked' = IF ok THEN [linked EXCEPT ![t] = @ \cup {f}] ELSE linked
  /\ status' = [status EXCEPT ![t] = ok]
  /\ UNCHANGED <<dbVars, purgeVars, disabled, pc, captured, list, current, calls>>

\* The manifest comes after the blob files, and its status takes the place of
\* theirs.
CreateTitanManifest(t) ==
  /\ pc[t] = "link" /\ todo[t] = {}
  /\ status' = [status EXCEPT ![t] = TRUE]
  /\ Goto(t, "current")
  /\ UNCHANGED <<dbVars, purgeVars, disabled, captured, list, todo, linked, current,
                 calls, disturbed>>

ManifestFails(t) ==
  /\ pc[t] = "link" /\ todo[t] = {} /\ Fails(t)
  /\ UNCHANGED <<dbVars, purgeVars, disabled, captured, list, todo, linked, current,
                 calls>>

\* The status of create_file_cb is not looked at.
CreateCurrent(t, ok) ==
  /\ pc[t] = "current"
  /\ IF ok THEN UNCHANGED disturbed ELSE Disturb
  /\ current' = [current EXCEPT ![t] = ok]
  /\ Goto(t, "enable")
  /\ UNCHANGED <<dbVars, purgeVars, disabled, captured, list, todo, linked, status,
                 calls>>

\* Mutant of EnableFileDeletions: only after a success.
EnableOnSuccess(t) ==
  /\ pc[t] = "enable" /\ ~ purging
  /\ disabled' = IF disabled > 0 /\ status[t] THEN disabled - 1 ELSE disabled
  /\ Goto(t, IF status[t] THEN "done" ELSE "idle")
  /\ UNCHANGED <<dbVars, purgeVars, ckptVars, calls, disturbed>>

\* EnableFileDeletions(false), and the rename when all went well.
EnableFileDeletions(t) ==
  /\ pc[t] = "enable" /\ ~ purging
  /\ disabled' = IF disabled > 0 THEN disabled - 1 ELSE disabled
  /\ Goto(t, IF status[t] THEN "done" ELSE "idle")
  /\ UNCHANGED <<dbVars, purgeVars, ckptVars, calls, disturbed>>

Return(t) ==
  /\ pc[t] = "done"
  /\ Goto(t, "idle")
  /\ UNCHANGED <<dbVars, purgeVars, disabled, ckptVars, calls, disturbed>>

Number == 1 .. MaxFile

Step(t) ==
  \/ CaptureBase(t)
  \/ BaseFails(t)
  \/ GetAllTitanFiles(t)
  \/ \E f \in Number, ok \in BOOLEAN : LinkFile(t, f, ok)
  \/ CreateTitanManifest(t)
  \/ ManifestFails(t)
  \/ \E ok \in BOOLEAN : CreateCurrent(t, ok)
  \/ EnableFileDeletions(t)
  \/ Return(t)

CheckpointNext ==
  \/ \E cf \in Family : AddBlobFile(cf)
  \/ \E cf \in Family, f \in Number : Reference(cf, f)
  \/ \E cf \in Family, f \in Number : DeleteInputBlobFiles(cf, f)
  \/ \E cf \in Family : MaybeDestroyColumnFamily(cf)
  \/ PurgeObsoleteFilesImpl
  \/ DeleteFiles
  \/ ForceFileDeletions
  \/ \E t \in Caller : DisableFileDeletions(t)
  \/ \E t \in Caller : Step(t)

CheckpointSpec == CheckpointInit /\ [][CheckpointNext]_checkpointVars

\* A checkpoint goes on, and the purge thread runs again and again.
CheckpointFairSpec ==
  /\ CheckpointSpec
  /\ WF_checkpointVars(PurgeObsoleteFilesImpl) /\ WF_checkpointVars(DeleteFiles)
  /\ \A t \in Caller : WF_checkpointVars(Step(t))

-----------------------------------------------------------------------------
(* Properties.                                                             *)

\* The variables have their types; the counter of disabled deletions, to which
\* every checkpoint adds one and takes one away, never becomes negative.
CheckpointTypeOK ==
  /\ files \in [Family -> SUBSET Number] /\ obsolete \in [Family -> SUBSET Number]
  /\ open \subseteq Family /\ destroyed \subseteq Family /\ ref \in [Family -> SUBSET Number]
  /\ disk \subseteq Number /\ unlink \subseteq Number
  /\ disabled \in 0 .. Cardinality(Caller)
  /\ pc \in [Caller -> {"idle", "tables", "log", "files", "link", "current",
                        "enable", "done"}]
  /\ \A t \in Caller : todo[t] \cup linked[t] \subseteq All(list[t])

\* A checkpoint that is reported as created can be opened: whatever GC and
\* purge did meanwhile, its manifest and its directory hold every blob file
\* that its tables and its log refer to.
Openable ==
  \A t \in Caller : pc[t] = "done" =>
    /\ current[t]
    /\ \A cf \in Family : captured[t][cf] \subseteq list[t][cf] \cap linked[t]

\* So it is as long as no step of a checkpoint fails, no handle is destroyed
\* and nobody forces file deletions on.
QuietOpenable == disturbed = 0 => Openable

\* Checkpoints, failed or not, do not keep obsolete files on disk for ever.
ObsoletePurged ==
  \A f \in Number : f \in All(obsolete) ~> f \notin disk
=============================================================================

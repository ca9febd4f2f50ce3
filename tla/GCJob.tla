------------------------------- MODULE GCJob -------------------------------
(***************************************************************************)
(* A BlobGCJob with bitmaps, on the device or in software, from the pick of*)
(* its inputs to their deletion: who holds mutex_, which compute unit (CU) *)
(* of the device runs which job, and which inputs a job has really read.   *)
(* Users delete blob files by range meanwhile, and the purge unlinks files.*)
(***************************************************************************)
EXTENDS Naturals, Sequences, SequencesExt, FiniteSets

CONSTANTS
  Worker,      \* threads of the GC pool
  CU,          \* compute units of the device
  File,        \* blob files
  Ranges,      \* whether users call DeleteBlobFilesInRanges
  OpenFaults   \* bound on the inputs that cannot be opened

Nobody == "nobody"
NoCU == "none"

ASSUME GCJobAssumption ==
  /\ IsFiniteSet(CU) /\ NoCU \notin CU
  /\ Nobody \notin Worker
  /\ Ranges \in BOOLEAN
  /\ OpenFaults \in Nat

VARIABLES
  mutex,    \* who holds mutex_ between two actions
  free,     \* free_index_queue_
  state,    \* FileState of the blob files, with kPurged
  tpc,      \* worker -> program counter
  inputs,   \* worker -> blob_gc_->inputs()
  cu,       \* worker -> cu_index, NoCU outside run_gc_kernel
  opened,   \* worker -> how many of its inputs BuildIterator opened
  read,     \* worker -> the files whose records the job went through
  status,   \* worker -> status of the job
  deleted,  \* files deleted by the job that had them as inputs
  unread,   \* those of them that the job had not read
  faults

vars == <<mutex, free, state, tpc, inputs, cu, opened, read, status, deleted,
          unread, faults>>

Init ==
  /\ mutex = Nobody
  /\ free \in {s \in SeqOf(CU, Cardinality(CU)) :
                 ToSet(s) = CU /\ Len(s) = Cardinality(CU)}
  /\ state = [f \in File |-> "kNormal"]
  /\ tpc = [w \in Worker |-> "idle"]
  /\ inputs = [w \in Worker |-> <<>>]
  /\ cu = [w \in Worker |-> NoCU]
  /\ opened = [w \in Worker |-> 0]
  /\ read = [w \in Worker |-> {}]
  /\ status = [w \in Worker |-> "ok"]
  /\ deleted = {} /\ unread = {}
  /\ faults = 0

Goto(w, label) == tpc' = [tpc EXCEPT ![w] = label]
IsObsolete(f) == state[f] \in {"kObsolete", "kPurged"}

\* BackgroundGC up to its release of mutex_.
PickBlobGC(w, picked) ==
  /\ mutex = Nobody /\ tpc[w] = "idle"
  /\ \A f \in ToSet(picked) : state[f] = "kNormal"
  /\ state' = [f \in File |-> IF f \in ToSet(picked) THEN "kBeingGC" ELSE state[f]]
  /\ inputs' = [inputs EXCEPT ![w] = picked]
  /\ status' = [status EXCEPT ![w] = "ok"]
  /\ read' = [read EXCEPT ![w] = {}]
  /\ Goto(w, "run")
  /\ UNCHANGED <<mutex, free, cu, opened, deleted, unread, faults>>

\* Mutant of GetFreeCUIndex: the index stays in the queue.
GetFreeCUIndexNoPop(w) ==
  /\ tpc[w] = "run"
  /\ \/ /\ free # <<>>
        /\ cu' = [cu EXCEPT ![w] = Head(free)]
        /\ UNCHANGED free
        /\ Goto(w, "copy")
     \/ /\ free = <<>>
        /\ Goto(w, "open")
        /\ UNCHANGED <<cu, free>>
  /\ UNCHANGED <<mutex, state, inputs, opened, read, status, deleted, unread, faults>>

\* get_free_cu_index; without a free compute unit the job runs in software.
GetFreeCUIndex(w) ==
  /\ tpc[w] = "run"
  /\ \/ /\ free # <<>>
        /\ cu' = [cu EXCEPT ![w] = Head(free)]
        /\ free' = Tail(free)
        /\ Goto(w, "copy")
     \/ /\ free = <<>>
        /\ Goto(w, "open")
        /\ UNCHANGED <<cu, free>>
  /\ UNCHANGED <<mutex, state, inputs, opened, read, status, deleted, unread, faults>>

-----------------------------------------------------------------------------
(* DoRunGCOnHardware.                                                      *)

\* The bitmaps are copied under mutex_; when a file is obsolete the job
\* returns without releasing it.
CopyBitmaps(w) ==
  /\ tpc[w] = "copy" /\ mutex = Nobody
  /\ \/ /\ \A f \in ToSet(inputs[w]) : ~ IsObsolete(f)
        /\ Goto(w, "kernel")
        /\ UNCHANGED <<mutex, status>>
     \/ /\ \E f \in ToSet(inputs[w]) : IsObsolete(f)
        /\ mutex' = w
        /\ status' = [status EXCEPT ![w] = "NotFound"]
        /\ Goto(w, "returned")
  /\ UNCHANGED <<free, state, inputs, cu, opened, read, deleted, unread, faults>>

\* Mutant of RunGCKernel: the compute unit is not given back.
RunGCKernelKeepsCU(w) ==
  /\ tpc[w] = "kernel"
  /\ \A f \in ToSet(inputs[w]) : state[f] # "kPurged"
  /\ read' = [read EXCEPT ![w] = ToSet(inputs[w])]
  /\ cu' = [cu EXCEPT ![w] = NoCU]
  /\ Goto(w, "returned")
  /\ UNCHANGED <<mutex, free, state, inputs, opened, status, deleted, unread, faults>>

\* run_gc_kernel and set_free_cu_index.
RunGCKernel(w) ==
  /\ tpc[w] = "kernel"
  /\ \A f \in ToSet(inputs[w]) : state[f] # "kPurged"
  /\ read' = [read EXCEPT ![w] = ToSet(inputs[w])]
  /\ free' = Append(free, cu[w])
  /\ cu' = [cu EXCEPT ![w] = NoCU]
  /\ Goto(w, "returned")
  /\ UNCHANGED <<mutex, state, inputs, opened, status, deleted, unread, faults>>

\* The driver leaves the process when it cannot open an input.
ExitProcess(w) ==
  /\ tpc[w] = "kernel"
  /\ \E f \in ToSet(inputs[w]) : state[f] = "kPurged"
  /\ tpc' = [v \in Worker |-> "exited"]
  /\ UNCHANGED <<mutex, free, state, inputs, cu, opened, read, status, deleted,
                 unread, faults>>

-----------------------------------------------------------------------------
(* BuildIterator and DoRunGC.                                              *)

\* The inputs are opened in turn, up to the first that fails: unlinked, or an
\* I/O error.
OpenInputs(w, n) ==
  /\ tpc[w] = "open" /\ n \in 0 .. Len(inputs[w])
  /\ \A k \in 1 .. n : state[inputs[w][k]] # "kPurged"
  /\ \/ n = Len(inputs[w]) /\ UNCHANGED faults
     \/ /\ n < Len(inputs[w])
        /\ \/ state[inputs[w][n + 1]] = "kPurged" /\ UNCHANGED faults
           \/ faults < OpenFaults /\ faults' = faults + 1
  /\ opened' = [opened EXCEPT ![w] = n]
  /\ status' = [status EXCEPT ![w] = IF n = Len(inputs[w]) THEN "ok" ELSE "IOError"]
  /\ Goto(w, "bitmaps")
  /\ UNCHANGED <<mutex, free, state, inputs, cu, read, deleted, unread>>

\* Mutant of SetBitMaps: a file that is left out.
SetBitMapsLess(w) ==
  /\ tpc[w] = "bitmaps" /\ mutex = Nobody
  /\ opened' = [opened EXCEPT ![w] = @ - 1]
  /\ Goto(w, IF opened[w] = 1 THEN "returned" ELSE "merge")
  /\ UNCHANGED <<mutex, free, state, inputs, cu, read, status, deleted, unread, faults>>

\* SetBitMap for each file opened, under mutex_.  The status becomes the one of
\* the last bitmap copied.
SetBitMaps(w) ==
  LET list == {inputs[w][k] : k \in 1 .. opened[w]} IN
  /\ tpc[w] = "bitmaps" /\ mutex = Nobody
  /\ \/ /\ \A f \in list : ~ IsObsolete(f)
        /\ status' = [status EXCEPT ![w] = IF list = {} THEN @ ELSE "ok"]
        /\ Goto(w, IF list = {} THEN "returned" ELSE "merge")
        /\ UNCHANGED mutex
     \/ /\ \E f \in list : IsObsolete(f)
        /\ mutex' = w
        /\ status' = [status EXCEPT ![w] = "NotFound"]
        /\ Goto(w, "returned")
  /\ UNCHANGED <<free, state, inputs, cu, opened, read, deleted, unread, faults>>

\* The merge iterator goes through the files that were opened.
DoRunGC(w) ==
  /\ tpc[w] = "merge"
  /\ read' = [read EXCEPT ![w] = {inputs[w][k] : k \in 1 .. opened[w]}]
  /\ Goto(w, "returned")
  /\ UNCHANGED <<mutex, free, state, inputs, cu, opened, status, deleted, unread,
                 faults>>

-----------------------------------------------------------------------------
(* The end of the job, in BackgroundGC.                                    *)

\* Mutant of FinishJob: a failed job does not release its inputs.
FinishJobKeepsFiles(w) ==
  LET gone == {f \in ToSet(inputs[w]) : status[w] = "ok" /\ ~ IsObsolete(f)} IN
  /\ tpc[w] = "returned" /\ mutex = Nobody
  /\ state' = [f \in File |-> IF f \in gone THEN "kObsolete" ELSE state[f]]
  /\ deleted' = deleted \cup gone
  /\ unread' = unread \cup (gone \ read[w])
  /\ inputs' = [inputs EXCEPT ![w] = <<>>]
  /\ opened' = [opened EXCEPT ![w] = 0]
  /\ Goto(w, "idle")
  /\ UNCHANGED <<mutex, free, cu, read, status, faults>>

\* mutex_.Lock(), Finish when the job succeeded (outputs installed and keys
\* rewritten, then DeleteInputBlobFiles), and ReleaseGcFiles.
FinishJob(w) ==
  LET gone == {f \in ToSet(inputs[w]) : status[w] = "ok" /\ ~ IsObsolete(f)} IN
  /\ tpc[w] = "returned" /\ mutex = Nobody
  /\ state' = [f \in File |-> IF f \in gone THEN "kObsolete"
                              ELSE IF f \in ToSet(inputs[w]) /\ ~ IsObsolete(f)
                              THEN "kNormal" ELSE state[f]]
  /\ deleted' = deleted \cup gone
  /\ unread' = unread \cup (gone \ read[w])
  /\ inputs' = [inputs EXCEPT ![w] = <<>>]
  /\ opened' = [opened EXCEPT ![w] = 0]
  /\ Goto(w, "idle")
  /\ UNCHANGED <<mutex, free, cu, read, status, faults>>

-----------------------------------------------------------------------------
(* Other threads.                                                          *)

\* DeleteBlobFilesInRanges takes every file that is not obsolete.
DeleteBlobFilesInRanges(f) ==
  /\ Ranges /\ mutex = Nobody /\ ~ IsObsolete(f)
  /\ \A w \in Worker : tpc[w] # "exited"
  /\ state' = [state EXCEPT ![f] = "kObsolete"]
  /\ UNCHANGED <<mutex, free, tpc, inputs, cu, opened, read, status, deleted, unread,
                 faults>>

PurgeObsoleteFiles(f) ==
  /\ mutex = Nobody /\ state[f] = "kObsolete"
  /\ \A w \in Worker : tpc[w] # "exited"
  /\ state' = [state EXCEPT ![f] = "kPurged"]
  /\ UNCHANGED <<mutex, free, tpc, inputs, cu, opened, read, status, deleted, unread,
                 faults>>

-----------------------------------------------------------------------------
Picks == {s \in SeqOf(File, Cardinality(File)) : s # <<>> /\ IsInjective(s)}

Step(w) ==
  \/ GetFreeCUIndex(w)
  \/ CopyBitmaps(w)
  \/ RunGCKernel(w)
  \/ ExitProcess(w)
  \/ \E n \in 0 .. Cardinality(File) : OpenInputs(w, n)
  \/ SetBitMaps(w)
  \/ DoRunGC(w)
  \/ FinishJob(w)

Next ==
  \/ \E w \in Worker, picked \in Picks : PickBlobGC(w, picked)
  \/ \E w \in Worker : Step(w)
  \/ \E f \in File : DeleteBlobFilesInRanges(f)
  \/ \E f \in File : PurgeObsoleteFiles(f)

Spec == Init /\ [][Next]_vars

\* A thread that can run runs.
FairSpec == Spec /\ \A w \in Worker : WF_vars(Step(w))

-----------------------------------------------------------------------------
(* Properties.                                                             *)

\* The variables stay within their types: the free list never holds more
\* compute units than there are, and no file is counted as unread that was not
\* deleted.
TypeOK ==
  /\ mutex \in Worker \cup {Nobody}
  /\ free \in SeqOf(CU, Cardinality(CU))
  /\ state \in [File -> {"kNormal", "kBeingGC", "kObsolete", "kPurged"}]
  /\ tpc \in [Worker -> {"idle", "run", "copy", "kernel", "open", "bitmaps",
                         "merge", "returned", "exited"}]
  /\ cu \in [Worker -> CU \cup {NoCU}]
  /\ \A w \in Worker : opened[w] \in 0 .. Len(inputs[w])
  /\ unread \subseteq deleted /\ deleted \subseteq File

\* The files that users, not jobs, have made obsolete.
RangeDeleted == {f \in File : IsObsolete(f)} \ deleted

Held == {w \in Worker : cu[w] # NoCU}

\* A compute unit runs one job at a time: the index a job holds is in no other
\* job's hands and not in the queue, whatever is deleted meanwhile.
CUExclusive ==
  /\ \A v, w \in Held : cu[v] = cu[w] => v = w
  /\ \A w \in Held : cu[w] \notin ToSet(free)
  /\ IsInjective(free)

\* No compute unit is lost, whatever I/O fails: it is free, or a job is about
\* to run on it.  (A job that meets a file deleted by range keeps its unit.)
CUReturned ==
  RangeDeleted = {} =>
    \A k \in CU : \/ k \in ToSet(free)
                 \/ \E w \in Worker : cu[w] = k /\ tpc[w] \in {"copy", "kernel"}

\* A job does not come back to BackgroundGC, which locks mutex_, with mutex_
\* locked.
MutexReturned == \A w \in Worker : tpc[w] = "returned" => mutex # w

\* A file that a job deletes as its input is one whose records it read.
DeletedRead == unread = {}

\* So it is as long as every input can be opened, on either path and whatever
\* other jobs and the purge do meanwhile.
OpenedRead == faults = 0 /\ RangeDeleted = {} => DeletedRead

\* A file does not stay kBeingGC: the job ends, in software when the compute
\* units are taken, with an I/O error or without, and deletes the file or
\* gives it back.  (A job that meets a file deleted by range never ends.)
LeaseEnds ==
  \A f \in File :
    state[f] = "kBeingGC" ~> (state[f] # "kBeingGC" \/ RangeDeleted # {})

\* A range deletion and a purge during a job do not end the process.
Running == \A w \in Worker : tpc[w] # "exited"
=============================================================================

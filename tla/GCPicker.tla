------------------------------ MODULE GCPicker ------------------------------
(***************************************************************************)
(* gc_score_ of a BlobStorage and the picker that reads it.  The scores are*)
(* computed at some events and used later, when files have changed state,  *)
(* size of live data or have been removed.  One job runs at a time, level   *)
(* merge is off, and the completion events of a file arrive in order (the  *)
(* other orders are in LiveData).                                          *)
(***************************************************************************)
EXTENDS Integers, FiniteSets, SequencesExt

CONSTANTS
  MaxNumber,  \* bound on the file numbers
  Sizes,      \* file sizes
  Overhead,   \* kBlobMaxHeaderSize + kBlobFooterSize
  Ratio,      \* blob_file_discardable_ratio, in percent
  Small,      \* merge_small_file_threshold
  MinBatch,   \* min_gc_batch_size
  MaxBatch    \* max_gc_batch_size

GCPickerAssumption ==
  /\ \A s \in Sizes : s > Overhead
  /\ Ratio \in 0 .. 100 /\ Small < MaxBatch /\ MinBatch <= MaxBatch

VARIABLES
  files,  \* files_: number -> [size, live, full, state]; full is what the
          \* first completion event of the file will set live to
  score,  \* gc_score_: sequence of [number, score]
  next,   \* next_file_number_
  job,    \* inputs and output of the running job, as sets of numbers
  pick    \* what PickBlobGC returned, when it was the last step

vars == <<files, score, next, job, pick>>

NoJob  == [inputs |-> {}, output |-> {}]
NoPick == [called |-> FALSE, inputs |-> <<>>, remain |-> FALSE]

Init ==
  /\ files = <<>> /\ score = <<>> /\ next = 1
  /\ job = NoJob /\ pick = NoPick

SetState(fs, N, state) ==
  [n \in DOMAIN fs |-> IF n \in N THEN [fs[n] EXCEPT !.state = state] ELSE fs[n]]
Put(n, f) == [m \in DOMAIN files \cup {n} |-> IF m = n THEN f ELSE files[m]]

-----------------------------------------------------------------------------
(* ComputeGCScore.                                                         *)

\* GetDiscardableRatio, in percent.
Discardable(f) ==
  (100 * (f.size - Overhead - f.live)) \div (f.size - Overhead)
Score(f) == IF f.size < Small THEN Ratio ELSE Discardable(f)

\* The sort leaves files of equal score in any order.
Ordered(s) == \A i, j \in DOMAIN s : i < j => s[i].score >= s[j].score
ComputeGCScore(fs) ==
  score' \in {s \in SetToSeqs({[number |-> n, score |-> Score(fs[n])] :
                 n \in {m \in DOMAIN fs : fs[m].state # "kObsolete"}}) : Ordered(s)}

\* LogAndApply of an edit that adds and deletes files computes the scores.
Apply(fs) == files' = fs /\ ComputeGCScore(fs)

-----------------------------------------------------------------------------
(* PickBlobGC.                                                             *)

CheckBlobFile(f) == f.state = "kNormal"

\* One round of the loop.
PickStep(acc, gcs) ==
  LET f == files[gcs.number] IN
  IF acc.break \/ gcs.score < Ratio THEN [acc EXCEPT !.break = TRUE]
  ELSE IF ~ CheckBlobFile(f) THEN acc
  ELSE IF ~ acc.stop THEN
    [acc EXCEPT !.inputs = Append(@, gcs.number),
                !.batch = @ + f.size,
                !.stop = acc.batch + f.size >= MaxBatch]
  ELSE [acc EXCEPT !.rest = @ + f.size,
                   !.remain = acc.rest + f.size > MinBatch,
                   !.break = acc.rest + f.size > MinBatch]

\* Mutant of Enough: one small file is enough.
EnoughSmall(acc) == acc.inputs # <<>> /\ acc.batch >= MinBatch

Enough(acc) ==
  /\ acc.inputs # <<>> /\ acc.batch >= MinBatch
  /\ ~ LET f == files[acc.inputs[1]] IN
         Len(acc.inputs) = 1 /\ f.size <= Small /\ Discardable(f) < Ratio

\* MarkFilesBeingGC follows in Prepare, under the same lock.
PickBlobGC ==
  LET acc == FoldLeft(PickStep, [inputs |-> <<>>, batch |-> 0, rest |-> 0,
                        stop |-> FALSE, remain |-> FALSE, break |-> FALSE], score)
      ins == IF Enough(acc) THEN acc.inputs ELSE <<>> IN
  /\ job = NoJob
  /\ job' = [NoJob EXCEPT !.inputs = ToSet(ins)]
  /\ files' = SetState(files, ToSet(ins), "kBeingGC")
  /\ pick' = [called |-> TRUE, inputs |-> ins, remain |-> ins # <<>> /\ acc.remain]
  /\ UNCHANGED <<score, next>>

-----------------------------------------------------------------------------
(* What changes the files meanwhile.                                       *)

New(size, live, full, state) ==
  [size |-> size, live |-> live, full |-> full, state |-> state]

\* A table builder adds a file: its size is known, its live data not yet.
AddBlobFile(size, full) ==
  /\ next <= MaxNumber /\ next' = next + 1
  /\ Apply(Put(next, New(size, 0, full, "kPendingLSM")))
  /\ pick' = NoPick /\ UNCHANGED job

\* OnFlushCompleted does not compute the scores.
OnFlushCompleted(n) ==
  /\ n \in DOMAIN files /\ files[n].state = "kPendingLSM"
  /\ files' = [files EXCEPT ![n].live = files[n].full, ![n].state = "kNormal"]
  /\ pick' = NoPick /\ UNCHANGED <<score, next, job>>

\* OnCompactionCompleted: the first event of the file, d bytes less, or
\* nothing in the other states; then ComputeGCScore.
OnCompactionCompleted(n, d) ==
  /\ n \in DOMAIN files
  /\ \/ /\ files[n].state = "kPendingLSM" /\ d = 0 /\ files[n].full > 0
        /\ Apply([files EXCEPT ![n].live = files[n].full, ![n].state = "kNormal"])
     \/ /\ files[n].state = "kNormal" /\ d \in 1 .. files[n].live
        /\ Apply([files EXCEPT ![n].live = @ - d])
     \/ /\ files[n].state \notin {"kPendingLSM", "kNormal"} /\ d = 0
        /\ Apply(files)
  /\ pick' = NoPick /\ UNCHANGED <<next, job>>

\* The job adds its output: all records are live.  InstallHardwareOutputBlobFiles
\* counts header and footer as well.
InstallOutputBlobFiles(size, live) ==
  /\ job.inputs # {} /\ job.output = {}
  /\ next <= MaxNumber /\ next' = next + 1
  /\ Apply(Put(next, New(size, live, 0, "kPendingGC")))
  /\ job' = [job EXCEPT !.output = {next}]
  /\ pick' = NoPick

\* Mutant of DeleteInputBlobFiles: the scores are not computed.
DeleteInputUnscored ==
  /\ job.inputs # {}
  /\ files' = SetState(SetState(files, job.inputs, "kObsolete"), job.output, "kNormal")
  /\ job' = NoJob /\ pick' = NoPick /\ UNCHANGED <<score, next>>

\* The job succeeds: LogAndApply of the deletions, then ReleaseGcFiles.
DeleteInputBlobFiles ==
  /\ job.inputs # {}
  /\ files' = SetState(SetState(files, job.inputs, "kObsolete"), job.output, "kNormal")
  /\ ComputeGCScore(files')
  /\ job' = NoJob /\ pick' = NoPick /\ UNCHANGED next

\* The job fails: ReleaseGcFiles only.
ReleaseGcFiles ==
  /\ job.inputs # {}
  /\ files' = SetState(files, job.inputs \cup job.output, "kNormal")
  /\ job' = NoJob /\ pick' = NoPick /\ UNCHANGED <<score, next>>

\* GetObsoleteFiles removes files without a look at the scores.
RemoveFile(n) ==
  /\ n \in DOMAIN files /\ files[n].state = "kObsolete"
  /\ files' = [m \in DOMAIN files \ {n} |-> files[m]]
  /\ pick' = NoPick /\ UNCHANGED <<score, next, job>>

Number == 1 .. MaxNumber

Next ==
  \/ PickBlobGC
  \/ \E size \in Sizes : \E full \in 0 .. size - Overhead : AddBlobFile(size, full)
  \/ \E n \in Number : OnFlushCompleted(n)
  \/ \E n \in DOMAIN files :
       \E d \in 0 .. files[n].size : OnCompactionCompleted(n, d)
  \/ \E size \in Sizes : \E live \in {size - Overhead, size} :
       InstallOutputBlobFiles(size, live)
  \/ DeleteInputBlobFiles
  \/ ReleaseGcFiles
  \/ \E n \in Number : RemoveFile(n)

Spec == Init /\ [][Next]_vars

-----------------------------------------------------------------------------
(* Properties.                                                             *)

\* Every score is of a file that is still there; PickBlobGC uses the file it
\* looks up, for its log message, also when there is none.
ScoreResolves == \A i \in DOMAIN score : score[i].number \in DOMAIN files

\* What the picker had to choose from, best first.
Candidates ==
  SelectSeq(score, LAMBDA gcs : /\ gcs.score >= Ratio
                                /\ \/ files[gcs.number].state = "kNormal"
                                   \/ gcs.number \in ToSet(pick.inputs))
RECURSIVE Total(_)
Total(s) == IF s = <<>> THEN 0 ELSE files[Head(s).number].size + Total(Tail(s))

\* The pick is the shortest prefix of the candidates that fills a batch, or
\* all of them; it is refused when it is too small or one small file that is
\* not worth it, and a next job is asked for when enough is left.
PickMatches == pick.called =>
  LET cs   == Candidates
      full == {k \in 0 .. Len(cs) : Total(SubSeq(cs, 1, k)) >= MaxBatch}
      k    == IF full = {} THEN Len(cs) ELSE CHOOSE i \in full : \A j \in full : i <= j
      one  == Len(cs) = 1 /\ files[cs[1].number].size <= Small
                /\ Discardable(files[cs[1].number]) < Ratio
      ok   == Total(SubSeq(cs, 1, k)) >= MinBatch /\ k > 0 /\ ~ one IN
  /\ pick.inputs = IF ok THEN [i \in 1 .. k |-> cs[i].number] ELSE <<>>
  /\ pick.remain = (ok /\ Total(SubSeq(cs, k + 1, Len(cs))) > MinBatch)

\* A file that is picked is small or has enough discardable data.
PickedDiscardable ==
  \A i \in DOMAIN pick.inputs :
    LET f == files[pick.inputs[i]] IN f.size < Small \/ Discardable(f) >= Ratio
=============================================================================

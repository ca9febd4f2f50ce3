---------------------------- MODULE MCAlgorithms ----------------------------
(***************************************************************************)
(* The algorithms of the store for TLC, each by itself: the bitmap, the    *)
(* picker, the key ranges (with pairs of ranges, and with three files) and *)
(* the GC pass.  A behaviour chooses one of them; x1, x2, ... are its      *)
(* variables, and those it does not need stay 0.                           *)
(***************************************************************************)
EXTENDS Integers

VARIABLES which, x1, x2, x3, x4, x5, x6, x7, x8, x9, x10, x11

vars == <<which, x1, x2, x3, x4, x5, x6, x7, x8, x9, x10, x11>>

\* Bytes of 2 bits and a fast path of 2 bytes: 3 entries need 2 bytes, 4 end at
\* a byte and need 3, the odd one for the slow path, and 6 need 4.
B == INSTANCE BitMap WITH
  Sizes <- {3, 4, 6}, ByteBits <- 2, FastBytes <- 2,
  file <- x1, scratch <- x2, fileSet <- x3, scratchSet <- x4

P == INSTANCE GCPicker WITH
  MaxNumber <- 3, Sizes <- {2, 4}, Overhead <- 1, Ratio <- 50, Small <- 3,
  MinBatch <- 2, MaxBatch <- 6,
  files <- x1, score <- x2, next <- x3, job <- x4, pick <- x5

\* Two files that share an end, a key or nothing, and pairs of ranges.
D == INSTANCE KeyRanges WITH
  MaxKey <- 3, MaxNumber <- 2, Spans <- {<<1, 1>>, <<1, 2>>, <<2, 3>>},
  MaxRanges <- 2, MaxSortedRuns <- 1,
  files <- x1, ranges <- x2, next <- x3, call <- x4

\* Three files of one or several keys.
M == INSTANCE KeyRanges WITH
  MaxKey <- 4, MaxNumber <- 3,
  Spans <- {<<1, 1>>, <<1, 2>>, <<1, 3>>, <<2, 3>>, <<2, 4>>, <<3, 3>>},
  MaxRanges <- 1, MaxSortedRuns <- 1,
  files <- x1, ranges <- x2, next <- x3, call <- x4

\* Two inputs of up to two records, sorted or written by the device.  Padded
\* files of the largest size are just below a multiple of the read buffer, and
\* the last record of the largest output starts at an offset that is too large
\* for a word.
G == INSTANCE GCPass WITH
  NumInputs <- 2, MaxRecords <- 2, Keys <- {1, 2}, Lengths <- {1, 3},
  Header <- 2, Footer <- 2, Page <- 4, Unit <- 4, Buf <- 16, Word <- 11,
  MaxBad <- 0, Unsorted <- TRUE,
  inputs <- x1, mode <- x2, its <- x3, heap <- x4, cur <- x5, dev <- x6,
  out <- x7, idx <- x8, status <- x9, runMode <- x10, last <- x11

ASSUME AlgorithmsAssumption ==
  /\ B!BitMapAssumption /\ P!GCPickerAssumption
  /\ D!KeyRangesAssumption /\ M!KeyRangesAssumption /\ G!GCPassAssumption

Zero5 == x5 = 0
Zero6 == x6 = 0 /\ x7 = 0 /\ x8 = 0 /\ x9 = 0 /\ x10 = 0 /\ x11 = 0
Same5 == UNCHANGED x5
Same6 == UNCHANGED <<x6, x7, x8, x9, x10, x11>>

Init ==
  \/ which = "bitmap" /\ B!Init /\ Zero5 /\ Zero6
  \/ which = "picker" /\ P!Init /\ Zero6
  \/ which = "delete" /\ D!Init /\ Zero5 /\ Zero6
  \/ which = "mark" /\ M!Init /\ Zero5 /\ Zero6
  \/ which = "pass" /\ G!Init

BitMapStep == which = "bitmap" /\ B!Next /\ Same5 /\ Same6 /\ UNCHANGED which
PickerStep == which = "picker" /\ P!Next /\ Same6 /\ UNCHANGED which
DeleteStep == which = "delete" /\ D!Next /\ Same5 /\ Same6 /\ UNCHANGED which
MarkStep   == which = "mark" /\ M!Next /\ Same5 /\ Same6 /\ UNCHANGED which
PassStep   == which = "pass" /\ G!Next /\ UNCHANGED which

Next == BitMapStep \/ PickerStep \/ DeleteStep \/ MarkStep \/ PassStep

Spec == Init /\ [][Next]_vars

-----------------------------------------------------------------------------
\* After any sequence of SetBit, BitOps and CopyTo the bytes of a bitmap hold
\* the set of offsets they stand for, also one past the end, and every offset
\* that SetBit accepts lies within the bytes.
BitmapHolds == which = "bitmap" => B!WithinBytes /\ B!HoldsSet

\* While files are added, collected and purged between ComputeGCScore and
\* PickBlobGC, no score is of a file that is gone, and the loop of PickBlobGC
\* chooses what a definition without the loop chooses.
PickSound == which = "picker" => P!ScoreResolves /\ P!PickMatches

\* blob_ranges_ indexes files_ after any additions and removals, and
\* DeleteBlobFilesInRanges makes exactly the files inside a range obsolete.
DeletesInside ==
  /\ which = "delete" => D!RangesIndexFiles /\ D!DeletesWhatIsInside
  /\ which = "mark" => M!RangesIndexFiles

\* Among files of several keys, MarkFileIfNeedMerge marks exactly those that
\* overlap in more than max_sorted_runs files.
MarksOverlapping ==
  /\ which = "mark" => M!MarksOverlapping
  /\ which = "delete" => D!MarksOverlapping

\* A GC pass that succeeds, on the host or the device, has rewritten every valid
\* record of its inputs once and no other, padding or not, and every batch is for
\* the key of its record and names its place and the index that it replaces.
RelocatesLive == which = "pass" => G!RelocatesLive /\ G!IndexesResolve

\* The key range of an output, in key order or not, is that of its records.
RangeCovers == which = "pass" => G!RangeCovers

\* The driver's read loop ends the process only when a multiple of its buffer
\* lies between the size of an input and that size rounded up.
ExitsAtMultiple == which = "pass" => G!ExitsAtMultiple
=============================================================================

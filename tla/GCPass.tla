------------------------------- MODULE GCPass -------------------------------
(***************************************************************************)
(* One GC pass at the level of records and offsets: the merge iterator and *)
(* the loop of DoRunGC on the host, and the driver and the kernel of the   *)
(* device.  Both read the inputs of the job, leave out the records that the*)
(* validity bitmaps name (on the host also those that a lookup of the key  *)
(* does not find), and write one output and its new indexes.               *)
(***************************************************************************)
EXTENDS Integers, FiniteSets, SequencesExt

CONSTANTS
  NumInputs,   \* files of the job
  MaxRecords,  \* bound on the records of a file
  Keys,        \* user keys, naturals
  Lengths,     \* lengths of encoded records
  Header, Footer,
  Page,        \* the device pads its output to a multiple: 4096
  Unit,        \* the driver rounds sizes up to the next multiple: 2^20
  Buf,         \* bytes of one read of the driver: 128 MB
  Word,        \* values of a fixed32: 2^32
  MaxBad,      \* records that cannot be read
  Unsorted     \* whether inputs may be out of order, as outputs of the device

GCPassAssumption ==
  /\ Keys \subseteq Nat \ {0} /\ Lengths \subseteq Nat \ {0}
  /\ Header > 0 /\ Footer > 0 /\ Page > 0 /\ Unit > 0 /\ Buf > Unit

VARIABLES
  inputs,  \* sequence of [recs, padded, invalid, bad]; records count from 0
  mode,    \* "bitmap" or "lookup" on the host (use_bitmap_), or "device"
  runMode, \* blob_run_mode
  its,     \* BlobFileIterators: [off, index, at, ok]; at is the record, or -1
  heap,    \* min_heap_
  cur,     \* current_, 0 for nullptr
  last,    \* last_key and last_key_is_fresh
  dev,     \* the kernel: file, record, and its pointers
  out,     \* records written: [key, len, from]
  idx,     \* rewrite_batches_: [key, file, oldOff], and [off, len, index] of
           \* the new index or, as a fallback, the value
  status   \* "start", "run", "done", "failed" or "exit"

vars == <<inputs, mode, runMode, its, heap, cur, last, dev, out, idx, status>>

-----------------------------------------------------------------------------
(* Blob files.                                                             *)

RECURSIVE Bytes(_)
Bytes(recs) == IF recs = <<>> THEN 0 ELSE Head(recs).len + Bytes(Tail(recs))

\* The offset of record j, and of the end of the records.
Offset(recs, j) == Header + Bytes(SubSeq(recs, 1, j))

\* EncodeFooter of the kernel, and Finish of the host's builder.
Padding(end) == (Page - ((end + Footer) % Page)) % Page
FileSize(recs, padded) ==
  LET end == Offset(recs, Len(recs)) IN
  end + (IF padded THEN Padding(end) ELSE 0) + Footer

\* The record that starts at an offset; -1 when none does.
RecordAt(recs, off) ==
  LET js == {j \in 0 .. Len(recs) - 1 : Offset(recs, j) = off} IN
  IF js = {} THEN -1 ELSE CHOOSE j \in js : TRUE

-----------------------------------------------------------------------------
(* BlobFileIterator.                                                       *)

\* BuildIterator passes no number of entries, so that only the footer stops the
\* iteration; a read that finds no record fails its checksum.
PrefetchAndGet(f, it) ==
  LET j == RecordAt(f.recs, it.off) IN
  IF it.off >= FileSize(f.recs, f.padded) - Footer
  THEN [it EXCEPT !.at = -1, !.ok = TRUE]
  ELSE IF j = -1 \/ j \in f.bad THEN [it EXCEPT !.at = -1, !.ok = FALSE]
  ELSE [off |-> it.off + f.recs[j + 1].len, index |-> it.index + 1,
        at |-> it.index, ok |-> TRUE]

Start == [off |-> Header, index |-> 0, at |-> -1, ok |-> TRUE]

-----------------------------------------------------------------------------
(* BlobFileMergeIterator and DoRunGC.                                      *)

KeyAt(i, is) == inputs[i].recs[is[i].at + 1].key

\* The top of the heap: any iterator of the smallest key.
Tops(h, is) == {i \in h : \A k \in h : KeyAt(i, is) <= KeyAt(k, is)}

\* pop, when there is one.
Pop(h, is) ==
  \/ h = {} /\ cur' = 0 /\ heap' = {}
  \/ \E i \in Tops(h, is) : cur' = i /\ heap' = h \ {i}

\* An iterator that fails is left out, and its status is forgotten.
MergeSeekToFirst ==
  /\ mode # "device" /\ status = "start"
  /\ its' = [i \in 1 .. NumInputs |-> PrefetchAndGet(inputs[i], Start)]
  /\ LET h == {i \in 1 .. NumInputs : its'[i].at # -1} IN
     /\ Pop(h, its')
     /\ status' = IF h = {} THEN "failed" ELSE "run"
  /\ UNCHANGED <<inputs, mode, runMode, last, dev, out, idx>>

\* The batch of record r of input i, which names the index it replaces.
Rewrite(i, r, new) ==
  idx' = Append(idx, [key |-> r.key, file |-> i, oldOff |-> its[i].off - r.len] @@ new)

\* WriteEncoderData and BatchWriteNewIndices for record j of input i.
Written(i, j) ==
  LET r == inputs[i].recs[j + 1] IN
  /\ out' = Append(out, [key |-> r.key, len |-> r.len, from |-> <<i, j>>])
  /\ Rewrite(i, r, [off |-> Offset(out, Len(out)), len |-> r.len,
                    index |-> Len(out)])

\* kFallback: the value goes back into the tree.
WrittenInline(i, j) ==
  /\ Rewrite(i, inputs[i].recs[j + 1], [value |-> <<i, j>>])
  /\ UNCHANGED out

\* Mutant of Seen: older versions are skipped with a bitmap as well.
SeenWithBitmap(key) == last.key = key /\ \E k \in DOMAIN idx : idx[k].key = key

\* A version of the key that is newer was found and rewritten.
Seen(key) == last.key = key /\ last.fresh

\* One round of the loop of DoRunGC, and Next of the merge iterator.  The bitmap
\* was copied; DiscardEntry compares with what the tree holds at this moment.
DoRunGCRound ==
  /\ mode # "device" /\ status = "run" /\ cur # 0
  /\ LET key  == KeyAt(cur, its)
         kept == ~ Seen(key) /\ its[cur].at \notin inputs[cur].invalid IN
     /\ last' = [key |-> key, fresh |-> Seen(key) \/ (kept /\ mode = "lookup")]
     /\ IF ~ kept THEN UNCHANGED <<out, idx>>
        ELSE IF runMode = "kFallback" THEN WrittenInline(cur, its[cur].at)
        ELSE Written(cur, its[cur].at)
  /\ its' = [its EXCEPT ![cur] = PrefetchAndGet(inputs[cur], @)]
  /\ Pop(IF its'[cur].at # -1 THEN heap \cup {cur} ELSE heap, its')
  /\ UNCHANGED <<inputs, mode, runMode, dev, status>>

\* A user writes the key of record j of input i.
Put(i, j) ==
  /\ mode = "lookup" /\ status = "run"
  /\ j < Len(inputs[i].recs) /\ j \notin inputs[i].invalid
  /\ inputs' = [inputs EXCEPT ![i].invalid = @ \cup {j}]
  /\ UNCHANGED <<mode, runMode, its, heap, cur, last, dev, out, idx, status>>

\* The database shuts down, DiscardEntry cannot read the tree, or there is no
\* new file or batch.
DoRunGCBreaks ==
  /\ mode # "device" /\ status = "run" /\ cur # 0
  /\ status' = "failed"
  /\ UNCHANGED <<inputs, mode, runMode, its, heap, cur, last, dev, out, idx>>

\* The loop has ended, and status() of the merge iterator is OK.
DoRunGCEnds ==
  /\ mode # "device" /\ status = "run" /\ cur = 0
  /\ status' = "done"
  /\ UNCHANGED <<inputs, mode, runMode, its, heap, cur, last, dev, out, idx>>

-----------------------------------------------------------------------------
(* The driver.                                                             *)

Size(i) == FileSize(inputs[i].recs, inputs[i].padded)

\* Mutant of RoundUp: one unit more.
RoundUpMore(size) == (size \div Unit + 2) * Unit
RoundUp(size) == (size \div Unit + 1) * Unit

\* The loop of preads over a file: FALSE when one of them returns nothing.
RECURSIVE ReadLoop(_, _, _)
ReadLoop(size, iter, offset) ==
  IF iter >= RoundUp(size) \div Buf + 1 THEN TRUE
  ELSE offset < size /\ ReadLoop(size, iter + 1,
                          IF offset + Buf < size THEN offset + Buf ELSE size)

\* Where the driver puts input i and its bitmap, and where the kernel, which
\* adds up the lengths that it is given, looks for them.
RECURSIVE DataBase(_)
DataBase(i) == IF i = 1 THEN 0 ELSE DataBase(i - 1) + RoundUp(Size(i - 1))
BitmapSize(i) == Len(inputs[i].recs) \div 8 + 1
RECURSIVE BitmapBase(_)
BitmapBase(i) == IF i = 1 THEN 0 ELSE BitmapBase(i - 1) + BitmapSize(i - 1)

ReadInputs ==
  /\ mode = "device" /\ status = "start"
  /\ status' = IF \A i \in 1 .. NumInputs : ReadLoop(Size(i), 0, 0)
               THEN "run" ELSE "exit"
  /\ UNCHANGED <<inputs, mode, runMode, its, heap, cur, last, dev, out, idx>>

-----------------------------------------------------------------------------
(* The kernel.                                                             *)

\* What lies at an address of the buffers; the checksum is not looked at.
DataAt(a) == CHOOSE r \in {<<i, j>> \in (1 .. NumInputs) \X (0 .. MaxRecords - 1) :
                             j < Len(inputs[i].recs)} :
               a = DataBase(r[1]) + Offset(inputs[r[1]].recs, r[2])
InvalidAt(a, j) ==
  \E i \in 1 .. NumInputs : a = BitmapBase(i) /\ j \in inputs[i].invalid

\* Mutant of PutOutputKey: called after PutOutputData.
PutOutputKeyAfter(r, off, oldOff) ==
  idx' = Append(idx, [key |-> r.key, off |-> (off + r.len) % Word,
                      len |-> r.len % Word, index |-> Len(idx),
                      file |-> dev.file % Word, oldOff |-> oldOff % Word])

\* PutOutputKey keeps 32 bits of every number.
PutOutputKey(r, off, oldOff) ==
  idx' = Append(idx, [key |-> r.key, off |-> off % Word, len |-> r.len % Word,
                      index |-> Len(idx), file |-> dev.file % Word,
                      oldOff |-> oldOff % Word])

\* Mutant of KernelRecord: the offset is not advanced over an invalid record.
KernelRecordStays ==
  /\ mode = "device" /\ status = "run"
  /\ dev.file <= NumInputs /\ dev.rec < Len(inputs[dev.file].recs)
  /\ LET from == DataAt(dev.data + dev.off)
         r    == inputs[from[1]].recs[from[2] + 1] IN
     IF InvalidAt(dev.bitmap, dev.rec)
     THEN dev' = [dev EXCEPT !.rec = @ + 1] /\ UNCHANGED <<out, idx>>
     ELSE /\ PutOutputKey(r, Offset(out, Len(out)), dev.off)
          /\ out' = Append(out, [key |-> r.key, len |-> r.len, from |-> from])
          /\ dev' = [dev EXCEPT !.rec = @ + 1, !.off = @ + r.len]
  /\ UNCHANGED <<inputs, mode, runMode, its, heap, cur, last, status>>

\* One record of an input: CheckValid, GetKV, PutOutputKey, PutOutputData.
KernelRecord ==
  /\ mode = "device" /\ status = "run"
  /\ dev.file <= NumInputs /\ dev.rec < Len(inputs[dev.file].recs)
  /\ LET from == DataAt(dev.data + dev.off)
         r    == inputs[from[1]].recs[from[2] + 1] IN
     /\ IF InvalidAt(dev.bitmap, dev.rec) THEN UNCHANGED <<out, idx>>
        ELSE /\ PutOutputKey(r, Offset(out, Len(out)), dev.off)
             /\ out' = Append(out, [key |-> r.key, len |-> r.len, from |-> from])
     /\ dev' = [dev EXCEPT !.rec = @ + 1, !.off = @ + r.len]
  /\ UNCHANGED <<inputs, mode, runMode, its, heap, cur, last, status>>

\* The pointers move on by the lengths of the input.
KernelNextInput ==
  /\ mode = "device" /\ status = "run"
  /\ dev.file <= NumInputs /\ dev.rec = Len(inputs[dev.file].recs)
  /\ dev' = [file |-> dev.file + 1, rec |-> 0, off |-> Header,
             data |-> dev.data + RoundUp(Size(dev.file)),
             bitmap |-> dev.bitmap + BitmapSize(dev.file)]
  /\ UNCHANGED <<inputs, mode, runMode, its, heap, cur, last, out, idx, status>>

\* EncodeFooter; the host makes indexes of what PutOutputKey left.
DoRunGCOnHardwareEnds ==
  /\ mode = "device" /\ status = "run" /\ dev.file > NumInputs
  /\ status' = "done"
  /\ UNCHANGED <<inputs, mode, runMode, its, heap, cur, last, dev, out, idx>>

-----------------------------------------------------------------------------
Sorted(recs) == \A i, j \in DOMAIN recs : i < j => recs[i].key <= recs[j].key

\* The files a job may get: those of the host's builder are sorted and not
\* padded.
Records == UNION {[1 .. n -> [key : Keys, len : Lengths]] : n \in 1 .. MaxRecords}
Input(recs) ==
  {f \in [recs : {recs}, padded : BOOLEAN, invalid : SUBSET (0 .. Len(recs) - 1),
          bad : SUBSET (0 .. Len(recs) - 1)] :
     /\ Cardinality(f.bad) <= MaxBad
     /\ ~ f.padded => Sorted(recs)
     /\ ~ Unsorted => ~ f.padded}

\* The records that the bitmaps, or the tree, call valid.
Live == {<<i, j>> \in (1 .. NumInputs) \X (0 .. MaxRecords - 1) :
           j < Len(inputs[i].recs) /\ j \notin inputs[i].invalid}
RecordOf(r) == inputs[r[1]].recs[r[2] + 1]

\* The tree holds one version of a key; bitmaps lag behind.
Init ==
  /\ inputs \in [1 .. NumInputs -> UNION {Input(recs) : recs \in Records}]
  /\ mode \in {"bitmap", "lookup", "device"}
  /\ runMode \in {"kNormal", "kFallback"} /\ (mode = "device" => runMode = "kNormal")
  /\ mode = "lookup" =>
       \A r, s \in Live : RecordOf(r).key = RecordOf(s).key => r = s
  /\ its = [i \in 1 .. NumInputs |-> Start] /\ heap = {} /\ cur = 0
  /\ last = [key |-> 0, fresh |-> FALSE]
  /\ dev = [file |-> 1, rec |-> 0, off |-> Header, data |-> 0, bitmap |-> 0]
  /\ out = <<>> /\ idx = <<>> /\ status = "start"

Next ==
  \/ MergeSeekToFirst \/ DoRunGCRound \/ DoRunGCBreaks \/ DoRunGCEnds
  \/ \E i \in 1 .. NumInputs, j \in 0 .. MaxRecords - 1 : Put(i, j)
  \/ ReadInputs \/ KernelRecord \/ KernelNextInput \/ DoRunGCOnHardwareEnds

Spec == Init /\ [][Next]_vars

-----------------------------------------------------------------------------
(* The key range of the output, as Add of the builder and DoRunGCOnHardware*)
(* keep it.                                                                *)

\* Mutant of WidenRange: the keys are taken to be in order.
WidenRangeInOrder(acc, r) ==
  [small |-> IF acc.small = 0 THEN r.key ELSE acc.small, large |-> r.key]

WidenRange(acc, r) ==
  [small |-> IF acc.small = 0 \/ r.key < acc.small THEN r.key ELSE acc.small,
   large |-> IF acc.large = 0 \/ r.key > acc.large THEN r.key ELSE acc.large]

KeyRange == FoldLeft(WidenRange, [small |-> 0, large |-> 0], out)

-----------------------------------------------------------------------------
(* Properties.                                                             *)

\* The record that batch k rewrites.
From(k) == IF runMode = "kFallback" THEN idx[k].value ELSE out[k].from

\* A job that succeeds, and goes on to delete its inputs, has rewritten every
\* record of them that is still valid, once.  With a bitmap, on the host or the
\* device, it has rewritten no other; without, at most one record of a key.
\* That the host takes the padding of the device for a record that it cannot
\* read, and stops there, costs it no record.
RelocatesLive ==
  status = "done" =>
    LET relocated == {From(k) : k \in DOMAIN idx} IN
    /\ Live \subseteq relocated
    /\ Len(idx) = Cardinality(relocated)
    /\ mode # "lookup" => relocated \subseteq Live
    /\ mode = "lookup" =>
         \A k, l \in DOMAIN idx : idx[k].key = idx[l].key => k = l

\* Every offset fits into the 32 bits that the kernel has for it.
Fits ==
  \A k \in DOMAIN out :
    /\ Offset(out, k - 1) < Word
    /\ Offset(inputs[out[k].from[1]].recs, out[k].from[2]) < Word

\* Every batch is for the key of its record and names the index that it
\* replaces; a new index names the record in the output, at its offset and
\* position.  The device keeps this up to the last offset of 32 bits.
IndexesResolve ==
  status = "done" /\ (mode = "device" => Fits) =>
    /\ runMode = "kNormal" => Len(idx) = Len(out)
    /\ \A k \in DOMAIN idx :
         LET from == From(k) IN
         /\ idx[k].key = RecordOf(from).key
         /\ idx[k].file = from[1]
         /\ idx[k].oldOff = Offset(inputs[from[1]].recs, from[2])
         /\ runMode = "kNormal" =>
              /\ idx[k].off = Offset(out, k - 1) /\ idx[k].index = k - 1
              /\ idx[k].len = RecordOf(from).len

\* The records that an iterator of the next job reads from a file.
RECURSIVE Iterated(_, _)
Iterated(f, it) ==
  LET new == PrefetchAndGet(f, it) IN
  IF ~ new.ok THEN <<-1>> ELSE IF new.at = -1 THEN <<>>
  ELSE <<new.at>> \o Iterated(f, new)

\* An iterator reads all records of the output in their order and ends without
\* an error (blob_gc_job_test.cc 293).
OutputIterates ==
  status = "done" /\ out # <<>> =>
    Iterated([recs |-> out, padded |-> mode = "device", bad |-> {}], Start)
      = [k \in 1 .. Len(out) |-> k - 1]

\* The key range of the output, by which range deletions choose files, is that
\* of its records, in whatever order they come.
RangeCovers ==
  status = "done" /\ out # <<>> =>
    LET ks == {out[k].key : k \in DOMAIN out} IN
    /\ {KeyRange.small, KeyRange.large} \subseteq ks
    /\ \A k \in ks : KeyRange.small <= k /\ k <= KeyRange.large

\* The driver ends the process only when a multiple of its read buffer lies
\* between the size of an input and that size rounded up.
ExitsAtMultiple ==
  status = "exit" =>
    \E i \in 1 .. NumInputs :
      \E n \in Size(i) .. (Size(i) \div Unit + 1) * Unit : n % Buf = 0

\* The records of a blob file are stored in sorted order.
SortedOutput == Sorted(out)
=============================================================================

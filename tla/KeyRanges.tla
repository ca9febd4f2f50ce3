------------------------------ MODULE KeyRanges ------------------------------
(***************************************************************************)
(* The key ranges of blob files: the index blob_ranges_ of a BlobStorage,  *)
(* the deletion of the files in given ranges, and the search for files that*)
(* overlap too much (level merge).  Keys are 1 .. MaxKey.  The empty key 0 *)
(* is the smallest and largest key of files of the old version; a begin of *)
(* 0 is also nullptr, and the end NoEnd is nullptr.                        *)
(***************************************************************************)
EXTENDS Integers, SequencesExt

CONSTANTS
  MaxKey,         \* bound on the keys
  MaxNumber,      \* bound on the file numbers
  Spans,          \* the <<smallest, largest>> keys files may have
  MaxRanges,      \* bound on the ranges of one call
  MaxSortedRuns   \* max_sorted_runs

KeyRangesAssumption ==
  \A s \in Spans : s[1] \in 1 .. MaxKey /\ s[2] \in s[1] .. MaxKey

VARIABLES
  files,   \* files_: number -> [small, large, state]
  ranges,  \* blob_ranges_, a multimap by smallest key: sequence of numbers
  next,    \* next_file_number_
  call     \* the call that has taken effect and is about to return

vars == <<files, ranges, next, call>>

NoEnd  == MaxKey + 1
NoCall == [op |-> "none"]
File(small, large) == [small |-> small, large |-> large, state |-> "kNormal"]
Obsolete(n) == files[n].state = "kObsolete"

\* A storage with or without a file of the old version.
Init ==
  /\ \/ files = <<>> /\ ranges = <<>> /\ next = 1
     \/ files = <<File(0, 0)>> /\ ranges = <<1>> /\ next = 2
  /\ call = NoCall

\* Positions of the index, as the multimap finds them.
LowerBound(k) == Cardinality({i \in DOMAIN ranges : files[ranges[i]].small < k}) + 1
UpperBound(k) == Cardinality({i \in DOMAIN ranges : files[ranges[i]].small <= k}) + 1

\* emplace puts an entry after those of the same key.
AddBlobFile(small, large) ==
  /\ call = NoCall
  /\ next <= MaxNumber /\ next' = next + 1
  /\ files' = [n \in DOMAIN files \cup {next} |->
                 IF n = next THEN File(small, large) ELSE files[n]]
  /\ ranges' = InsertAt(ranges, UpperBound(small), next)
  /\ UNCHANGED call

-----------------------------------------------------------------------------
(* DeleteBlobFilesInRanges.                                                *)

\* Mutant of Within: the end counts as inside.
WithinClosed(f, end, include_end) == end = NoEnd \/ f.large <= end

\* Whether the file ends in the range.
Within(f, end, include_end) ==
  end = NoEnd \/ (include_end /\ f.large <= end) \/ (~ include_end /\ f.large < end)

\* The files of one range, in the order of the index.  A begin behind the end
\* would let the iterator run past its end; callers do not pass it.
InRange(r, include_end) ==
  SelectSeq(SubSeq(ranges, LowerBound(r.begin),
                   IF r.end = NoEnd THEN Len(ranges) ELSE UpperBound(r.end) - 1),
            LAMBDA n : /\ ~ Obsolete(n)
                       /\ ~ (files[n].large = 0 /\ r.end # NoEnd)
                       /\ Within(files[n], r.end, include_end))

GetBlobFilesInRanges(rs, include_end) ==
  FoldLeft(LAMBDA acc, r : acc \o InRange(r, include_end), <<>>, rs)

\* A file that is found twice is a deletion too many: LogAndApply refuses the
\* edit before it writes anything.
DeleteBlobFilesInRanges(rs, include_end) ==
  LET found == GetBlobFilesInRanges(rs, include_end)
      ok    == IsInjective(found) IN
  /\ call = NoCall
  /\ files' = [n \in DOMAIN files |-> IF ok /\ n \in ToSet(found)
                 THEN [files[n] EXCEPT !.state = "kObsolete"] ELSE files[n]]
  /\ call' = [op |-> "delete", ranges |-> rs, include_end |-> include_end,
              was |-> {n \in DOMAIN files : Obsolete(n)}, ok |-> ok]
  /\ UNCHANGED <<ranges, next>>

\* Mutant of RemoveFile: the first entry of the key is erased.
RemoveFileFirst(n) ==
  /\ call = NoCall
  /\ n \in DOMAIN files /\ Obsolete(n)
  /\ ranges' = RemoveAt(ranges, LowerBound(files[n].small))
  /\ files' = [m \in DOMAIN files \ {n} |-> files[m]]
  /\ UNCHANGED <<next, call>>

\* Of the entries of the key, the one of this file is erased.
RemoveFile(n) ==
  /\ call = NoCall
  /\ n \in DOMAIN files /\ Obsolete(n)
  /\ ranges' = SelectSeq(ranges, LAMBDA m : m # n)
  /\ files' = [m \in DOMAIN files \ {n} |-> files[m]]
  /\ UNCHANGED <<next, call>>

-----------------------------------------------------------------------------
(* MarkFileIfNeedMerge.                                                    *)

EndKey(e) == IF e.smallest THEN files[e.file].small ELSE files[e.file].large

\* Mutant of EndBefore: equal keys in the other order.
EndBeforeSmallest(e1, e2) ==
  \/ EndKey(e1) < EndKey(e2)
  \/ EndKey(e1) = EndKey(e2) /\ e1.smallest /\ ~ e2.smallest

\* blob_ends_cmp: of equal keys, a largest key comes first.
EndBefore(e1, e2) ==
  \/ EndKey(e1) < EndKey(e2)
  \/ EndKey(e1) = EndKey(e2) /\ ~ e1.smallest /\ e2.smallest

\* The sort leaves ends that are equal, those of one side, in any order.
BlobEnds(N) ==
  {SetToSortSeq([file : N, smallest : BOOLEAN],
     LAMBDA e1, e2 : \/ EndBefore(e1, e2)
                     \/ ~ EndBefore(e2, e1) /\ tie[e1.file] < tie[e2.file]) :
   tie \in {t \in [N -> 1 .. Cardinality(N)] : IsInjective(t)}}

\* One round of the sweep.
Sweep(acc, e) ==
  LET set == IF e.smallest THEN acc.set \cup {e.file} ELSE acc.set \ {e.file} IN
  [set    |-> set,
   marked |-> IF e.smallest /\ Cardinality(set) > MaxSortedRuns
              THEN acc.marked \cup set ELSE acc.marked]

MarkFileIfNeedMerge(N) ==
  /\ call = NoCall
  /\ \E ends \in BlobEnds(N) :
       LET marked == FoldLeft(Sweep, [set |-> {}, marked |-> {}], ends).marked IN
       /\ files' = [n \in DOMAIN files |-> IF n \in marked
                      THEN [files[n] EXCEPT !.state = "kToMerge"] ELSE files[n]]
       /\ call' = [op |-> "mark", files |-> N, marked |-> marked]
  /\ UNCHANGED <<ranges, next>>

-----------------------------------------------------------------------------
Ranges == [begin : 0 .. MaxKey, end : 1 .. NoEnd]

\* The call returns and mutex_ is released.
Return == call # NoCall /\ call' = NoCall /\ UNCHANGED <<files, ranges, next>>

Next ==
  \/ Return
  \/ \E s \in Spans : AddBlobFile(s[1], s[2])
  \/ \E k \in 1 .. MaxRanges, include_end \in BOOLEAN :
       \E rs \in [1 .. k -> {r \in Ranges : r.begin <= r.end}] :
         DeleteBlobFilesInRanges(rs, include_end)
  \/ \E n \in DOMAIN files : RemoveFile(n)
  \/ \E N \in SUBSET {n \in DOMAIN files : ~ Obsolete(n) /\ files[n].small > 0} :
       N # {} /\ MarkFileIfNeedMerge(N)

Spec == Init /\ [][Next]_vars

-----------------------------------------------------------------------------
(* Properties.                                                             *)

\* blob_ranges_ holds every file of files_ once, sorted by smallest key, after
\* any additions and removals; files may share their smallest key.
RangesIndexFiles ==
  /\ ToSet(ranges) = DOMAIN files /\ IsInjective(ranges)
  /\ \A i, j \in DOMAIN ranges : i < j => files[ranges[i]].small <= files[ranges[j]].small

\* The keys a file may hold, and those of a range; a file of the old version
\* may hold any key.
Keys(f) == IF f.small = 0 THEN 0 .. NoEnd ELSE f.small .. f.large
RangeKeys(r, include_end) ==
  r.begin .. (IF r.end = NoEnd \/ include_end THEN r.end ELSE r.end - 1)

\* DeleteBlobFilesInRanges makes a file obsolete when a range holds all the
\* keys the file may hold, and only then; a file that two ranges hold makes
\* it fail as a whole.
DeletesWhatIsInside ==
  call.op = "delete" =>
    LET holds(n) == {i \in DOMAIN call.ranges :
          Keys(files[n]) \subseteq RangeKeys(call.ranges[i], call.include_end)}
        fresh == DOMAIN files \ call.was IN
    /\ call.ok <=> \A n \in fresh : Cardinality(holds(n)) <= 1
    /\ \A n \in fresh : Obsolete(n) <=> call.ok /\ holds(n) # {}

\* The files that are open between a key and the next one.
Across(N, k) == {n \in N : files[n].small <= k /\ k < files[n].large}

\* Among files of several keys, MarkFileIfNeedMerge marks a file when more
\* than max_sorted_runs of them overlap somewhere in it, and only then; files
\* that share an end only do not overlap.
MarksOverlapping ==
  call.op = "mark" /\ (\A n \in call.files : files[n].small < files[n].large) =>
    \A n \in call.files : n \in call.marked <=>
      \E k \in 1 .. MaxKey : n \in Across(call.files, k)
                             /\ Cardinality(Across(call.files, k)) > MaxSortedRuns

\* A file is marked only where more than max_sorted_runs of the files share
\* a key with it.
MarkedShareKey ==
  call.op = "mark" =>
    \A n \in call.marked : \E k \in Keys(files[n]) :
      Cardinality({m \in call.files : k \in Keys(files[m])}) > MaxSortedRuns
=============================================================================

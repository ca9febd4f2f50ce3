-------------------------- MODULE WriteBackProofs --------------------------
(***************************************************************************)
(* Write-backs of GC, for any number of writes, blob files, memtables,     *)
(* runs, jobs, snapshots and restarts.                                     *)
(*                                                                         *)
(* The versions of the key are a set of entries that the sequence numbers  *)
(* put in a line.  Preprocess replaces a segment of that line by one entry *)
(* (ReplaceTypes, ReplaceCovered, KeptChain, ReplaceRecon); what it keeps  *)
(* of a segment is settled by a least counterexample (PreprocessIs).       *)
(* Three things are said of the line: an entry in a file that GC deletes   *)
(* stays covered by a newer one (ResolveInv); while no record is written   *)
(* back late, each write-back replaces the entry below it (ChainInv);      *)
(* otherwise what lies above the last Put is a chain of its relocations or *)
(* one late write-back (ReconInv).                                         *)
(***************************************************************************)
EXTENDS WriteBack, FiniteSetTheorems, WellFoundedInduction, TLAPS

-----------------------------------------------------------------------------
(* The inductive invariant.                                                *)

IsValue(e) == e.type = "kTypeValue"
IsIndex(e) == e.type = "kTypeBlobIndex"
Dead == {"kObsolete", "kPurged"}

\* The value of an entry, whatever has become of its file.
Record(C, r) == C[r[1]][r[2]]
Val(e, C) == IF IsValue(e) THEN e.value ELSE Record(C, e.at)

\* An entry of the tree, when the records of R are written and n values are.
Entry(e, R, n) ==
  /\ e.seq \in Nat /\ e.value \in Nat
  /\ \/ e = ValueEntry(e.seq, e.value) /\ 1 <= e.value /\ e.value <= n
     \/ e = BlobEntry(e.seq, e.at, e.old) /\ e.at \in R /\ e.old \in R \cup {None}

\* Sequence numbers and positions tell the entries apart.
LogTypes(L, R, n) ==
  /\ \A e \in L : Entry(e, R, n)
  /\ \A d, e \in L : d.seq = e.seq => d = e
  /\ \A d, e \in L : IsIndex(d) /\ IsIndex(e) /\ d.at = e.at => d = e

TreeTypes ==
  /\ seq \in Nat /\ flushed \in Nat /\ flushed <= seq
  /\ puts \in Nat /\ puts <= MaxPut
  /\ \A b \in switches : b \in Nat /\ b <= seq
  /\ LogTypes(log, Records, puts)
  /\ \A e \in log : 1 <= e.seq /\ e.seq <= seq
  /\ puts > 0 => log # {}

\* A file number that is not in use has no records.
FileTypes ==
  /\ state \in [File -> FileState]
  /\ \A r \in Records :
       LET v == Record(content, r) IN v \in Nat /\ 1 <= v /\ v <= puts
  /\ \A f \in File : IsFiniteSet(DOMAIN content[f])
  /\ \A f \in File : state[f] = "kNone" => DOMAIN content[f] = {}
  /\ \A f \in File : state[f] = "kInit" => \A r \in Indexes(log) : r[1] # f
  /\ \A f \in File : bitmap[f] \subseteq DOMAIN content[f]
  /\ \A event \in events : event.dropped \subseteq Records
  /\ DOMAIN content = File /\ DOMAIN bitmap = File
  /\ raced \in BOOLEAN /\ stacked \in BOOLEAN /\ fellBack \in BOOLEAN
  /\ restarts \in Nat

\* A position that was reported as dropped is not in the tree again.
DroppedInv ==
  /\ BitmapSound
  /\ \A event \in events : \A r \in event.dropped : r \notin Indexes(log)

JobRecord(j) ==
  j = [x \in {"pc", "path", "inputs", "out", "keep", "next", "dropped"} |-> j[x]]

\* The records that a job keeps are copied in order; a copy is in nobody's
\* hands before it is written back.
JobInv ==
  job.pc # "idle" =>
    /\ JobRecord(job)
    /\ job.path \in {"hardware", "software"}
    /\ job.path = "software" => fellBack
    /\ job.next \in Nat /\ 1 <= job.next
    /\ \E n \in Nat : DOMAIN job.keep = 1 .. n
    /\ \A k \in DOMAIN job.keep :
         /\ job.keep[k] \in Records /\ <<job.out, k>> \in Records
         /\ Record(content, <<job.out, k>>) = Record(content, job.keep[k])
    /\ \A f \in job.inputs : f \in File /\ state[f] # "kNone" /\ f # job.out
    /\ job.out \in File => state[job.out] \notin Dead
    /\ job.pc = "rewrite" => (job.out \in File => state[job.out] # "kInit")
    /\ \A k \in DOMAIN job.keep : k >= job.next =>
         /\ <<job.out, k>> \notin Indexes(log) /\ k \notin bitmap[job.out]
         /\ \A event \in events : <<job.out, k>> \notin event.dropped
    /\ \A k \in job.dropped : /\ k \in DOMAIN job.keep /\ k < job.next
                              /\ <<job.out, k>> \notin Indexes(log)

\* An older entry that a newer one hides for good.
Covered(e, L) == \E d \in L : d.seq > e.seq /\ (d.old = None \/ d.old = e.at)

\* No entry in a file that GC has deleted, or is about to, can come up again.
ResolveInv ==
  ~ Misled =>
    /\ \A e \in log : IsIndex(e) /\ state[e.at[1]] \in Dead => Covered(e, log)
    /\ job.pc # "idle" =>
         \A e \in log : IsIndex(e) /\ e.at[1] \in job.inputs =>
           \/ Covered(e, log)
           \/ \E k \in DOMAIN job.keep : k >= job.next /\ job.keep[k] = e.at

\* y is the next older entry after x.
Over(x, y, L) ==
  x.seq > y.seq /\ \A z \in L : z.seq <= y.seq \/ z.seq >= x.seq
Top(h, L) == \A d \in L : d.seq <= h.seq

RunsInv == restarts = 0 => \A e \in log : e.seq <= flushed => IsIndex(e)

\* As long as no record is written back late, every write-back replaces the
\* entry below it, and no index is above a value.
Chain(L, C, n) ==
  /\ \A x, y \in L : Over(x, y, L) /\ x.old # None => x.old = y.at
  /\ \A x, y \in L : x.seq > y.seq /\ IsValue(y) => IsValue(x)
  /\ \A h \in L : Top(h, L) => Val(h, C) = n
ChainInv == ~ raced /\ restarts = 0 => Chain(log, content, puts)

\* Otherwise: the newest entry that is no write-back is the last Put.  Those
\* above it are a chain of relocations of it, or one that came too late.
Above(h, L) == {x \in L : x.seq > h.seq}
Late(h, L) == \E x \in L : Above(h, L) = {x} /\ x.old # h.at
Relocated(h, L, C, n) ==
  \A x \in Above(h, L) :
    /\ Val(x, C) = n
    /\ \E y \in L : Over(x, y, L) /\ x.old = y.at
Recon(L, C, n) ==
  /\ \A x, y \in L : x.seq > y.seq /\ IsValue(y) => IsValue(x) \/ x.old # None
  /\ \A h \in L : h.old = None /\ (\A x \in Above(h, L) : x.old # None) =>
       Val(h, C) = n /\ (Late(h, L) \/ Relocated(h, L, C, n))
  /\ n > 0 => \E h \in L : h.old = None
ReconInv == ~ stacked /\ ~ Misled /\ restarts = 0 => Recon(log, content, puts)

IndInv == /\ TreeTypes /\ FileTypes /\ DroppedInv /\ JobInv
          /\ ResolveInv /\ RunsInv /\ ChainInv /\ ReconInv
-----------------------------------------------------------------------------
(* Newest and oldest.                                                      *)

\* A nonempty set of naturals has a least element.
LEMMA MinExists ==
  ASSUME NEW S \in SUBSET Nat, S # {}
  PROVE  \E m \in S : \A x \in S : m <= x
<1> DEFINE R == OpToRel(<, Nat)
<1>1. R = {ss \in Nat \X Nat : ss[1] < ss[2]}
  BY Zenon DEF OpToRel
<1>2. IsWellFoundedOn(R, Nat)
  BY Zenon, NatLessThanWellFounded
<1> HIDE DEF R
<1>3. PICK m \in S : \A y \in S : <<y, m>> \notin R
  BY Zenon, <1>2, WFMin
<1>4. ASSUME NEW x \in S PROVE m <= x
  <2>1. x \in Nat /\ m \in Nat
    BY Zenon
  <2>2. x < m => <<x, m>> \in R
    BY Zenon, <1>1, <2>1
  <2> QED BY <1>3, <2>1, <2>2
<1> QED BY Zenon, <1>4

\* A nonempty bounded set of naturals has a greatest element.
LEMMA MaxExists ==
  ASSUME NEW n \in Nat, NEW S \in SUBSET (0 .. n), S # {}
  PROVE  \E m \in S : \A x \in S : x <= m
<1> DEFINE T == {n - x : x \in S}
<1>1. T \in SUBSET Nat
  OBVIOUS
<1>2. T # {}
  <2>1. PICK x : x \in S
    BY Zenon
  <2> QED BY Zenon, <2>1
<1>3. PICK t \in T : \A y \in T : t <= y
  BY Zenon, <1>1, <1>2, MinExists
<1>4. PICK m \in S : t = n - m
  BY Zenon, <1>3
<1>5. ASSUME NEW x \in S PROVE x <= m
  <2>1. n - x \in T /\ x \in Nat /\ m \in Nat /\ x <= n /\ m <= n
    OBVIOUS
  <2> QED BY <2>1, <1>3, <1>4
<1> QED BY Zenon, <1>5

\* A set of entries with different sequence numbers up to n.
Ordered(S, n) ==
  /\ \A e \in S : e.seq \in Nat /\ e.seq <= n
  /\ \A d, e \in S : d.seq = e.seq => d = e

\* Part of an ordered set of entries is ordered.
LEMMA OrderedSubset ==
  ASSUME NEW S, NEW n, Ordered(S, n), NEW T \in SUBSET S PROVE Ordered(T, n)
BY Zenon DEF Ordered

\* Newest chooses the one entry that no other is newer than.
LEMMA NewestIs ==
  ASSUME NEW n \in Nat, NEW S, Ordered(S, n), S # {}
  PROVE  /\ Newest(S) \in S /\ Top(Newest(S), S)
         /\ \A e \in S : Top(e, S) => e = Newest(S)
<1> DEFINE N == {e.seq : e \in S}
<1>1. N \in SUBSET (0 .. n) /\ N # {}
  BY DEF Ordered
<1>2. PICK m \in N : \A x \in N : x <= m
  BY ONLY <1>1, MaxExists, n \in Nat, Zenon
<1>3. PICK e \in S : m = e.seq
  BY Zenon, <1>2
<1>4. \A d \in S : d.seq <= e.seq
  BY Zenon, <1>2, <1>3
<1>5. Newest(S) \in S /\ \A d \in S : d.seq <= Newest(S).seq
  BY Zenon, <1>4 DEF Newest
<1>6. ASSUME NEW d \in S, Top(d, S) PROVE d = Newest(S)
  <2>1. d.seq <= Newest(S).seq /\ Newest(S).seq <= d.seq
    BY Zenon, <1>5, <1>6 DEF Top
  <2>2. d.seq \in Nat /\ Newest(S).seq \in Nat
    BY Zenon, <1>5 DEF Ordered
  <2>3. d.seq = Newest(S).seq
    BY <2>1, <2>2
  <2> QED BY Zenon, <2>3, <1>5 DEF Ordered
<1> QED BY Zenon, <1>5, <1>6 DEF Top

\* The newest of one entry.
LEMMA NewestOne ==
  ASSUME NEW n \in Nat, NEW S, Ordered(S, n), NEW e, S = {e}
  PROVE  Newest(S) = e
<1>1. Newest(S) \in S
  BY Zenon, NewestIs
<1> QED BY Zenon, <1>1

\* Oldest chooses the one entry that all others are newer than.
LEMMA OldestIs ==
  ASSUME NEW n \in Nat, NEW S, Ordered(S, n), S # {}
  PROVE  /\ Oldest(S) \in S
         /\ \A d \in S : d # Oldest(S) => d.seq > Oldest(S).seq
<1> DEFINE N == {e.seq : e \in S}
<1>1. N \in SUBSET Nat /\ N # {}
  BY Zenon DEF Ordered
<1>2. PICK m \in N : \A x \in N : m <= x
  BY ONLY <1>1, MinExists, Zenon
<1>3. PICK e \in S : m = e.seq
  BY Zenon, <1>2
<1>4. \A d \in S : d.seq >= e.seq
  <2> TAKE d \in S
  <2>1. e.seq <= d.seq
    BY Zenon, <1>2, <1>3
  <2>2. d.seq \in Nat /\ e.seq \in Nat
    BY Zenon DEF Ordered
  <2> QED BY <2>1, <2>2
<1>5. Oldest(S) \in S /\ \A d \in S : d.seq >= Oldest(S).seq
  BY Zenon, <1>4 DEF Oldest
<1>6. ASSUME NEW d \in S, d # Oldest(S) PROVE d.seq > Oldest(S).seq
  <2>1. d.seq \in Nat /\ Oldest(S).seq \in Nat /\ d.seq >= Oldest(S).seq
    BY Zenon, <1>5 DEF Ordered
  <2>2. d.seq # Oldest(S).seq
    BY Zenon, <1>5, <1>6 DEF Ordered
  <2> QED BY <2>1, <2>2
<1> QED BY Zenon, <1>5, <1>6

-----------------------------------------------------------------------------
(* What Preprocess keeps of a key.                                         *)

\* Without the loop: the newest value, or else the newest index; where that is
\* a write-back, it is compared with the next.
Outcome(S) ==
  LET first  == Newest(S)
      values == {e \in S : IsValue(e)} IN
    IF values # {} THEN Newest(values)
    ELSE IF S = {first} \/ first.old = None THEN first
    ELSE CheckBlobIndex(first, Newest(S \ {first}))

\* The loop takes one entry more.
LEMMA OutcomeStep ==
  ASSUME NEW n \in Nat, NEW S, Ordered(S, n), NEW d \in S, NEW e \in S, d # e,
         \A x \in S : x = ValueEntry(x.seq, x.value) \/ x = BlobEntry(x.seq, x.at, x.old)
  PROVE  Outcome(S) = Merge(Outcome(S \ {Oldest(S)}), Oldest(S))
<1> DEFINE o == Oldest(S)
           T == S \ {o}
           p == Newest(S)
           V == {x \in S : IsValue(x)}
           W == {x \in T : IsValue(x)}
<1>0. \A x \in S : /\ IsValue(x) \/ IsIndex(x)
                   /\ IsValue(x) => x.old = None /\ ~ IsIndex(x)
                   /\ IsIndex(x) => x = BlobEntry(x.seq, x.at, x.old)
  BY DEF IsValue, IsIndex, ValueEntry, BlobEntry
<1>1. o \in S /\ \A x \in S : x # o => x.seq > o.seq
  BY ONLY OldestIs, n \in Nat, Ordered(S, n), d \in S, Zenon
<1>2. T # {} /\ Ordered(T, n) /\ Ordered(V, n) /\ Ordered(W, n)
  <2>1. T \in SUBSET S /\ V \in SUBSET S /\ W \in SUBSET S
    BY Zenon
  <2>2. d \in T \/ e \in T
    BY Zenon
  <2> HIDE DEF T, V, W
  <2> QED BY Zenon, <2>1, <2>2, OrderedSubset
<1>3. p \in S /\ Top(p, S) /\ \A x \in S : Top(x, S) => x = p
  BY ONLY NewestIs, n \in Nat, Ordered(S, n), d \in S, Zenon
<1>4. p # o /\ p \in T /\ Top(p, T)
  <2>1. ASSUME p = o PROVE FALSE
    <3>1. PICK x \in T : TRUE
      BY Zenon, <1>2
    <3>2. x.seq > o.seq /\ x.seq <= o.seq /\ x.seq \in Nat /\ o.seq \in Nat
      BY Zenon, <1>1, <1>3, <2>1 DEF Top, Ordered
    <3> QED BY <3>2
  <2> QED BY Zenon, <2>1, <1>3 DEF Top
<1>5. Newest(T) = p
  <2> HIDE DEF p, T
  <2> QED BY ONLY NewestIs, n \in Nat, <1>2, <1>4, Zenon
<1> HIDE DEF o, T, p, V, W
<1>6. CASE W # {}
  <2> DEFINE v == Newest(W)
  <2>1. v \in W /\ Top(v, W)
    BY ONLY NewestIs, n \in Nat, <1>2, <1>6, Zenon
  <2>2. v \in V /\ Top(v, V)
    <3>1. ASSUME NEW x \in V PROVE x.seq <= v.seq
      <4>1. x \in W \/ x = o
        BY Zenon DEF V, W, T
      <4>2. o.seq < v.seq /\ o.seq \in Nat /\ v.seq \in Nat
        <5>1. v \in S /\ v # o
          BY Zenon, <2>1 DEF W, T
        <5>2. v.seq > o.seq /\ v.seq \in Nat /\ o.seq \in Nat
          BY Zenon, <5>1, <1>1 DEF Ordered
        <5> QED BY <5>2
      <4>3. x \in W => x.seq <= v.seq
        BY Zenon, <2>1 DEF Top
      <4>4. CASE x \in W
        BY Zenon, <4>4, <4>3
      <4>5. CASE x = o
        BY <4>5, <4>2
      <4> QED BY Zenon, <4>1, <4>4, <4>5
    <3> QED BY Zenon, <3>1, <2>1 DEF Top, V, W, T
  <2>3. Newest(V) = v
    BY ONLY NewestIs, n \in Nat, <1>2, <2>2, Zenon
  <2>4. Outcome(T) = v /\ Outcome(S) = v
    BY Zenon, <2>2, <2>3, <1>6 DEF Outcome, V, W
  <2>5. v.type = "kTypeValue"
    BY Zenon, <2>2 DEF V, IsValue
  <2> HIDE DEF v
  <2> QED BY <2>4, <2>5 DEF Merge, o, T
<1>7. CASE W = {} /\ IsValue(o)
  <2>1. V = {o}
    BY Zenon, <1>1, <1>7 DEF V, W, T
  <2>2. Newest(V) = o
    BY ONLY NewestOne, <2>1, Zenon, n \in Nat, <1>2
  <2>3. Outcome(S) = o
    BY Zenon, <2>1, <2>2 DEF Outcome, V
  <2>4. Outcome(T).type = "kTypeBlobIndex"
    <3>1. IsIndex(p)
      BY Zenon, <1>4, <1>0, <1>7 DEF W, T
    <3>2. \A x : CheckBlobIndex(p, x).type = "kTypeBlobIndex"
      BY DEF CheckBlobIndex, BlobEntry
    <3> QED BY Zenon, <1>7, <1>5, <3>1, <3>2 DEF Outcome, W, IsIndex
  <2> QED BY <2>3, <2>4, <1>7 DEF Merge, o, T, IsValue
<1>8. CASE W = {} /\ ~ IsValue(o)
  <2>1. V = {}
    BY Zenon, <1>8 DEF V, W, T
  <2>2. IsIndex(p) /\ IsIndex(o) /\ p = BlobEntry(p.seq, p.at, p.old)
    BY Zenon, <1>8, <1>1, <1>3, <1>4, <1>0 DEF W, T
  <2>3. S # {p}
    BY Zenon, <1>1, <1>4
  <2>4. Outcome(S) = IF p.old = None THEN p ELSE CheckBlobIndex(p, Newest(S \ {p}))
    BY Zenon, <2>1, <2>3 DEF Outcome, V, p
  <2>5. Outcome(T) = IF T = {p} \/ p.old = None THEN p
                     ELSE CheckBlobIndex(p, Newest(T \ {p}))
    BY Zenon, <1>8, <1>5 DEF Outcome, W
  <2>6. CASE p.old = None
    <3>1. Outcome(T) = p /\ Outcome(S) = p
      BY Zenon, <2>4, <2>5, <2>6
    <3>2. Merge(p, o) = p
      BY <2>2, <2>6 DEF Merge, SaverCheckIsGCWriteBack, IsIndex
    <3> QED BY Zenon, <3>1, <3>2 DEF o, T
  <2>7. CASE p.old # None /\ T = {p}
    <3>1. S \ {p} = {o}
      BY Zenon, <2>7, <1>1, <1>4 DEF T
    <3>2. Newest(S \ {p}) = o
      <4>1. Ordered(S \ {p}, n)
        BY Zenon, OrderedSubset
      <4> QED BY ONLY NewestOne, <3>1, <4>1, Zenon, n \in Nat
    <3>3. Merge(p, o) = CheckBlobIndex(p, o)
      BY <2>2, <2>7 DEF Merge, SaverCheckIsGCWriteBack, IsIndex
    <3> QED BY Zenon, <3>2, <3>3, <2>4, <2>5, <2>7 DEF o, T
  <2>8. CASE p.old # None /\ T # {p}
    <3> DEFINE A == T \ {p}
               B == S \ {p}
    <3>1. A # {} /\ Ordered(A, n) /\ Ordered(B, n)
      BY Zenon, <2>8, <1>4, <1>2 DEF Ordered, T
    <3>2. Newest(A) \in A /\ Top(Newest(A), A)
      BY ONLY NewestIs, n \in Nat, <3>1, Zenon
    <3>3. Newest(A) \in B /\ Top(Newest(A), B)
      <4>1. Newest(A) \in S /\ Newest(A) # o
        BY Zenon, <3>2 DEF T
      <4>2. Newest(A).seq > o.seq /\ Newest(A).seq \in Nat /\ o.seq \in Nat
        BY Zenon, <4>1, <1>1 DEF Ordered
      <4>3. o.seq <= Newest(A).seq
        BY <4>2
      <4>4. \A x \in B : x \in A \/ x = o
        BY Zenon DEF T
      <4> QED BY Zenon, <4>4, <4>3, <3>2 DEF Top, T
    <3>4. Newest(B) = Newest(A)
      <4> HIDE DEF A, B
      <4> QED BY ONLY NewestIs, n \in Nat, <3>1, <3>3, Zenon
    <3>5. Outcome(S) = CheckBlobIndex(p, Newest(A)) /\ Outcome(T) = CheckBlobIndex(p, Newest(A))
      BY Zenon, <3>4, <2>4, <2>5, <2>8
    <3>6. ASSUME NEW c, c = CheckBlobIndex(p, Newest(A)) PROVE Merge(c, o) = c
      <4>1. c.type = "kTypeBlobIndex" /\ c.old = None
        BY <3>6 DEF CheckBlobIndex, BlobEntry
      <4> QED BY <4>1, <2>2 DEF Merge, SaverCheckIsGCWriteBack, IsIndex
    <3> QED BY Zenon, <3>5, <3>6 DEF o, T
  <2> QED BY Zenon, <2>6, <2>7, <2>8
<1> QED BY Zenon, <1>6, <1>7, <1>8

\* A single entry is kept as it is.
LEMMA OutcomeOne ==
  ASSUME NEW n \in Nat, NEW S, Ordered(S, n), NEW e, S = {e}
  PROVE  Outcome(S) = e /\ Newest(S) = e
<1>1. Newest(S) = e
  BY Zenon, NewestOne
<1>2. ASSUME {x \in S : IsValue(x)} # {} PROVE {x \in S : IsValue(x)} = S
  BY Zenon, <1>2
<1> QED BY Zenon, <1>1, <1>2 DEF Outcome

\* The loop of CompactionIterator::Preprocess keeps what Outcome says.
LEMMA PreprocessIs ==
  ASSUME NEW n \in Nat, NEW S, Ordered(S, n), S # {},
         \A x \in S : x = ValueEntry(x.seq, x.value) \/ x = BlobEntry(x.seq, x.at, x.old)
  PROVE  Preprocess(S) = Outcome(S)
<1> DEFINE Two(T) == \E e, d \in T : e # d
           Body(k) == [es \in SUBSET S |->
                         IF Two(es) THEN Merge(k[es \ {Oldest(es)}], Oldest(es))
                         ELSE Newest(es)]
           g == [es \in SUBSET S |-> IF Two(es) THEN Outcome(es) ELSE Newest(es)]
<1>1. \A T \in SUBSET S : Ordered(T, n)
  BY Zenon, OrderedSubset
<1>2. ASSUME NEW T \in SUBSET S, Two(T)
      PROVE  /\ Outcome(T) = Merge(Outcome(T \ {Oldest(T)}), Oldest(T))
             /\ T \ {Oldest(T)} \in SUBSET S /\ T \ {Oldest(T)} # {}
             /\ Oldest(T) \in T
  <2>1. PICK d \in T, e \in T : d # e
    BY Zenon, <1>2
  <2>2. \A x \in T : x = ValueEntry(x.seq, x.value) \/ x = BlobEntry(x.seq, x.at, x.old)
    BY Zenon
  <2>3. Ordered(T, n)
    BY Zenon, <1>1
  <2>4. Oldest(T) \in T
    BY ONLY OldestIs, n \in Nat, <2>3, <2>1, Zenon
  <2>5. Outcome(T) = Merge(Outcome(T \ {Oldest(T)}), Oldest(T))
    BY ONLY OutcomeStep, n \in Nat, <2>3, <2>1, <2>2, Zenon
  <2>6. d \in T \ {Oldest(T)} \/ e \in T \ {Oldest(T)}
    BY Zenon, <2>1
  <2> QED BY Zenon, <2>4, <2>5, <2>6
<1>3. ASSUME NEW T \in SUBSET S, T # {}, ~ Two(T) PROVE Newest(T) = Outcome(T)
  <2>1. PICK e \in T : T = {e}
    BY Zenon, <1>3
  <2> QED BY ONLY OutcomeOne, n \in Nat, <1>1, <2>1, T \in SUBSET S, Zenon
<1> HIDE DEF Two
<1>4. g = Body(g)
  <2>1. ASSUME NEW T \in SUBSET S, Two(T)
        PROVE  Outcome(T) = Merge(g[T \ {Oldest(T)}], Oldest(T))
    <3>1. T \ {Oldest(T)} \in SUBSET S /\ T \ {Oldest(T)} # {}
      BY Zenon, <1>2, <2>1
    <3>2. g[T \ {Oldest(T)}] = Outcome(T \ {Oldest(T)})
      BY Zenon, <3>1, <1>3
    <3> QED BY Zenon, <3>2, <1>2, <2>1
  <2> DEFINE A(es) == IF Two(es) THEN Outcome(es) ELSE Newest(es)
             B(es) == IF Two(es) THEN Merge(g[es \ {Oldest(es)}], Oldest(es))
                      ELSE Newest(es)
  <2>2. \A T \in SUBSET S : A(T) = B(T)
    BY Zenon, <2>1
  <2>3. g = [es \in SUBSET S |-> A(es)] /\ Body(g) = [es \in SUBSET S |-> B(es)]
    BY Zenon
  <2> HIDE DEF g, A, B
  <2> QED BY Zenon, <2>2, <2>3
<1>5. Preprocess(S) = (CHOOSE k : k = Body(k))[S]
  BY Zenon DEF Preprocess, Two
<1> DEFINE k == CHOOSE h : h = Body(h)
<1>6. k = Body(k)
  <2> HIDE DEF g, Body
  <2> QED BY Zenon, <1>4
<1> HIDE DEF k
<1>7. \A T \in SUBSET S : k[T] = IF Two(T) THEN Merge(k[T \ {Oldest(T)}], Oldest(T))
                                 ELSE Newest(T)
  BY Zenon, <1>6
<1> DEFINE Bad == {T \in SUBSET S : T # {} /\ k[T] # Outcome(T)}
           N == {Oldest(T).seq : T \in Bad}
<1>8. Bad = {}
  <2> SUFFICES ASSUME Bad # {} PROVE FALSE
    OBVIOUS
  <2>1. N \in SUBSET (0 .. n) /\ N # {}
    <3>1. ASSUME NEW T \in Bad PROVE Oldest(T).seq \in 0 .. n
      <4>1. Ordered(T, n) /\ T # {}
        BY Zenon, <1>1
      <4>2. Oldest(T) \in T
        BY ONLY OldestIs, n \in Nat, <4>1, Zenon
      <4>3. Oldest(T).seq \in Nat /\ Oldest(T).seq <= n
        BY Zenon, <4>1, <4>2 DEF Ordered
      <4> QED BY <4>3
    <3> HIDE DEF Bad
    <3> QED BY Zenon, <3>1
  <2>2. PICK m \in N : \A x \in N : x <= m
    <3> HIDE DEF N
    <3> QED BY ONLY <2>1, MaxExists, n \in Nat, Zenon
  <2>3. PICK T \in Bad : m = Oldest(T).seq
    BY Zenon, <2>2
  <2>4. T \in SUBSET S /\ T # {} /\ k[T] # Outcome(T)
    BY Zenon, <2>3
  <2>5. Two(T)
    BY Zenon, <2>4, <1>3, <1>7
  <2> DEFINE U == T \ {Oldest(T)}
  <2>6. U \in SUBSET S /\ U # {} /\ U \in SUBSET T
    BY Zenon, <2>4, <2>5, <1>2
  <2>7. Oldest(U).seq > Oldest(T).seq /\ Oldest(U).seq \in Nat /\ Oldest(T).seq \in Nat
    <3> HIDE DEF U
    <3>1. Ordered(U, n) /\ Ordered(T, n)
      BY Zenon, <1>1, <2>4, <2>6
    <3>2. Oldest(U) \in U
      BY ONLY OldestIs, n \in Nat, <3>1, <2>6, Zenon
    <3>3. Oldest(T) \in T /\ \A d \in T : d # Oldest(T) => d.seq > Oldest(T).seq
      BY ONLY OldestIs, n \in Nat, <3>1, <2>4, Zenon
    <3>4. Oldest(U) \in T /\ Oldest(U) # Oldest(T)
      BY Zenon, <3>2 DEF U
    <3> QED BY Zenon, <3>3, <3>4, <3>1 DEF Ordered
  <2>8. U \notin Bad
    <3> SUFFICES ASSUME U \in Bad PROVE FALSE
      OBVIOUS
    <3>1. Oldest(U).seq <= Oldest(T).seq
      BY Zenon, <2>2, <2>3
    <3> QED BY <3>1, <2>7
  <2>9. k[U] = Outcome(U)
    BY Zenon, <2>8, <2>6
  <2>10. k[T] = Merge(k[U], Oldest(T)) /\ Outcome(T) = Merge(Outcome(U), Oldest(T))
    BY Zenon, <2>4, <2>5, <1>7, <1>2
  <2> QED BY Zenon, <2>4, <2>9, <2>10
<1>9. k[S] = Outcome(S)
  BY Zenon, <1>8
<1> QED BY Zenon, <1>5, <1>9 DEF k

\* What becomes of the entries S of a key: a single index is kept as it is, a
\* value hides everything, and otherwise the newest index p is kept, with the
\* position of the next one, q, if p is a write-back of another record.
NewestValue(v, S) == v \in S /\ IsValue(v) /\ \A e \in S : IsValue(e) => e.seq <= v.seq
NewestTwo(p, q, S) ==
  /\ p \in S /\ q \in S /\ Top(p, S) /\ Over(p, q, S)
  /\ \A e \in S : IsIndex(e)
Chosen(p, q) ==
  BlobEntry(p.seq, IF p.old = None \/ p.old = q.at THEN p.at ELSE q.at, None)

\* What Preprocess keeps of the versions of a key.
LEMMA KeptIs ==
  ASSUME NEW n \in Nat, NEW S, Ordered(S, n), S # {},
         \A x \in S : x = ValueEntry(x.seq, x.value) \/ x = BlobEntry(x.seq, x.at, x.old)
  PROVE  LET r == Preprocess(S) IN
         \/ IsIndex(r) /\ S = {r}
         \/ NewestValue(r, S)
         \/ \E p, q \in S : NewestTwo(p, q, S) /\ r = Chosen(p, q)
<1> DEFINE V == {e \in S : IsValue(e)}
           p == Newest(S)
           B == S \ {p}
           q == Newest(B)
<1>1. Preprocess(S) = Outcome(S)
  BY Zenon, PreprocessIs
<1>2. \A x \in S : /\ IsValue(x) \/ IsIndex(x)
                   /\ IsIndex(x) => x = BlobEntry(x.seq, x.at, x.old)
  BY DEF IsValue, IsIndex, ValueEntry, BlobEntry
<1>3. Ordered(V, n) /\ Ordered(B, n)
  BY Zenon, OrderedSubset
<1>4. p \in S /\ Top(p, S)
  BY ONLY NewestIs, n \in Nat, Ordered(S, n), S # {}, Zenon
<1>5. CASE V # {}
  <2>1. Newest(V) \in V /\ Top(Newest(V), V)
    <3> HIDE DEF V
    <3> QED BY ONLY NewestIs, n \in Nat, <1>3, <1>5, Zenon
  <2>2. Outcome(S) = Newest(V)
    BY Zenon, <1>5 DEF Outcome
  <2> QED BY Zenon, <2>1, <2>2, <1>1 DEF NewestValue, Top
<1>6. CASE V = {} /\ S = {p}
  <2>1. Outcome(S) = p
    BY Zenon, <1>6 DEF Outcome
  <2> QED BY Zenon, <2>1, <1>1, <1>2, <1>4, <1>6
<1>7. CASE V = {} /\ S # {p}
  <2>1. \A e \in S : IsIndex(e)
    BY Zenon, <1>2, <1>7
  <2>2. B # {}
    BY Zenon, <1>7, <1>4
  <2>3. q \in B /\ Top(q, B)
    <3> HIDE DEF B
    <3> QED BY ONLY NewestIs, n \in Nat, <1>3, <2>2, Zenon
  <2>4. Over(p, q, S)
    <3>1. q \in S /\ q # p
      BY Zenon, <2>3
    <3>2. p.seq \in Nat /\ q.seq \in Nat /\ q.seq <= p.seq /\ q.seq # p.seq
      BY Zenon, <3>1, <1>4 DEF Ordered, Top
    <3>3. p.seq > q.seq
      BY <3>2
    <3>4. ASSUME NEW z \in S PROVE z.seq <= q.seq \/ z.seq >= p.seq
      <4>1. CASE z = p
        BY <4>1, <3>2
      <4>2. CASE z # p
        BY Zenon, <4>2, <2>3 DEF Top
      <4> QED BY Zenon, <4>1, <4>2
    <3> QED BY Zenon, <3>3, <3>4 DEF Over
  <2>5. NewestTwo(p, q, S)
    BY Zenon, <2>1, <2>3, <2>4, <1>4 DEF NewestTwo
  <2>6. Outcome(S) = IF p.old = None THEN p ELSE CheckBlobIndex(p, q)
    BY Zenon, <1>7 DEF Outcome
  <2>7. p = BlobEntry(p.seq, p.at, p.old)
    BY Zenon, <2>1, <1>2, <1>4
  <2>8. p.old = None => p = Chosen(p, q)
    BY Zenon, <2>7 DEF Chosen
  <2>9. p.old # None => CheckBlobIndex(p, q) = Chosen(p, q)
    BY Zenon DEF CheckBlobIndex, Chosen
  <2>10. Outcome(S) = Chosen(p, q)
    BY Zenon, <2>6, <2>8, <2>9
  <2>11. p \in S /\ q \in S
    BY Zenon, <2>5 DEF NewestTwo
  <2> QED BY Zenon, <2>5, <2>10, <2>11, <1>1
<1> QED BY Zenon, <1>5, <1>6, <1>7

-----------------------------------------------------------------------------
(* A flush, a compaction or a recovery puts one entry in the place of the  *)
(* entries S, which are neighbours in the tree.                            *)

\* t is in a blob file written now; R and R2 are the records before and after.
Separated(t, v, R, R2, C2) ==
  \E r \in R2 \ R : t = BlobEntry(v.seq, r, None) /\ Record(C2, r) = v.value

Replaced(S, t, R, R2, C2) ==
  \/ IsIndex(t) /\ S = {t}
  \/ \E v \in S : NewestValue(v, S) /\ (t = v \/ Separated(t, v, R, R2, C2))
  \/ \E p, q \in S : NewestTwo(p, q, S) /\ t = Chosen(p, q)

Neighbours(S, L) ==
  /\ S \subseteq L /\ S # {}
  /\ \A a, b \in S : \A c \in L : a.seq <= c.seq /\ c.seq <= b.seq => c \in S

Grows(R, C, R2, C2) ==
  /\ R \subseteq R2 /\ None \notin R2
  /\ \A r \in R : Record(C2, r) = Record(C, r)

Without(L, S, t) == (L \ S) \cup {t}

\* An entry of the tree is a value or an index, with the fields of its type.
LEMMA EntryIs ==
  ASSUME NEW R, NEW n \in Nat, NEW e, Entry(e, R, n)
  PROVE  /\ e.seq \in Nat
         /\ IsValue(e) \/ IsIndex(e)
         /\ IsValue(e) => /\ ~ IsIndex(e) /\ e = ValueEntry(e.seq, e.value)
                          /\ e.at = None /\ e.old = None
                          /\ e.value \in Nat /\ 1 <= e.value /\ e.value <= n
         /\ IsIndex(e) => /\ ~ IsValue(e) /\ e = BlobEntry(e.seq, e.at, e.old)
                          /\ e.at \in R /\ e.old \in R \cup {None}
BY DEF Entry, IsValue, IsIndex, ValueEntry, BlobEntry

\* An entry outside S is newer than all of S or older.
LEMMA Sides ==
  ASSUME NEW L, NEW S, Neighbours(S, L), \A e \in L : e.seq \in Nat,
         NEW x \in L, x \notin S
  PROVE  (\A s \in S : x.seq > s.seq) \/ (\A s \in S : x.seq < s.seq)
<1> SUFFICES ASSUME NEW a \in S, NEW b \in S, ~ (x.seq > a.seq), ~ (x.seq < b.seq)
             PROVE  FALSE
  BY Zenon
<1>1. a \in L /\ b \in L
  BY Zenon DEF Neighbours
<1>2. b.seq <= x.seq /\ x.seq <= a.seq
  BY <1>1
<1> QED BY Zenon, <1>1, <1>2 DEF Neighbours

\* The entry that replaces a segment has one of its sequence numbers, is no
\* write-back unless it was there alone, and names a record of the segment or
\* a new one.
LEMMA ReplacedIs ==
  ASSUME NEW L, NEW S, NEW t, NEW R, NEW R2, NEW C, NEW C2, NEW n \in Nat,
         LogTypes(L, R, n), Neighbours(S, L), Grows(R, C, R2, C2),
         Replaced(S, t, R, R2, C2)
  PROVE  /\ \E s \in S : t.seq = s.seq
         /\ S = {t} \/ t.old = None
         /\ Entry(t, R2, n)
         /\ IsIndex(t) => t.at \in R2 \ R \/ \E s \in S : IsIndex(s) /\ s.at = t.at
<1>0. \A e \in S : Entry(e, R, n)
  BY Zenon DEF LogTypes, Neighbours
<1>1. CASE IsIndex(t) /\ S = {t}
  <2>1. Entry(t, R, n)
    BY Zenon, <1>0, <1>1
  <2>2. t = BlobEntry(t.seq, t.at, t.old) /\ t.at \in R /\ t.old \in R \cup {None}
    BY Zenon, <2>1, <1>1, EntryIs
  <2>3. t.at \in R2 /\ t.old \in R2 \cup {None}
    BY Zenon, <2>2 DEF Grows
  <2>4. Entry(t, R2, n)
    BY Zenon, <2>1, <2>2, <2>3 DEF Entry
  <2> QED BY Zenon, <2>4, <1>1
<1>2. ASSUME NEW v \in S, NewestValue(v, S), t = v
      PROVE  /\ \E s \in S : t.seq = s.seq
             /\ t.old = None
             /\ Entry(t, R2, n)
             /\ ~ IsIndex(t)
  <2>1. Entry(t, R, n) /\ IsValue(t)
    BY Zenon, <1>0, <1>2 DEF NewestValue
  <2>2. t.old = None /\ ~ IsIndex(t) /\ t = ValueEntry(t.seq, t.value)
        /\ 1 <= t.value /\ t.value <= n
    BY Zenon, <2>1, EntryIs
  <2>3. Entry(t, R2, n)
    BY Zenon, <2>1, <2>2 DEF Entry
  <2> QED BY Zenon, <2>2, <2>3, <1>2
<1>3. ASSUME NEW v \in S, NEW r \in R2 \ R, t = BlobEntry(v.seq, r, None)
      PROVE  /\ \E s \in S : t.seq = s.seq
             /\ t.old = None
             /\ Entry(t, R2, n)
             /\ t.at \in R2 \ R
  <2>1. t.seq = v.seq /\ t.at = r /\ t.old = None /\ t.value = 0
    BY <1>3 DEF BlobEntry
  <2>2. v.seq \in Nat
    BY Zenon, <1>0 DEF Entry
  <2>3. Entry(t, R2, n)
    BY <2>1, <2>2, <1>3 DEF Entry
  <2> QED BY Zenon, <2>1, <2>3
<1>4. ASSUME NEW p \in S, NEW q \in S, NewestTwo(p, q, S), t = Chosen(p, q)
      PROVE  /\ \E s \in S : t.seq = s.seq
             /\ t.old = None
             /\ Entry(t, R2, n)
             /\ \E s \in S : IsIndex(s) /\ s.at = t.at
  <2>1. /\ t.seq = p.seq /\ t.old = None /\ t.value = 0
        /\ t.at = IF p.old = None \/ p.old = q.at THEN p.at ELSE q.at
        /\ t = BlobEntry(t.seq, t.at, t.old)
    BY <1>4 DEF Chosen, BlobEntry
  <2>2. IsIndex(p) /\ IsIndex(q) /\ Entry(p, R, n) /\ Entry(q, R, n)
    BY Zenon, <1>4, <1>0 DEF NewestTwo
  <2>3. p.at \in R2 /\ q.at \in R2 /\ p.seq \in Nat
    BY Zenon, <2>2, EntryIs DEF Grows
  <2>4. t.at \in R2 /\ (t.at = p.at \/ t.at = q.at)
    BY Zenon, <2>1, <2>3
  <2>5. Entry(t, R2, n)
    BY <2>1, <2>3, <2>4 DEF Entry
  <2> QED BY Zenon, <2>1, <2>2, <2>4, <2>5
<1> QED BY Zenon, <1>1, <1>2, <1>3, <1>4 DEF Replaced, Separated

\* Replacing a segment keeps the entries apart, and the positions of the
\* segment that the new entry does not hold are gone from the tree.
LEMMA ReplaceTypes ==
  ASSUME NEW L, NEW S, NEW t, NEW R, NEW R2, NEW C, NEW C2, NEW n \in Nat,
         LogTypes(L, R, n), Neighbours(S, L), Grows(R, C, R2, C2),
         Replaced(S, t, R, R2, C2)
  PROVE  LET M == Without(L, S, t) IN
         /\ LogTypes(M, R2, n)
         /\ \A r \in Indexes(M) : r \in Indexes(L) \/ r \in R2 \ R
         /\ \A r \in Indexes(S) : r # t.at => r \notin Indexes(M)
<1> DEFINE M == Without(L, S, t)
<1>1. /\ \A e \in L : Entry(e, R, n)
      /\ \A d, e \in L : d.seq = e.seq => d = e
      /\ \A d, e \in L : IsIndex(d) /\ IsIndex(e) /\ d.at = e.at => d = e
  BY Zenon DEF LogTypes
<1>2. S \subseteq L
  BY Zenon DEF Neighbours
<1>3. /\ \E s \in S : t.seq = s.seq
      /\ Entry(t, R2, n)
      /\ IsIndex(t) => t.at \in R2 \ R \/ \E s \in S : IsIndex(s) /\ s.at = t.at
  BY ONLY ReplacedIs, n \in Nat, LogTypes(L, R, n), Neighbours(S, L),
          Grows(R, C, R2, C2), Replaced(S, t, R, R2, C2)
<1>4. \A x \in M : x = t \/ (x \in L /\ x \notin S)
  BY Zenon DEF Without
<1>5. \A e \in L : IsIndex(e) => e.at \in R
  BY Zenon, <1>1, EntryIs
<1> HIDE DEF M
<1>6. ASSUME NEW e \in M PROVE Entry(e, R2, n)
  <2>1. CASE e = t
    BY Zenon, <2>1, <1>3
  <2>2. CASE e \in L
    BY Zenon, <2>2, <1>1 DEF Entry, Grows
  <2> QED BY Zenon, <2>1, <2>2, <1>4
<1>7. ASSUME NEW x \in L, x \notin S PROVE x.seq # t.seq /\ (IsIndex(x) /\ IsIndex(t) => x.at # t.at)
  BY Zenon, <1>7, <1>1, <1>2, <1>3, <1>5
<1>8. \A d, e \in M : d.seq = e.seq => d = e
  BY Zenon, <1>4, <1>7, <1>1
<1>9. \A d, e \in M : IsIndex(d) /\ IsIndex(e) /\ d.at = e.at => d = e
  BY Zenon, <1>4, <1>7, <1>1
<1>10. LogTypes(M, R2, n)
  BY Zenon, <1>6, <1>8, <1>9 DEF LogTypes
<1>11. \A r : r \in Indexes(M) <=> \E e \in M : IsIndex(e) /\ r = e.at
  BY Zenon DEF Indexes, IsIndex
<1>12. \A r : r \in Indexes(L) <=> \E e \in L : IsIndex(e) /\ r = e.at
  BY Zenon DEF Indexes, IsIndex
<1>13. \A r : r \in Indexes(S) <=> \E e \in S : IsIndex(e) /\ r = e.at
  BY Zenon DEF Indexes, IsIndex
<1>14. ASSUME NEW r \in Indexes(M) PROVE r \in Indexes(L) \/ r \in R2 \ R
  <2>1. PICK e \in M : IsIndex(e) /\ r = e.at
    BY Zenon, <1>11
  <2>2. CASE e = t
    BY Zenon, <2>1, <2>2, <1>2, <1>3, <1>12
  <2>3. CASE e \in L
    BY Zenon, <2>1, <2>3, <1>12
  <2> QED BY Zenon, <2>2, <2>3, <1>4
<1>15. ASSUME NEW r \in Indexes(S), r # t.at PROVE r \notin Indexes(M)
  <2>1. PICK s \in S : IsIndex(s) /\ r = s.at
    BY Zenon, <1>13
  <2>2. SUFFICES ASSUME NEW e \in M, IsIndex(e), r = e.at PROVE FALSE
    BY Zenon, <1>11
  <2>3. e \in L /\ e \notin S
    BY Zenon, <2>2, <1>15, <1>4
  <2>4. e = s
    BY Zenon, <2>1, <2>2, <2>3, <1>1, <1>2
  <2> QED BY Zenon, <2>3, <2>4
<1> QED BY Zenon, <1>10, <1>14, <1>15 DEF M

\* What hid an entry for good still does.
LEMMA ReplaceCovered ==
  ASSUME NEW L, NEW S, NEW t, NEW R, NEW R2, NEW C, NEW C2, NEW n \in Nat,
         LogTypes(L, R, n), Neighbours(S, L), Grows(R, C, R2, C2),
         Replaced(S, t, R, R2, C2),
         NEW e \in Without(L, S, t), IsIndex(e), e.at \in R
  PROVE  \E d \in L : /\ IsIndex(d) /\ d.at = e.at
                      /\ Covered(d, L) => Covered(e, Without(L, S, t))
<1> DEFINE M == Without(L, S, t)
<1>1. /\ \A x \in L : Entry(x, R, n) /\ x.seq \in Nat
      /\ \A x, y \in L : x.seq = y.seq => x = y
  BY Zenon, EntryIs DEF LogTypes
<1>2. S \subseteq L
  BY Zenon DEF Neighbours
<1>3. /\ \A x \in M : x = t \/ (x \in L /\ x \notin S)
      /\ \A x \in L : x \notin S => x \in M
      /\ t \in M
  BY Zenon DEF Without
<1>4. PICK u \in S : t.seq = u.seq
  BY ONLY ReplacedIs, n \in Nat, LogTypes(L, R, n), Neighbours(S, L),
          Grows(R, C, R2, C2), Replaced(S, t, R, R2, C2)
<1>5. S = {t} \/ t.old = None
  BY ONLY ReplacedIs, n \in Nat, LogTypes(L, R, n), Neighbours(S, L),
          Grows(R, C, R2, C2), Replaced(S, t, R, R2, C2)
<1>6. \A x \in L : x \notin S => (\A s \in S : x.seq > s.seq) \/ (\A s \in S : x.seq < s.seq)
  BY Zenon, <1>1, Sides
<1>7. t.seq \in Nat
  BY Zenon, <1>1, <1>2, <1>4
<1>8. CASE S = {t}
  <2>1. M = L
    BY Zenon, <1>8, <1>2 DEF Without
  <2> QED BY Zenon, <2>1
<1> HIDE DEF M
<1>9. CASE S # {t} /\ e # t
  <2>1. e \in L /\ e \notin S
    BY Zenon, <1>9, <1>3 DEF M
  <2>2. ASSUME Covered(e, L) PROVE Covered(e, M)
    <3>1. PICK c \in L : c.seq > e.seq /\ (c.old = None \/ c.old = e.at)
      BY Zenon, <2>2 DEF Covered
    <3>2. CASE c \notin S
      BY Zenon, <3>1, <3>2, <1>3 DEF Covered
    <3>3. CASE c \in S
      <4>1. ~ (e.seq > c.seq)
        BY <3>1, <2>1, <1>1
      <4>2. e.seq < t.seq
        BY Zenon, <4>1, <3>3, <2>1, <1>6, <1>4
      <4>3. t.seq > e.seq
        BY <4>2, <2>1, <1>1, <1>7
      <4> QED BY Zenon, <4>3, <1>5, <1>9, <1>3 DEF Covered
    <3> QED BY Zenon, <3>2, <3>3
  <2> QED BY Zenon, <2>1, <2>2 DEF M
<1>10. CASE S # {t} /\ e = t
  <2>1. PICK p \in S, q \in S : NewestTwo(p, q, S) /\ t = Chosen(p, q)
    <3>1. ASSUME NEW v \in S, NewestValue(v, S), t = v \/ Separated(t, v, R, R2, C2)
          PROVE  FALSE
      <4>1. IsValue(v) /\ ~ IsIndex(v)
        BY Zenon, <3>1, <1>1, <1>2, EntryIs DEF NewestValue
      <4>2. Separated(t, v, R, R2, C2)
        BY Zenon, <4>1, <3>1, <1>10
      <4>3. PICK r \in R2 \ R : t = BlobEntry(v.seq, r, None)
        BY Zenon, <4>2 DEF Separated
      <4>4. t.at = r
        BY <4>3 DEF BlobEntry
      <4> QED BY Zenon, <4>4, <4>3, <1>10
    <3> QED BY Zenon, <3>1, <1>10 DEF Replaced
  <2>2. /\ t.seq = p.seq /\ t.old = None
        /\ t.at = IF p.old = None \/ p.old = q.at THEN p.at ELSE q.at
    BY <2>1 DEF Chosen, BlobEntry
  <2>3. IsIndex(p) /\ IsIndex(q) /\ Top(p, S) /\ Over(p, q, S)
    BY Zenon, <2>1 DEF NewestTwo
  <2>4. ASSUME NEW c \in L, c.seq > p.seq PROVE c \in M
    <3>1. c \notin S
      <4> SUFFICES ASSUME c \in S PROVE FALSE
        OBVIOUS
      <4>1. c.seq <= p.seq
        BY Zenon, <2>3 DEF Top
      <4> QED BY <4>1, <2>4, <1>1, <1>2
    <3> QED BY Zenon, <3>1, <1>3
  <2>5. CASE t.at = p.at
    <3>1. ASSUME Covered(p, L) PROVE Covered(t, M)
      BY Zenon, <3>1, <2>4, <2>5, <2>2 DEF Covered
    <3> QED BY Zenon, <3>1, <2>5, <2>3, <1>2, <1>10 DEF M
  <2>6. CASE t.at # p.at
    <3>1. t.at = q.at /\ p.old # None /\ p.old # q.at
      BY Zenon, <2>6, <2>2
    <3>2. ASSUME Covered(q, L) PROVE Covered(t, M)
      <4>1. PICK c \in L : c.seq > q.seq /\ (c.old = None \/ c.old = q.at)
        BY Zenon, <3>2 DEF Covered
      <4>2. c # p
        BY Zenon, <4>1, <3>1
      <4>3. c.seq > p.seq
        <5>1. CASE c \in S
          <6>1. c.seq <= q.seq \/ c.seq >= p.seq
            BY Zenon, <5>1, <2>3 DEF Over
          <6>2. c.seq # p.seq
            BY Zenon, <4>2, <1>1, <1>2
          <6>3. c.seq \in Nat /\ p.seq \in Nat /\ q.seq \in Nat
            BY Zenon, <1>1, <1>2
          <6> QED BY <6>1, <6>2, <6>3, <4>1
        <5>2. CASE c \notin S
          <6>1. ~ (c.seq < q.seq)
            BY <4>1, <1>1, <1>2
          <6> QED BY Zenon, <6>1, <5>2, <1>6
        <5> QED BY Zenon, <5>1, <5>2
      <4>4. c \in M /\ c.seq > t.seq
        BY Zenon, <4>3, <2>4, <2>2
      <4> QED BY Zenon, <4>1, <4>4, <3>1 DEF Covered
    <3> QED BY Zenon, <3>1, <3>2, <2>3, <1>2, <1>10 DEF M
  <2> QED BY Zenon, <2>5, <2>6
<1> QED BY Zenon, <1>8, <1>9, <1>10

\* Records that are written later do not change the value of an entry.
LEMMA ValKept ==
  ASSUME NEW R, NEW R2, NEW C, NEW C2, NEW n \in Nat, Grows(R, C, R2, C2),
         NEW e, Entry(e, R, n)
  PROVE  Val(e, C2) = Val(e, C)
<1>1. IsValue(e) \/ e.at \in R
  BY Zenon, EntryIs
<1> QED BY Zenon, <1>1 DEF Val, Grows

\* The next older entry in S is the next older one of all.
LEMMA OverAll ==
  ASSUME NEW L, NEW S, Neighbours(S, L), \A e \in L : e.seq \in Nat,
         NEW p \in S, NEW q \in S, Over(p, q, S)
  PROVE  Over(p, q, L)
<1>1. S \subseteq L
  BY Zenon DEF Neighbours
<1>2. ASSUME NEW z \in L PROVE z.seq <= q.seq \/ z.seq >= p.seq
  <2>1. CASE z \in S
    BY Zenon, <2>1 DEF Over
  <2>2. CASE z \notin S
    <3>1. z.seq > p.seq \/ z.seq < q.seq
      BY Zenon, <2>2, Sides
    <3> QED BY <3>1, <1>1
  <2> QED BY Zenon, <2>1, <2>2
<1> QED BY Zenon, <1>2 DEF Over

\* Nothing but an index is below the entries that are merged.
Bottom(S, L) == \A y \in L : y \notin S /\ (\A s \in S : y.seq < s.seq) => IsIndex(y)

\* Replacing a segment keeps a chain of relocations.
LEMMA ReplaceChain ==
  ASSUME NEW L, NEW S, NEW t, NEW R, NEW R2, NEW C, NEW C2, NEW n \in Nat,
         LogTypes(L, R, n), Neighbours(S, L), Grows(R, C, R2, C2),
         Replaced(S, t, R, R2, C2), IsIndex(t), Bottom(S, L), NEW m,
         Chain(L, C, m)
  PROVE  Chain(Without(L, S, t), C2, m)
<1> DEFINE M == Without(L, S, t)
<1>1. /\ \A x \in L : Entry(x, R, n) /\ x.seq \in Nat
      /\ \A x, y \in L : x.seq = y.seq => x = y
      /\ \A x \in L : IsValue(x) => x.old = None
      /\ \A x \in L : IsValue(x) \/ IsIndex(x)
  BY Zenon, EntryIs DEF LogTypes
<1>2. S \subseteq L /\ S # {}
  BY Zenon DEF Neighbours
<1>3. /\ \A x \in M : x = t \/ (x \in L /\ x \notin S)
      /\ \A x \in L : x \notin S => x \in M
      /\ t \in M
  BY Zenon DEF Without
<1>4. /\ \E s \in S : t.seq = s.seq
      /\ S = {t} \/ t.old = None
      /\ Entry(t, R2, n)
  BY ONLY ReplacedIs, n \in Nat, LogTypes(L, R, n), Neighbours(S, L),
          Grows(R, C, R2, C2), Replaced(S, t, R, R2, C2)
<1>5. PICK u \in S : t.seq = u.seq
  BY Zenon, <1>4
<1>6. \A x \in L : x \notin S => (\A s \in S : x.seq > s.seq) \/ (\A s \in S : x.seq < s.seq)
  BY Zenon, <1>1, Sides
<1>7. t.seq \in Nat /\ ~ IsValue(t)
  <2>1. ~ IsValue(t)
    BY Zenon, <1>4, EntryIs
  <2> QED BY Zenon, <1>1, <1>2, <1>5, <2>1
<1>8. /\ \A x, y \in L : Over(x, y, L) /\ x.old # None => x.old = y.at
      /\ \A x, y \in L : x.seq > y.seq /\ IsValue(y) => IsValue(x)
      /\ \A h \in L : Top(h, L) => Val(h, C) = m
  BY Zenon DEF Chain
<1>9. \A x \in L : Val(x, C2) = Val(x, C)
  BY ONLY <1>1, ValKept, Grows(R, C, R2, C2), n \in Nat
<1>10. CASE S = {t}
  <2>1. M = L
    BY Zenon, <1>10, <1>2 DEF Without
  <2> QED BY Zenon, <2>1, <1>8, <1>9 DEF Chain
<1> HIDE DEF M
<1>11. CASE S # {t}
  \* Newer than t is newer than all of S.
  <2>1. ASSUME NEW x \in L, x \notin S
        PROVE  /\ x.seq > t.seq => \A s \in S : x.seq > s.seq
               /\ x.seq < t.seq => \A s \in S : x.seq < s.seq
               /\ x.seq # t.seq
    <3>1. ASSUME x.seq > t.seq, \A s \in S : x.seq < s.seq PROVE FALSE
      <4>1. x.seq < t.seq
        BY Zenon, <3>1, <1>5
      <4> QED BY <4>1, <3>1, <1>1, <1>7
    <3>2. ASSUME x.seq < t.seq, \A s \in S : x.seq > s.seq PROVE FALSE
      <4>1. x.seq > t.seq
        BY Zenon, <3>2, <1>5
      <4> QED BY <4>1, <3>2, <1>1, <1>7
    <3>3. x.seq # t.seq
      BY Zenon, <1>1, <1>2, <1>5, <2>1
    <3> QED BY Zenon, <3>1, <3>2, <3>3, <1>6, <2>1
  \* The two ways to keep an entry.
  <2>2. \/ \E v \in S : NewestValue(v, S) /\ Val(t, C2) = v.value /\ t.seq = v.seq
        \/ \E p, q \in S : NewestTwo(p, q, S) /\ t.at = p.at /\ t.seq = p.seq
    <3>1. ASSUME NEW v \in S, NewestValue(v, S), t = v PROVE FALSE
      BY Zenon, <3>1, <1>7 DEF NewestValue
    <3>2. ASSUME NEW v \in S, Separated(t, v, R, R2, C2)
          PROVE  Val(t, C2) = v.value /\ t.seq = v.seq
      <4>1. PICK r \in R2 \ R : t = BlobEntry(v.seq, r, None) /\ Record(C2, r) = v.value
        BY Zenon, <3>2 DEF Separated
      <4>2. t.at = r /\ t.seq = v.seq
        BY <4>1 DEF BlobEntry
      <4> QED BY Zenon, <4>1, <4>2, <1>7 DEF Val
    <3>3. ASSUME NEW p \in S, NEW q \in S, NewestTwo(p, q, S), t = Chosen(p, q)
          PROVE  t.at = p.at /\ t.seq = p.seq
      <4>1. Over(p, q, S)
        BY Zenon, <3>3 DEF NewestTwo
      <4>2. Over(p, q, L)
        BY Zenon, <4>1, <1>1, OverAll
      <4>3. p.old = None \/ p.old = q.at
        BY Zenon, <4>2, <1>8, <1>2
      <4>4. /\ t.seq = p.seq
            /\ t.at = IF p.old = None \/ p.old = q.at THEN p.at ELSE q.at
        BY <3>3 DEF Chosen, BlobEntry
      <4> QED BY Zenon, <4>3, <4>4
    <3> QED BY Zenon, <3>1, <3>2, <3>3, <1>11 DEF Replaced
  <2>3. ASSUME NEW x \in M, NEW y \in M, Over(x, y, M), x.old # None
        PROVE  x.old = y.at
    <3>1. x \in L /\ x \notin S
      BY Zenon, <2>3, <1>3, <1>4, <1>11
    <3>2. x.seq > y.seq /\ \A z \in M : z.seq <= y.seq \/ z.seq >= x.seq
      BY Zenon, <2>3 DEF Over
    <3>3. CASE y # t
      <4>1. y \in L /\ y \notin S
        BY Zenon, <3>3, <1>3
      <4>2. ASSUME NEW z \in L PROVE z.seq <= y.seq \/ z.seq >= x.seq
        <5>1. CASE z \notin S
          BY Zenon, <5>1, <3>2, <1>3
        <5>2. CASE z \in S
          <6>1. t.seq <= y.seq \/ t.seq >= x.seq
            BY Zenon, <3>2, <1>3
          <6>2. t.seq # y.seq /\ t.seq # x.seq
            BY Zenon, <2>1, <3>1, <4>1
          <6>3. y.seq > t.seq \/ x.seq < t.seq
            BY <6>1, <6>2, <1>1, <1>7, <3>1, <4>1
          <6>4. y.seq > z.seq \/ x.seq < z.seq
            BY Zenon, <6>3, <2>1, <3>1, <4>1, <5>2
          <6> QED BY <6>4, <1>1, <3>1, <4>1
        <5> QED BY Zenon, <5>1, <5>2
      <4> QED BY Zenon, <3>1, <3>2, <4>1, <4>2, <1>8, <2>3 DEF Over
    <3>4. CASE y = t
      <4>1. \A s \in S : x.seq > s.seq
        BY Zenon, <3>1, <3>2, <3>4, <2>1
      <4>2. ASSUME NEW v \in S, IsValue(v) PROVE FALSE
        BY Zenon, <4>2, <4>1, <3>1, <1>8, <1>1, <1>2, <2>3
      <4>3. PICK p \in S : Top(p, S) /\ t.at = p.at /\ t.seq = p.seq
        BY Zenon, <2>2, <4>2 DEF NewestTwo, NewestValue
      <4>4. ASSUME NEW z \in L PROVE z.seq <= p.seq \/ z.seq >= x.seq
        BY Zenon, <4>3, <3>2, <3>4, <1>3 DEF Top
      <4>5. Over(x, p, L)
        BY Zenon, <4>4, <4>1 DEF Over
      <4> QED BY Zenon, <4>5, <4>3, <3>1, <3>4, <1>8, <1>2, <2>3
    <3> QED BY Zenon, <3>3, <3>4
  <2>4. ASSUME NEW x \in M, NEW y \in M, x.seq > y.seq, IsValue(y) PROVE IsValue(x)
    <3>1. y \in L /\ y \notin S
      BY Zenon, <2>4, <1>3, <1>7
    <3>2. CASE x # t
      BY Zenon, <3>2, <3>1, <2>4, <1>3, <1>8
    <3>3. CASE x = t
      <4>1. y.seq < t.seq
        BY <3>3, <2>4, <3>1, <1>1, <1>7
      <4>2. IsIndex(y)
        BY Zenon, <4>1, <2>1, <3>1 DEF Bottom
      <4> QED BY Zenon, <4>2, <3>1, <2>4, <1>1, EntryIs
    <3> QED BY Zenon, <3>2, <3>3
  <2>5. ASSUME NEW h \in M, Top(h, M) PROVE Val(h, C2) = m
    <3>1. \A z \in M : z.seq <= h.seq
      BY Zenon, <2>5 DEF Top
    <3>2. CASE h # t
      <4>1. h \in L /\ h \notin S
        BY Zenon, <3>2, <1>3
      <4>2. t.seq <= h.seq /\ h.seq # t.seq
        BY Zenon, <3>1, <1>3, <4>1, <2>1
      <4>3. h.seq > t.seq
        BY <4>2, <4>1, <1>1, <1>7
      <4>4. \A s \in S : h.seq > s.seq
        BY Zenon, <4>3, <4>1, <2>1
      <4>5. \A s \in S : s.seq <= h.seq
        BY <4>4, <4>1, <1>1, <1>2
      <4>6. Top(h, L)
        BY Zenon, <4>5, <3>1, <1>3 DEF Top
      <4> QED BY Zenon, <4>6, <4>1, <1>8, <1>9
    <3>3. CASE h = t
      <4>1. ASSUME NEW p \in S, t.seq = p.seq, Top(p, S) PROVE Top(p, L)
        BY Zenon, <4>1, <3>1, <3>3, <1>3 DEF Top
      <4>2. ASSUME NEW v \in S, NewestValue(v, S) PROVE Top(v, S)
        <5>1. ASSUME NEW s \in S PROVE s.seq <= v.seq
          <6>1. s.seq > v.seq => s.seq <= v.seq
            BY Zenon, <4>2, <1>8, <1>2 DEF NewestValue
          <6> QED BY <6>1, <1>1, <1>2
        <5> QED BY Zenon, <5>1 DEF Top
      <4>3. ASSUME NEW v \in S, NewestValue(v, S), Val(t, C2) = v.value, t.seq = v.seq
            PROVE  Val(t, C2) = m
        <5>1. Val(v, C) = m
          BY Zenon, <4>3, <4>1, <4>2, <1>8, <1>2
        <5> QED BY Zenon, <5>1, <4>3 DEF Val, NewestValue
      <4>4. ASSUME NEW p \in S, NEW q \in S, NewestTwo(p, q, S), t.at = p.at, t.seq = p.seq
            PROVE  Val(t, C2) = m
        <5>1. Val(p, C2) = m
          BY Zenon, <4>4, <4>1, <1>8, <1>9, <1>2 DEF NewestTwo
        <5>2. ~ IsValue(p)
          BY Zenon, <4>4, <1>1, <1>2, EntryIs DEF NewestTwo
        <5> QED BY Zenon, <5>1, <5>2, <4>4, <1>7 DEF Val
      <4> QED BY Zenon, <4>3, <4>4, <2>2, <3>3
    <3> QED BY Zenon, <3>2, <3>3
  <2> QED BY Zenon, <2>3, <2>4, <2>5 DEF Chain, M
<1> QED BY Zenon, <1>10, <1>11

\* The newest entry that is no write-back.
LEMMA NewestPlain ==
  ASSUME NEW n \in Nat, NEW L, Ordered(L, n), \E h \in L : h.old = None
  PROVE  \E h \in L : h.old = None /\ \A x \in Above(h, L) : x.old # None
<1> DEFINE P == {h \in L : h.old = None}
           h == Newest(P)
<1>1. Ordered(P, n) /\ P # {}
  BY Zenon, OrderedSubset
<1>2. h \in P /\ Top(h, P)
  <2> HIDE DEF P
  <2> QED BY ONLY NewestIs, n \in Nat, <1>1, Zenon
<1> HIDE DEF h
<1>3. ASSUME NEW x \in Above(h, L) PROVE x.old # None
  <2> SUFFICES ASSUME x.old = None PROVE FALSE
    OBVIOUS
  <2>1. x \in L /\ x.seq > h.seq /\ x.seq <= h.seq
    BY Zenon, <1>2 DEF Above, Top
  <2>2. x.seq \in Nat /\ h.seq \in Nat
    BY Zenon, <2>1, <1>2 DEF Ordered
  <2> QED BY <2>1, <2>2
<1> QED BY Zenon, <1>2, <1>3

\* A write-back never relocates a value.
LEMMA NoneAboveValue ==
  ASSUME NEW L, NEW n \in Nat, Ordered(L, n), NEW v \in L, v.at = None,
         \A x \in Above(v, L) : x.old # None /\ \E y \in L : Over(x, y, L) /\ x.old = y.at
  PROVE  Above(v, L) = {}
<1> SUFFICES ASSUME Above(v, L) # {} PROVE FALSE
  OBVIOUS
<1> DEFINE x == Oldest(Above(v, L))
<1>1. Above(v, L) \in SUBSET L
  BY Zenon DEF Above
<1>2. Ordered(Above(v, L), n)
  BY Zenon, <1>1, OrderedSubset
<1>3. x \in Above(v, L) /\ \A d \in Above(v, L) : d # x => d.seq > x.seq
  BY ONLY OldestIs, n \in Nat, <1>2, Above(v, L) # {}, Zenon
<1> HIDE DEF x
<1>4. PICK y \in L : Over(x, y, L) /\ x.old = y.at
  BY Zenon, <1>3
<1>5. x.seq > y.seq /\ (v.seq <= y.seq \/ v.seq >= x.seq) /\ x.seq > v.seq
  BY Zenon, <1>4, <1>3 DEF Over, Above
<1>6. x.seq \in Nat /\ y.seq \in Nat /\ v.seq \in Nat
  BY Zenon, <1>3, <1>1 DEF Ordered
<1>7. CASE y \in Above(v, L)
  <2>1. y = x \/ y.seq > x.seq
    BY Zenon, <1>7, <1>3
  <2> QED BY <2>1, <1>5, <1>6
<1>8. CASE y \notin Above(v, L)
  <2>1. ~ (y.seq > v.seq)
    BY Zenon, <1>8 DEF Above
  <2>2. y.seq = v.seq
    BY <2>1, <1>5, <1>6
  <2>3. y = v
    BY Zenon, <2>2 DEF Ordered
  <2> QED BY Zenon, <2>3, <1>4, <1>3
<1> QED BY Zenon, <1>7, <1>8

\* Replacing a segment keeps what is said of a late write-back.
LEMMA ReplaceRecon ==
  ASSUME NEW L, NEW S, NEW t, NEW R, NEW R2, NEW C, NEW C2, NEW n \in Nat, n > 0,
         LogTypes(L, R, n), Neighbours(S, L), Grows(R, C, R2, C2),
         Replaced(S, t, R, R2, C2), IsIndex(t), Bottom(S, L), NEW b \in Nat,
         Ordered(L, b), Recon(L, C, n)
  PROVE  Recon(Without(L, S, t), C2, n)
<1> DEFINE M == Without(L, S, t)
<1>1. /\ \A x \in L : Entry(x, R, n) /\ x.seq \in Nat
      /\ \A x, y \in L : x.seq = y.seq => x = y
      /\ \A x \in L : IsValue(x) => x.old = None /\ x.at = None
      /\ \A x \in L : IsIndex(x) => ~ IsValue(x) /\ x.old \in R \cup {None}
      /\ \A x \in L : IsValue(x) \/ IsIndex(x)
  BY Zenon, EntryIs DEF LogTypes
<1>2. S \subseteq L /\ S # {}
  BY Zenon DEF Neighbours
<1>3. /\ \A x \in M : x = t \/ (x \in L /\ x \notin S)
      /\ \A x \in L : x \notin S => x \in M
      /\ t \in M
  BY Zenon DEF Without
<1>4. /\ \E s \in S : t.seq = s.seq
      /\ S = {t} \/ t.old = None
      /\ Entry(t, R2, n)
  BY ONLY ReplacedIs, n \in Nat, LogTypes(L, R, n), Neighbours(S, L),
          Grows(R, C, R2, C2), Replaced(S, t, R, R2, C2)
<1>5. PICK u \in S : t.seq = u.seq
  BY Zenon, <1>4
<1>6. \A x \in L : x \notin S => (\A s \in S : x.seq > s.seq) \/ (\A s \in S : x.seq < s.seq)
  BY Zenon, <1>1, Sides
<1>7. t.seq \in Nat /\ ~ IsValue(t)
  <2>1. ~ IsValue(t)
    BY Zenon, <1>4, EntryIs
  <2> QED BY Zenon, <1>1, <1>2, <1>5, <2>1
<1>8. /\ \A x, y \in L : x.seq > y.seq /\ IsValue(y) => IsValue(x) \/ x.old # None
      /\ \A h \in L : h.old = None /\ (\A x \in Above(h, L) : x.old # None) =>
           Val(h, C) = n /\ (Late(h, L) \/ Relocated(h, L, C, n))
      /\ \E h \in L : h.old = None
  BY Zenon DEF Recon
<1>9. \A x \in L : Val(x, C2) = Val(x, C)
  BY ONLY <1>1, ValKept, Grows(R, C, R2, C2), n \in Nat
<1>10. CASE S = {t}
  <2>1. M = L
    BY Zenon, <1>10, <1>2 DEF Without
  <2>2. \A h \in L : Relocated(h, L, C, n) => Relocated(h, L, C2, n)
    BY Zenon, <1>9 DEF Relocated, Above
  <2> QED BY Zenon, <2>1, <2>2, <1>8, <1>9 DEF Recon
<1> HIDE DEF M
<1>11. CASE S # {t}
  <2>0. t.old = None
    BY Zenon, <1>4, <1>11
  \* Newer than t is newer than all of S.
  <2>1. ASSUME NEW x \in L, x \notin S
        PROVE  /\ x.seq > t.seq => \A s \in S : x.seq > s.seq
               /\ x.seq < t.seq => \A s \in S : x.seq < s.seq
               /\ x.seq # t.seq
    <3>1. ASSUME x.seq > t.seq, \A s \in S : x.seq < s.seq PROVE FALSE
      <4>1. x.seq < t.seq
        BY Zenon, <3>1, <1>5
      <4> QED BY <4>1, <3>1, <1>1, <1>7
    <3>2. ASSUME x.seq < t.seq, \A s \in S : x.seq > s.seq PROVE FALSE
      <4>1. x.seq > t.seq
        BY Zenon, <3>2, <1>5
      <4> QED BY <4>1, <3>2, <1>1, <1>7
    <3>3. x.seq # t.seq
      BY Zenon, <1>1, <1>2, <1>5, <2>1
    <3> QED BY Zenon, <3>1, <3>2, <3>3, <1>6, <2>1
  <2>2. ASSUME NEW x \in M, NEW y \in M, x.seq > y.seq, IsValue(y)
        PROVE  IsValue(x) \/ x.old # None
    <3>1. y \in L /\ y \notin S
      BY Zenon, <2>2, <1>3, <1>7
    <3>2. CASE x # t
      BY Zenon, <3>2, <3>1, <2>2, <1>3, <1>8
    <3>3. CASE x = t
      <4>1. y.seq < t.seq
        BY <3>3, <2>2, <3>1, <1>1, <1>7
      <4>2. IsIndex(y)
        BY Zenon, <4>1, <2>1, <3>1 DEF Bottom
      <4> QED BY Zenon, <4>2, <3>1, <2>2, <1>1
    <3> QED BY Zenon, <3>2, <3>3
  <2>3. ASSUME NEW h \in M, h # t, h.old = None, \A x \in Above(h, M) : x.old # None
        PROVE  Val(h, C2) = n /\ (Late(h, M) \/ Relocated(h, M, C2, n))
    <3>1. h \in L /\ h \notin S /\ h.seq \in Nat
      BY Zenon, <2>3, <1>3, <1>1
    <3>2. h.seq > t.seq
      <4>1. ~ (t.seq > h.seq)
        BY Zenon, <2>0, <2>3, <1>3 DEF Above
      <4>2. h.seq # t.seq
        BY Zenon, <3>1, <2>1
      <4> QED BY <4>1, <4>2, <3>1, <1>7
    <3>3. \A s \in S : h.seq > s.seq
      BY Zenon, <3>1, <3>2, <2>1
    <3>4. \A x \in L : x.seq > h.seq => x \notin S
      BY <3>1, <3>3, <1>1
    <3>5. Above(h, M) = Above(h, L)
      <4>1. ~ (t.seq > h.seq)
        BY <3>1, <3>2, <1>7
      <4> QED BY Zenon, <4>1, <3>4, <1>3 DEF Above
    <3>6. Val(h, C) = n /\ (Late(h, L) \/ Relocated(h, L, C, n))
      BY Zenon, <3>1, <3>5, <2>3, <1>8
    <3>7. Late(h, L) => Late(h, M)
      BY Zenon, <3>4, <3>5, <1>3 DEF Late, Above
    <3>8. ASSUME Relocated(h, L, C, n) PROVE Relocated(h, M, C2, n)
      <4>1. ASSUME NEW x \in Above(h, M)
            PROVE  Val(x, C2) = n /\ \E y \in M : Over(x, y, M) /\ x.old = y.at
        <5>1. x \in Above(h, L) /\ x \in L /\ x.seq > h.seq
          BY Zenon, <3>5 DEF Above
        <5>2. PICK y \in L : Over(x, y, L) /\ x.old = y.at
          BY Zenon, <3>8, <5>1 DEF Relocated
        <5>3. h.seq <= y.seq \/ h.seq >= x.seq
          BY Zenon, <5>2, <3>1 DEF Over
        <5>4. h.seq <= y.seq
          BY <5>3, <5>1, <3>1, <1>1
        <5>5. y \notin S /\ t.seq <= y.seq
          <6>1. y \in S => h.seq > y.seq
            BY Zenon, <3>3
          <6> QED BY <6>1, <5>4, <3>1, <3>2, <1>1, <1>7
        <5>6. Over(x, y, M)
          BY Zenon, <5>2, <5>5, <1>3 DEF Over
        <5>7. Val(x, C2) = n
          BY Zenon, <3>8, <5>1, <1>9 DEF Relocated
        <5> QED BY Zenon, <5>2, <5>5, <5>6, <5>7, <1>3
      <4> QED BY Zenon, <4>1 DEF Relocated
    <3> QED BY Zenon, <3>1, <3>6, <3>7, <3>8, <1>9
  <2>4. ASSUME \A x \in Above(t, M) : x.old # None
        PROVE  Val(t, C2) = n /\ (Late(t, M) \/ Relocated(t, M, C2, n))
    <3>1. \A x \in Above(t, M) : x \in L /\ x \notin S /\ x.seq > t.seq /\ \A s \in S : x.seq > s.seq
      <4> TAKE x \in Above(t, M)
      <4>1. x \in M /\ x.seq > t.seq
        BY Zenon DEF Above
      <4>2. x # t
        BY <4>1, <1>7
      <4> QED BY Zenon, <4>1, <4>2, <1>3, <2>1
    <3>2. ASSUME NEW v \in S, NewestValue(v, S), Separated(t, v, R, R2, C2)
          PROVE  Val(t, C2) = n /\ (Late(t, M) \/ Relocated(t, M, C2, n))
      <4>1. PICK r \in R2 \ R : t = BlobEntry(v.seq, r, None) /\ Record(C2, r) = v.value
        BY Zenon, <3>2 DEF Separated
      <4>2. t.at = r /\ t.seq = v.seq
        BY <4>1 DEF BlobEntry
      <4>3. Val(t, C2) = v.value
        BY Zenon, <4>1, <4>2, <1>7 DEF Val
      <4>4. v \in L /\ IsValue(v) /\ v.at = None /\ v.old = None
        BY Zenon, <3>2, <1>1, <1>2 DEF NewestValue
      <4>5. \A x \in Above(v, L) : x \notin S => x \in Above(t, M)
        BY Zenon, <4>2, <1>3 DEF Above
      <4>6. ASSUME NEW x \in Above(v, L) PROVE x.old # None
        <5>1. CASE x \notin S
          BY Zenon, <5>1, <4>5, <2>4
        <5>2. CASE x \in S
          <6>1. x \in L /\ x.seq > v.seq
            BY Zenon DEF Above
          <6>2. IsValue(x) => x.seq <= v.seq
            BY Zenon, <5>2, <3>2 DEF NewestValue
          <6>3. ~ IsValue(x)
            BY <6>1, <6>2, <4>4, <1>1
          <6> QED BY Zenon, <6>1, <6>3, <4>4, <1>8
        <5> QED BY Zenon, <5>1, <5>2
      <4>7. Val(v, C) = n /\ (Late(v, L) \/ Relocated(v, L, C, n))
        BY Zenon, <4>4, <4>6, <1>8
      <4>8. Val(t, C2) = n
        BY Zenon, <4>7, <4>3, <4>4 DEF Val
      <4>9. \A x \in Above(t, M) : x \in Above(v, L)
        BY Zenon, <3>1, <4>2 DEF Above
      <4>10. CASE Above(t, M) = {}
        BY Zenon, <4>8, <4>10 DEF Relocated
      <4>11. CASE Above(t, M) # {}
        <5>1. ~ Relocated(v, L, C, n)
          <6> SUFFICES ASSUME Relocated(v, L, C, n) PROVE FALSE
            OBVIOUS
          <6>1. \A x \in Above(v, L) : x.old # None /\ \E y \in L : Over(x, y, L) /\ x.old = y.at
            BY Zenon, <4>6 DEF Relocated
          <6>2. Above(v, L) = {}
            BY ONLY NoneAboveValue, <6>1, <4>4, b \in Nat, Ordered(L, b), Zenon
          <6> QED BY Zenon, <6>2, <4>9, <4>11
        <5>2. PICK x \in L : Above(v, L) = {x} /\ x.old # v.at
          BY Zenon, <4>7, <5>1 DEF Late
        <5>3. Above(t, M) = {x}
          BY Zenon, <5>2, <4>9, <4>11
        <5>4. x \in M /\ x.old # None /\ x \in L
          BY Zenon, <5>2, <5>3, <4>6 DEF Above
        <5>5. x.old \in R
          BY Zenon, <5>4, <1>1
        <5>6. x.old # t.at
          BY Zenon, <5>5, <4>1, <4>2
        <5> QED BY Zenon, <5>3, <5>4, <5>6, <4>8 DEF Late
      <4> QED BY Zenon, <4>10, <4>11
    <3>3. ASSUME NEW p \in S, NEW q \in S, NewestTwo(p, q, S), t = Chosen(p, q)
          PROVE  Val(t, C2) = n /\ (Late(t, M) \/ Relocated(t, M, C2, n))
      <4>1. /\ t.seq = p.seq
            /\ t.at = IF p.old = None \/ p.old = q.at THEN p.at ELSE q.at
        BY <3>3 DEF Chosen, BlobEntry
      <4>2. /\ p \in L /\ q \in L /\ ~ IsValue(p) /\ ~ IsValue(q)
            /\ Top(p, S) /\ Over(p, q, S) /\ p.seq \in Nat /\ q.seq \in Nat
        BY Zenon, <3>3, <1>1, <1>2 DEF NewestTwo
      <4>3. Over(p, q, L)
        BY Zenon, <4>2, <1>1, OverAll
      <4>4. Above(p, L) = Above(t, M)
        <5>1. ASSUME NEW x \in L, x.seq > p.seq PROVE x \notin S
          <6> SUFFICES ASSUME x \in S PROVE FALSE
            OBVIOUS
          <6>1. x.seq <= p.seq
            BY Zenon, <4>2 DEF Top
          <6> QED BY <6>1, <5>1, <4>2, <1>1
        <5>2. \A x : x \in Above(p, L) => x \in Above(t, M)
          BY Zenon, <5>1, <4>1, <1>3 DEF Above
        <5>3. \A x : x \in Above(t, M) => x \in Above(p, L)
          BY Zenon, <3>1, <4>1 DEF Above
        <5> QED BY Zenon, <5>2, <5>3
      <4>5. /\ t.at = p.at => Val(t, C2) = Val(p, C)
            /\ t.at = q.at => Val(t, C2) = Val(q, C)
        BY Zenon, <4>2, <1>7, <1>9 DEF Val
      \* Relocations of p are relocations of t.
      <4>6. ASSUME NEW x \in Above(t, M), t.at = p.at, Val(x, C) = n,
                   NEW y \in L, Over(x, y, L), x.old = y.at
            PROVE  Val(x, C2) = n /\ \E z \in M : Over(x, z, M) /\ x.old = z.at
        <5>1. x \in L /\ x.seq > p.seq /\ x.seq \in Nat
          BY Zenon, <3>1, <4>1, <1>1
        <5>2. x.seq > y.seq /\ (p.seq <= y.seq \/ p.seq >= x.seq)
          BY Zenon, <4>6, <4>2 DEF Over
        <5>3. p.seq <= y.seq /\ y.seq \in Nat
          BY <5>1, <5>2, <4>2, <1>1
        <5>4. \A z \in L : z.seq <= y.seq \/ z.seq >= x.seq
          BY Zenon, <4>6 DEF Over
        <5>5. CASE y = p
          <6>1. Over(x, t, M)
            <7>1. t.seq <= t.seq
              BY <1>7
            <7> QED BY Zenon, <7>1, <5>4, <5>5, <5>1, <4>1, <1>3 DEF Over
          <6> QED BY Zenon, <6>1, <5>5, <5>1, <4>6, <1>3, <1>9
        <5>6. CASE y # p
          <6>1. y.seq > p.seq
            <7>1. y.seq # p.seq
              BY Zenon, <5>6, <4>2, <1>1
            <7> QED BY <7>1, <5>3, <4>2
          <6>2. y \in M
            BY Zenon, <6>1, <4>4 DEF Above
          <6>3. Over(x, y, M)
            BY Zenon, <5>2, <5>3, <5>4, <4>1, <1>3 DEF Over
          <6> QED BY Zenon, <6>2, <6>3, <5>1, <4>6, <1>9
        <5> QED BY Zenon, <5>5, <5>6
      <4>7. CASE p.old = None
        <5>1. Val(p, C) = n /\ (Late(p, L) \/ Relocated(p, L, C, n))
          BY Zenon, <4>7, <4>2, <4>4, <2>4, <1>8
        <5>2. t.at = p.at
          BY Zenon, <4>1, <4>7
        <5>3. Late(p, L) => Late(t, M)
          BY Zenon, <5>2, <4>4 DEF Late, Above
        <5>4. ASSUME Relocated(p, L, C, n) PROVE Relocated(t, M, C2, n)
          <6>1. ASSUME NEW x \in Above(t, M)
                PROVE  Val(x, C2) = n /\ \E z \in M : Over(x, z, M) /\ x.old = z.at
            <7>1. Val(x, C) = n /\ \E y \in L : Over(x, y, L) /\ x.old = y.at
              BY Zenon, <5>4, <4>4 DEF Relocated
            <7> QED BY Zenon, <7>1, <4>6, <5>2
          <6> QED BY Zenon, <6>1 DEF Relocated
        <5> QED BY Zenon, <5>1, <5>2, <5>3, <5>4, <4>5
      <4>8. CASE p.old # None
        <5>1. PICK h \in L : h.old = None /\ \A x \in Above(h, L) : x.old # None
          BY ONLY NewestPlain, b \in Nat, Ordered(L, b), <1>8, Zenon
        <5>2. Val(h, C) = n /\ (Late(h, L) \/ Relocated(h, L, C, n))
          BY Zenon, <5>1, <1>8
        <5>3. h.seq < p.seq /\ h.seq \in Nat
          <6>1. h \notin Above(p, L)
            BY Zenon, <5>1, <4>4, <2>4
          <6>2. ~ (h.seq > p.seq)
            BY Zenon, <6>1 DEF Above
          <6>3. h.seq # p.seq
            BY Zenon, <5>1, <4>8, <4>2, <1>1
          <6>4. h.seq \in Nat
            BY Zenon, <1>1
          <6> QED BY <6>2, <6>3, <6>4, <4>2
        <5>4. p \in Above(h, L)
          <6>1. p.seq > h.seq
            BY <5>3, <4>2
          <6> QED BY Zenon, <6>1, <4>2 DEF Above
        <5>5. \A x \in Above(t, M) : x \in Above(h, L) /\ x # p
          <6> TAKE x \in Above(t, M)
          <6>1. x \in L /\ x.seq > p.seq
            BY Zenon, <4>4 DEF Above
          <6>2. x.seq > h.seq /\ x.seq # p.seq
            BY <6>1, <5>3, <4>2, <1>1
          <6> QED BY Zenon, <6>1, <6>2 DEF Above
        <5>6. CASE Late(h, L)
          <6>1. PICK x \in L : Above(h, L) = {x} /\ x.old # h.at
            BY Zenon, <5>6 DEF Late
          <6>2. Above(h, L) = {p} /\ p.old # h.at
            BY Zenon, <6>1, <5>4
          <6>3. Above(t, M) = {}
            BY Zenon, <6>2, <5>5
          <6>4. q = h
            <7>1. q # p
              BY <4>2 DEF Over
            <7>2. ~ (q.seq > h.seq)
              BY Zenon, <6>2, <7>1, <4>2 DEF Above
            <7>3. q.seq <= h.seq /\ h.seq <= p.seq
              BY <7>2, <5>3, <4>2
            <7>4. h.seq <= q.seq \/ h.seq >= p.seq
              BY Zenon, <4>3 DEF Over
            <7>5. q.seq = h.seq
              BY <7>3, <7>4, <5>3, <4>2
            <7> QED BY Zenon, <7>5, <4>2, <1>1
          <6>5. t.at = q.at
            BY Zenon, <6>2, <6>4, <4>1, <4>8
          <6> QED BY Zenon, <6>3, <6>4, <6>5, <5>2, <4>5 DEF Relocated
        <5>7. CASE Relocated(h, L, C, n)
          <6>1. Val(p, C) = n /\ \E y \in L : Over(p, y, L) /\ p.old = y.at
            BY Zenon, <5>7, <5>4 DEF Relocated
          <6>2. PICK y \in L : Over(p, y, L) /\ p.old = y.at
            BY Zenon, <6>1
          <6>3. y = q
            <7>1. /\ p.seq > y.seq /\ (q.seq <= y.seq \/ q.seq >= p.seq)
                  /\ p.seq > q.seq /\ (y.seq <= q.seq \/ y.seq >= p.seq)
              BY Zenon, <6>2, <4>2, <4>3 DEF Over
            <7>2. y.seq = q.seq
              BY <7>1, <4>2, <1>1
            <7> QED BY Zenon, <7>2, <4>2, <1>1
          <6>4. t.at = p.at
            BY Zenon, <6>2, <6>3, <4>1
          <6>5. ASSUME NEW x \in Above(t, M)
                PROVE  Val(x, C2) = n /\ \E z \in M : Over(x, z, M) /\ x.old = z.at
            <7>1. Val(x, C) = n /\ \E z \in L : Over(x, z, L) /\ x.old = z.at
              BY Zenon, <5>7, <5>5 DEF Relocated
            <7> QED BY Zenon, <7>1, <4>6, <6>4
          <6> QED BY Zenon, <6>1, <6>4, <6>5, <4>5 DEF Relocated
        <5> QED BY Zenon, <5>2, <5>6, <5>7
      <4> QED BY Zenon, <4>7, <4>8
    <3>4. ASSUME NEW v \in S, NewestValue(v, S), t = v PROVE FALSE
      BY Zenon, <3>4, <1>7 DEF NewestValue
    <3> QED BY Zenon, <3>2, <3>3, <3>4, <1>11 DEF Replaced
  <2> QED BY Zenon, <2>0, <2>2, <2>3, <2>4, <1>3 DEF Recon, M
<1> QED BY Zenon, <1>10, <1>11

-----------------------------------------------------------------------------
(* One entry more, newer than all of them.                                 *)

Newer(e, L) == \A x \in L : x.seq \in Nat /\ e.seq > x.seq

\* Writing an entry with a new sequence number keeps the entries apart.
LEMMA AppendTypes ==
  ASSUME NEW L, NEW e, NEW R, NEW n \in Nat, NEW m \in Nat, n <= m,
         LogTypes(L, R, n), Entry(e, R, m), Newer(e, L),
         IsIndex(e) => e.at \notin Indexes(L)
  PROVE  LogTypes(L \cup {e}, R, m)
<1>1. e.seq \in Nat
  BY Zenon DEF Entry
<1>2. ASSUME NEW x \in L PROVE Entry(x, R, m)
  <2>1. Entry(x, R, n)
    BY Zenon DEF LogTypes
  <2>2. x.value \in Nat /\ x.value <= n => x.value <= m
    OBVIOUS
  <2> QED BY Zenon, <2>1, <2>2 DEF Entry
<1>3. \A x \in L : x.seq # e.seq
  BY <1>1 DEF Newer
<1>4. \A x \in L : IsIndex(x) /\ IsIndex(e) => x.at # e.at
  BY Zenon DEF Indexes, IsIndex
<1> QED BY Zenon, <1>2, <1>3, <1>4 DEF LogTypes

\* A newer entry uncovers nothing.
LEMMA AppendCovered ==
  ASSUME NEW L, NEW e, NEW d \in L, Covered(d, L)
  PROVE  Covered(d, L \cup {e})
BY Zenon DEF Covered

\* Nothing is newer than the new entry, and the head is next to it.
LEMMA AppendOver ==
  ASSUME NEW L, NEW e, e.seq \in Nat, Newer(e, L), NEW g \in L, Top(g, L)
  PROVE  /\ Over(e, g, L \cup {e})
         /\ \A x, y \in L : Over(x, y, L) <=> Over(x, y, L \cup {e})
         /\ \A x \in L \cup {e} : ~ Over(x, e, L \cup {e}) /\ ~ (x.seq > e.seq)
         /\ \A h \in L \cup {e} : Top(h, L \cup {e}) => h = e
<1>1. /\ \A x \in L : x.seq \in Nat /\ e.seq > x.seq
      /\ \A x \in L : x.seq <= g.seq
  BY Zenon DEF Newer, Top
<1>2. /\ \A x \in L : e.seq >= x.seq /\ ~ (x.seq > e.seq) /\ ~ (e.seq <= x.seq)
      /\ ~ (e.seq > e.seq) /\ e.seq >= e.seq
  BY <1>1
<1>3. Over(e, g, L \cup {e})
  BY Zenon, <1>1, <1>2 DEF Over
<1>4. \A x, y \in L : Over(x, y, L) <=> Over(x, y, L \cup {e})
  BY Zenon, <1>2 DEF Over
<1>5. \A x \in L \cup {e} : ~ Over(x, e, L \cup {e}) /\ ~ (x.seq > e.seq)
  BY Zenon, <1>2 DEF Over
<1>6. \A h \in L \cup {e} : Top(h, L \cup {e}) => h = e
  BY Zenon, <1>2 DEF Top
<1> QED BY Zenon, <1>3, <1>4, <1>5, <1>6

\* A Put starts a new chain.
LEMMA ChainPut ==
  ASSUME NEW L, NEW e, NEW C, NEW n, e.seq \in Nat, Newer(e, L),
         Chain(L, C, n), IsValue(e), e.old = None
  PROVE  Chain(L \cup {e}, C, e.value)
<1>1. \A x \in L : e.seq >= x.seq /\ ~ (x.seq > e.seq) /\ ~ (e.seq <= x.seq)
  BY DEF Newer
<1>2. ~ (e.seq > e.seq) /\ e.seq >= e.seq
  OBVIOUS
<1>3. \A x, y \in L : Over(x, y, L \cup {e}) => Over(x, y, L)
  BY Zenon DEF Over
<1>4. \A x : ~ (x \in L \cup {e} /\ Over(x, e, L \cup {e}))
  BY Zenon, <1>1, <1>2 DEF Over
<1>5. \A h \in L \cup {e} : Top(h, L \cup {e}) => h = e
  BY Zenon, <1>1 DEF Top
<1>6. Val(e, C) = e.value
  BY Zenon DEF Val
<1>7. \A x, y \in L \cup {e} : Over(x, y, L \cup {e}) /\ x.old # None => x.old = y.at
  BY Zenon, <1>3, <1>4 DEF Chain
<1>8. \A x, y \in L \cup {e} : x.seq > y.seq /\ IsValue(y) => IsValue(x)
  BY Zenon, <1>1, <1>2 DEF Chain
<1> QED BY Zenon, <1>5, <1>6, <1>7, <1>8 DEF Chain

\* Neither does an index over a chain that ends in an index meet a value.
LEMMA ChainIndexed ==
  ASSUME NEW L, NEW C, NEW n, Chain(L, C, n), NEW g \in L, Top(g, L), ~ IsValue(g),
         \A x \in L : x.seq \in Nat, \A x, y \in L : x.seq = y.seq => x = y
  PROVE  \A x \in L : ~ IsValue(x)
<1> SUFFICES ASSUME NEW x \in L, IsValue(x) PROVE FALSE
  BY Zenon
<1>1. x.seq # g.seq /\ x.seq <= g.seq
  BY Zenon DEF Top
<1>2. g.seq > x.seq
  BY <1>1
<1> QED BY Zenon, <1>2 DEF Chain

\* An index made from the head, as a write-back or with the callback.
LEMMA ChainIndex ==
  ASSUME NEW L, NEW e, NEW C, NEW n, e.seq \in Nat, Newer(e, L),
         \A x, y \in L : x.seq = y.seq => x = y,
         Chain(L, C, n), NEW g \in L, Top(g, L), ~ IsValue(g), ~ IsValue(e),
         Record(C, e.at) = Record(C, g.at), e.old = None \/ e.old = g.at
  PROVE  Chain(L \cup {e}, C, n)
<1>1. \A x \in L : ~ IsValue(x)
  BY ONLY ChainIndexed, Newer(e, L), \A x, y \in L : x.seq = y.seq => x = y,
          Chain(L, C, n), g \in L, Top(g, L), ~ IsValue(g), Zenon DEF Newer
<1>2. /\ \A x, y \in L : Over(x, y, L) <=> Over(x, y, L \cup {e})
      /\ \A x \in L \cup {e} : ~ Over(x, e, L \cup {e})
      /\ \A h \in L \cup {e} : Top(h, L \cup {e}) => h = e
  BY Zenon, AppendOver
<1>3. \A y \in L : Over(e, y, L \cup {e}) => y = g
  <2> TAKE y \in L
  <2> HAVE Over(e, y, L \cup {e})
  <2>1. /\ g.seq <= y.seq \/ g.seq >= e.seq
        /\ y.seq <= g.seq /\ e.seq > g.seq
        /\ y.seq \in Nat /\ g.seq \in Nat
    BY Zenon DEF Over, Top, Newer
  <2>2. y.seq = g.seq
    BY <2>1
  <2> QED BY Zenon, <2>2
<1>4. Val(e, C) = n
  <2>1. Val(g, C) = n
    BY Zenon DEF Chain
  <2> QED BY Zenon, <2>1 DEF Val
<1>5. \A x, y \in L \cup {e} : Over(x, y, L \cup {e}) /\ x.old # None => x.old = y.at
  BY Zenon, <1>2, <1>3 DEF Chain
<1>6. \A x \in L \cup {e} : ~ IsValue(x)
  BY Zenon, <1>1
<1> QED BY Zenon, <1>2, <1>4, <1>5, <1>6 DEF Chain


\* A Put, or an index written with the callback, is the newest plain entry.
LEMMA ReconPlain ==
  ASSUME NEW L, NEW e, NEW C, NEW n, NEW m, e.seq \in Nat, Newer(e, L),
         Recon(L, C, n), e.old = None, Val(e, C) = m,
         IsValue(e) \/ \A x \in L : ~ IsValue(x)
  PROVE  Recon(L \cup {e}, C, m)
<1>1. \A x \in L : e.seq > x.seq /\ ~ (x.seq > e.seq)
  BY DEF Newer
<1>2. ~ (e.seq > e.seq)
  OBVIOUS
<1>3. \A x, y \in L \cup {e} : x.seq > y.seq /\ IsValue(y) => IsValue(x) \/ x.old # None
  BY Zenon, <1>1, <1>2 DEF Recon
<1>4. ASSUME NEW h \in L \cup {e}, \A x \in Above(h, L \cup {e}) : x.old # None
      PROVE  h = e
  BY Zenon, <1>1, <1>4 DEF Above
<1>5. Relocated(e, L \cup {e}, C, m)
  BY Zenon, <1>1, <1>2 DEF Relocated, Above
<1> QED BY Zenon, <1>3, <1>4, <1>5 DEF Recon

\* A write-back over a plain head, or over the write-back it was made from.
LEMMA ReconWriteBack ==
  ASSUME NEW L, NEW e, NEW R, NEW C, NEW n \in Nat, e.seq \in Nat, Newer(e, L),
         LogTypes(L, R, n), Recon(L, C, n), NEW g \in L, Top(g, L), None \notin R,
         ~ IsValue(e), e.old \in R, Record(C, e.at) = Record(C, e.old),
         g.old = None \/ (g.at = e.old /\ Chain(L, C, n))
  PROVE  Recon(L \cup {e}, C, n)
<1> DEFINE M == L \cup {e}
<1>1. /\ Over(e, g, M)
      /\ \A x, y \in L : Over(x, y, L) <=> Over(x, y, M)
      /\ \A x \in M : ~ (x.seq > e.seq)
  BY Zenon, AppendOver
<1>2. /\ \A x \in L : x.seq \in Nat /\ e.seq > x.seq
      /\ \A x \in L : IsValue(x) => x.at = None
      /\ \A x, y \in L : x.seq = y.seq => x = y
  BY Zenon, EntryIs DEF Newer, LogTypes
<1>3. e.old # None
  BY Zenon
<1>4. \A x, y \in M : x.seq > y.seq /\ IsValue(y) => IsValue(x) \/ x.old # None
  BY Zenon, <1>3 DEF Recon
<1>5. n > 0 => \E h \in M : h.old = None
  BY Zenon DEF Recon
<1>6. ASSUME NEW h \in M, h.old = None, \A x \in Above(h, M) : x.old # None
      PROVE  Val(h, C) = n /\ (Late(h, M) \/ Relocated(h, M, C, n))
  <2>1. h \in L
    BY Zenon, <1>3, <1>6
  <2>2. Above(h, M) = Above(h, L) \cup {e}
    BY Zenon, <2>1, <1>2 DEF Above
  <2>3. Val(h, C) = n /\ (Late(h, L) \/ Relocated(h, L, C, n))
    BY Zenon, <2>1, <2>2, <1>6 DEF Recon
  <2>4. ASSUME NEW x \in L, x.at = e.old, Val(x, C) = n PROVE Val(e, C) = n
    BY Zenon, <2>4, <1>2 DEF Val
  <2>5. CASE g.old = None
    <3>1. h = g
      <4>1. g \notin Above(h, L)
        BY Zenon, <2>2, <2>5, <1>6
      <4>2. ~ (g.seq > h.seq) /\ h.seq <= g.seq /\ g.seq \in Nat /\ h.seq \in Nat
        BY Zenon, <4>1, <2>1, <1>2 DEF Above, Top
      <4>3. g.seq = h.seq
        BY <4>2
      <4> QED BY Zenon, <4>3, <2>1, <1>2
    <3>2. Above(h, L) = {}
      <4>1. \A x \in L : ~ (x.seq > g.seq)
        BY <1>2 DEF Top
      <4> QED BY Zenon, <4>1, <3>1 DEF Above
    <3>3. Above(h, M) = {e}
      BY Zenon, <2>2, <3>2
    <3>4. CASE e.old = h.at
      <4>1. Val(e, C) = n
        BY Zenon, <3>4, <2>1, <2>3, <2>4
      <4> QED BY Zenon, <4>1, <3>1, <3>3, <3>4, <2>3, <1>1 DEF Relocated
    <3>5. CASE e.old # h.at
      BY Zenon, <3>3, <3>5, <2>3 DEF Late
    <3> QED BY Zenon, <3>4, <3>5
  <2>6. CASE g.at = e.old /\ Chain(L, C, n)
    <3>1. Relocated(h, L, C, n)
      <4> SUFFICES ASSUME Late(h, L) PROVE FALSE
        BY Zenon, <2>3
      <4>1. PICK x \in L : Above(h, L) = {x} /\ x.old # h.at
        BY Zenon DEF Late
      <4>2. x.old # None /\ x.seq > h.seq
        BY Zenon, <4>1, <2>2, <1>6 DEF Above
      <4>3. \A z \in L : z.seq <= h.seq \/ z.seq >= x.seq
        <5> TAKE z \in L
        <5>1. z.seq > h.seq => z = x
          BY Zenon, <4>1 DEF Above
        <5> QED BY <5>1, <2>1, <1>2
      <4>4. Over(x, h, L)
        BY Zenon, <4>2, <4>3 DEF Over
      <4> QED BY Zenon, <4>1, <4>2, <4>4, <2>1, <2>6 DEF Chain
    <3>2. Val(e, C) = n
      <4>1. Val(g, C) = n
        BY Zenon, <2>6 DEF Chain
      <4> QED BY Zenon, <4>1, <2>4, <2>6
    <3>3. ASSUME NEW x \in Above(h, M)
          PROVE  Val(x, C) = n /\ \E y \in M : Over(x, y, M) /\ x.old = y.at
      <4>1. CASE x = e
        BY Zenon, <4>1, <3>2, <2>6, <1>1
      <4>2. CASE x \in Above(h, L)
        <5>1. x \in L
          BY Zenon, <4>2 DEF Above
        <5> QED BY Zenon, <5>1, <4>2, <3>1, <1>1 DEF Relocated
      <4> QED BY Zenon, <4>1, <4>2, <2>2
    <3> QED BY Zenon, <3>3, <2>3 DEF Relocated
  <2> QED BY Zenon, <2>5, <2>6
<1> QED BY Zenon, <1>4, <1>5, <1>6 DEF Recon

\* More records do not change the value of an entry.
LEMMA KeptChain ==
  ASSUME NEW L, NEW R, NEW R2, NEW C, NEW C2, NEW n \in Nat,
         Grows(R, C, R2, C2), LogTypes(L, R, n)
  PROVE  /\ Chain(L, C, n) => Chain(L, C2, n)
         /\ Recon(L, C, n) => Recon(L, C2, n)
         /\ LogTypes(L, R2, n)
<1>1. \A x \in L : Entry(x, R, n)
  BY Zenon DEF LogTypes
<1>2. \A x \in L : Val(x, C2) = Val(x, C)
  BY ONLY <1>1, ValKept, Grows(R, C, R2, C2), n \in Nat
<1>3. Chain(L, C, n) => Chain(L, C2, n)
  BY Zenon, <1>2 DEF Chain
<1>4. \A h \in L : Relocated(h, L, C, n) => Relocated(h, L, C2, n)
  BY Zenon, <1>2 DEF Relocated, Above
<1>5. Recon(L, C, n) => Recon(L, C2, n)
  BY Zenon, <1>2, <1>4 DEF Recon
<1>6. LogTypes(L, R2, n)
  BY Zenon DEF LogTypes, Entry, Grows
<1> QED BY Zenon, <1>3, <1>5, <1>6

-----------------------------------------------------------------------------
(* Reading finds the newest entry, or a value below a write-back.          *)

\* GetImpl finds the newest entry, or a value below it if that is a write-back.
LEMMA GetImplIs ==
  ASSUME TreeTypes, log # {}
  PROVE  LET g == Newest(log) IN
         /\ g \in log /\ Top(g, log) /\ Ordered(log, seq)
         /\ \/ GetImpl(seq) = g
            \/ g.old # None /\ GetImpl(seq) \in log /\ IsValue(GetImpl(seq))
<1> DEFINE g == Newest(log)
<1>0. seq \in Nat /\ flushed \in Nat /\ Ordered(log, seq)
      /\ \A b \in switches : b \in Nat
  BY Zenon, EntryIs DEF TreeTypes, LogTypes, Ordered
<1>1. g \in log /\ Top(g, log) /\ \A e \in log : Top(e, log) => e = g
  BY ONLY NewestIs, <1>0, log # {}, Zenon
<1>2. Memtable \in SUBSET log
  BY Zenon DEF Memtable
<1>3. \A T \in SUBSET log : VisibleAt(T, seq) = T
  BY Zenon, <1>0 DEF VisibleAt, Ordered
<1>4. ASSUME NEW T \in SUBSET log
      PROVE  FirstOf(T, seq) = IF T = {} THEN NotFound ELSE Newest(T)
  BY Zenon, <1>3 DEF FirstOf
<1> HIDE DEF g
<1>5. CASE Memtable = {}
  <2>1. VisibleAt(Memtable, seq) = {}
    BY Zenon, <1>5, <1>2, <1>3
  <2>2. log \ Memtable = log
    BY Zenon, <1>5
  <2>3. GetImpl(seq) = FirstOf(log, seq)
    BY Zenon, <2>1, <2>2 DEF GetImpl
  <2> QED BY Zenon, <2>3, <1>4, <1>0, <1>1 DEF g
<1>6. CASE Memtable # {}
  <2>1. g \in Memtable
    <3>1. PICK e \in Memtable : TRUE
      BY Zenon, <1>6
    <3>2. e.seq <= g.seq /\ e.seq \in Nat /\ g.seq \in Nat
      BY Zenon, <1>0, <1>1, <1>2 DEF Top, Ordered
    <3>3. e.seq > flushed /\ \A b \in switches : e.seq > b
      BY Zenon DEF Memtable
    <3>4. g.seq > flushed
      BY <3>2, <3>3, <1>0
    <3>5. \A b \in switches : g.seq > b
      BY <3>2, <3>3, <1>0
    <3> QED BY Zenon, <3>4, <3>5, <1>1 DEF Memtable
  <2>2. Newest(Memtable) = g
    <3>1. Ordered(Memtable, seq)
      BY Zenon, <1>0, <1>2, OrderedSubset
    <3>2. Top(g, Memtable)
      BY Zenon, <1>1, <1>2 DEF Top
    <3> QED BY ONLY NewestIs, <3>1, <3>2, <2>1, <1>0, <1>6, Zenon
  <2>3. FirstOf(Memtable, seq) = g
    BY Zenon, <1>2, <1>4, <1>6, <2>2
  <2> DEFINE T == Memtable \ {g}
             d == FirstOf(T, seq)
  <2>4. T \in SUBSET log /\ Ordered(T, seq)
    BY Zenon, <1>0, <1>2, OrderedSubset
  <2> HIDE DEF T
  <2>5. d = NotFound \/ d \in log
    <3>1. T # {} => Newest(T) \in T
      BY ONLY NewestIs, <2>4, <1>0, Zenon
    <3> QED BY Zenon, <3>1, <2>4, <1>4
  <2>6. SaveValue(Memtable, seq) = IF SaverCheckIsGCWriteBack(g) /\ d # NotFound
                                      /\ d.type = "kTypeValue" THEN d ELSE g
    BY Zenon, <2>3 DEF SaveValue, T
  <2>7. GetImpl(seq) = SaveValue(Memtable, seq)
    BY Zenon, <1>2, <1>3, <1>6 DEF GetImpl
  <2> HIDE DEF d
  <2>8. SaverCheckIsGCWriteBack(g) => g.old # None
    BY Zenon DEF SaverCheckIsGCWriteBack
  <2> QED BY Zenon, <2>5, <2>6, <2>7, <2>8, <1>0, <1>1 DEF IsValue, g
<1> QED BY Zenon, <1>5, <1>6

-----------------------------------------------------------------------------
(* Records and positions.                                                  *)

RecordsOf(C) == UNION {{f} \X DOMAIN C[f] : f \in File}

\* A record is a file number and a position of the file.
LEMMA RecordsAre ==
  /\ Records = RecordsOf(content) /\ Records' = RecordsOf(content')
  /\ \A C : \A f, i : <<f, i>> \in RecordsOf(C) <=> f \in File /\ i \in DOMAIN C[f]
  /\ \A C : \A r \in RecordsOf(C) : /\ r = <<r[1], r[2]>> /\ r[1] \in File
                                    /\ r[2] \in DOMAIN C[r[1]]
  /\ \A C : None \notin RecordsOf(C)
<1>1. Records = RecordsOf(content) /\ Records' = RecordsOf(content')
  BY Zenon DEF Records, RecordsOf
<1>2. \A C : \A f, i : <<f, i>> \in RecordsOf(C) <=> f \in File /\ i \in DOMAIN C[f]
  BY DEF RecordsOf
<1>3. ASSUME NEW C, NEW r \in RecordsOf(C)
      PROVE  r = <<r[1], r[2]>> /\ r[1] \in File /\ r[2] \in DOMAIN C[r[1]]
  <2>1. PICK f \in File : r \in {f} \X DOMAIN C[f]
    BY Zenon DEF RecordsOf
  <2>2. r = <<r[1], r[2]>> /\ r[1] = f /\ r[2] \in DOMAIN C[f]
    BY ONLY <2>1
  <2> QED BY Zenon, <2>1, <2>2
<1>4. ASSUME NEW C PROVE None \notin RecordsOf(C)
  <2>1. 0 \notin File
    BY WriteBackAssumption DEF File
  <2> QED BY Zenon, <2>1, <1>2 DEF None
<1> QED BY Zenon, <1>1, <1>2, <1>3, <1>4

\* The positions that a set of entries holds.
LEMMA IndexesAre ==
  ASSUME NEW L
  PROVE  /\ \A r : r \in Indexes(L) <=> \E e \in L : IsIndex(e) /\ e.at = r
         /\ \A e : IsIndex(e) => Indexes(L \cup {e}) = Indexes(L) \cup {e.at}
         /\ \A e : ~ IsIndex(e) => Indexes(L \cup {e}) = Indexes(L)
<1>1. \A T, r : r \in Indexes(T) <=> \E e \in T : IsIndex(e) /\ e.at = r
  BY Zenon DEF Indexes, IsIndex
<1>2. ASSUME NEW e, IsIndex(e) PROVE Indexes(L \cup {e}) = Indexes(L) \cup {e.at}
  <2>1. \A r : r \in Indexes(L \cup {e}) <=> \E x \in L \cup {e} : IsIndex(x) /\ x.at = r
    BY Zenon, <1>1
  <2>2. \A r : r \in Indexes(L \cup {e}) <=> r \in Indexes(L) \/ r = e.at
    BY Zenon, <1>1, <1>2, <2>1
  <2> QED BY Zenon, <2>2
<1>3. ASSUME NEW e, ~ IsIndex(e) PROVE Indexes(L \cup {e}) = Indexes(L)
  <2>1. \A r : r \in Indexes(L \cup {e}) <=> \E x \in L \cup {e} : IsIndex(x) /\ x.at = r
    BY Zenon, <1>1
  <2>2. \A r : r \in Indexes(L \cup {e}) <=> r \in Indexes(L)
    BY Zenon, <1>1, <1>3, <2>1
  <2> QED BY Zenon, <2>2
<1> QED BY Zenon, <1>1, <1>2, <1>3

\* What the tree holds is written, and a tree that holds something was put to.
LEMMA TreeIs ==
  ASSUME TreeTypes, FileTypes
  PROVE  /\ Indexes(log) \subseteq Records
         /\ \A e \in log : IsIndex(e) => e.at \in Records /\ e.at \in Indexes(log)
         /\ \A e \in log : e.seq \in Nat /\ (IsValue(e) \/ IsIndex(e))
         /\ Ordered(log, seq)
         /\ log # {} => puts > 0
         /\ Records # {} => puts > 0
         /\ puts \in Nat /\ seq \in Nat /\ flushed \in Nat
<1>1. /\ puts \in Nat /\ seq \in Nat /\ flushed \in Nat
      /\ \A e \in log : Entry(e, Records, puts) /\ e.seq <= seq
      /\ \A d, e \in log : d.seq = e.seq => d = e
  BY Zenon DEF TreeTypes, LogTypes
<1>2. /\ \A e \in log : e.seq \in Nat /\ (IsValue(e) \/ IsIndex(e))
      /\ \A e \in log : IsIndex(e) => e.at \in Records
      /\ \A e \in log : IsValue(e) => e.value \in Nat /\ 1 <= e.value /\ e.value <= puts
  BY Zenon, <1>1, EntryIs
<1>3. Records # {} => puts > 0
  <2> SUFFICES ASSUME NEW r \in Records PROVE puts > 0
    BY Zenon
  <2> DEFINE v == Record(content, r)
  <2>1. v \in Nat /\ 1 <= v /\ v <= puts
    BY Zenon DEF FileTypes
  <2> HIDE DEF v
  <2> QED BY <2>1, <1>1
<1>4. log # {} => puts > 0
  <2> SUFFICES ASSUME NEW e \in log PROVE puts > 0
    BY Zenon
  <2>1. CASE IsIndex(e)
    BY Zenon, <2>1, <1>2, <1>3
  <2>2. CASE IsValue(e)
    <3>1. e.value \in Nat /\ 1 <= e.value /\ e.value <= puts
      BY Zenon, <2>2, <1>2
    <3> QED BY <3>1, <1>1
  <2> QED BY Zenon, <2>1, <2>2, <1>2
<1>5. Indexes(log) \subseteq Records
  <2> SUFFICES ASSUME NEW r \in Indexes(log) PROVE r \in Records
    BY Zenon
  <2>1. PICK e \in log : IsIndex(e) /\ e.at = r
    BY Zenon, IndexesAre
  <2> QED BY Zenon, <2>1, <1>2
<1>6. \A e \in log : IsIndex(e) => e.at \in Indexes(log)
  BY Zenon, IndexesAre
<1> QED BY Zenon, <1>1, <1>2, <1>3, <1>4, <1>5, <1>6 DEF Ordered

-----------------------------------------------------------------------------
(* The steps of the base DB.                                               *)

\* Put preserves the invariant.
LEMMA PutStep ==
  ASSUME IndInv, Put
  PROVE  IndInv'
<1> DEFINE e == ValueEntry(seq + 1, puts + 1)
<1>u. /\ puts < MaxPut /\ puts' = puts + 1 /\ seq' = seq + 1
      /\ log' = log \cup {e}
  BY Zenon DEF Put
<1>v. /\ switches' = switches /\ flushed' = flushed /\ content' = content
      /\ state' = state /\ bitmap' = bitmap /\ events' = events /\ job' = job
      /\ raced' = raced /\ stacked' = stacked /\ fellBack' = fellBack
      /\ restarts' = restarts
  BY Zenon DEF Put, history
<1>t. /\ TreeTypes /\ FileTypes /\ DroppedInv /\ JobInv
      /\ ResolveInv /\ RunsInv /\ ChainInv /\ ReconInv
  BY Zenon DEF IndInv
<1>1. puts \in Nat /\ seq \in Nat /\ flushed \in Nat /\ flushed <= seq
      /\ MaxPut \in Nat /\ puts <= MaxPut
  BY Zenon, <1>t, WriteBackAssumption DEF TreeTypes
<1>2. /\ e.seq = seq + 1 /\ e.value = puts + 1 /\ e.at = None /\ e.old = None
      /\ IsValue(e) /\ ~ IsIndex(e) /\ e = ValueEntry(e.seq, e.value)
  BY DEF ValueEntry, IsValue, IsIndex
<1>3. Records' = Records
  BY Zenon, <1>v DEF Records
<1> HIDE DEF e
<1>4. Indexes(log') = Indexes(log)
  BY Zenon, <1>u, <1>2, IndexesAre
<1>5. /\ puts + 1 \in Nat /\ puts <= puts + 1 /\ puts + 1 <= MaxPut /\ 1 <= puts + 1
      /\ seq + 1 \in Nat /\ flushed <= seq + 1 /\ 1 <= seq + 1 /\ seq + 1 <= seq + 1
      /\ puts + 1 <= puts + 1 /\ ~ (seq + 1 <= flushed)
      /\ \A x \in Nat : /\ x <= seq => x <= seq + 1 /\ seq + 1 > x
                        /\ x <= puts => x <= puts + 1
  BY <1>1, <1>u
<1>6. Newer(e, log) /\ e.seq \in Nat
  <2>1. \A x \in log : x.seq \in Nat /\ x.seq <= seq
    BY Zenon, <1>t, EntryIs DEF TreeTypes, LogTypes
  <2> QED BY Zenon, <2>1, <1>2, <1>5 DEF Newer
<1>7. TreeTypes'
  <2>1. Entry(e, Records, puts + 1)
    BY Zenon, <1>2, <1>5 DEF Entry
  <2>2. LogTypes(log, Records, puts)
    BY Zenon, <1>t DEF TreeTypes
  <2>3. LogTypes(log \cup {e}, Records, puts + 1)
    BY ONLY <2>1, <2>2, <1>1, <1>2, <1>5, <1>6, AppendTypes, Zenon
  <2>4. \A x \in log : x.seq \in Nat /\ 1 <= x.seq /\ x.seq <= seq
    BY Zenon, <1>t, EntryIs DEF TreeTypes, LogTypes
  <2>5. \A x \in log' : 1 <= x.seq /\ x.seq <= seq'
    BY Zenon, <2>4, <1>u, <1>2, <1>5
  <2>6. \A b \in switches : b \in Nat /\ b <= seq + 1
    BY Zenon, <1>t, <1>5 DEF TreeTypes
  <2>7. log' # {}
    BY Zenon, <1>u
  <2>8. /\ seq' \in Nat /\ flushed' \in Nat /\ flushed' <= seq'
        /\ puts' \in Nat /\ puts' <= MaxPut
    BY Zenon, <1>1, <1>5, <1>u, <1>v
  <2>9. LogTypes(log', Records', puts') /\ \A b \in switches' : b \in Nat /\ b <= seq'
    BY Zenon, <2>3, <2>6, <1>3, <1>u, <1>v
  <2> QED BY Zenon, <2>5, <2>7, <2>8, <2>9 DEF TreeTypes
<1>8. FileTypes'
  <2>1. \A r \in Records : LET v == Record(content, r)
                           IN v \in Nat /\ 1 <= v /\ v <= puts + 1
    BY Zenon, <1>t, <1>5 DEF FileTypes
  <2> QED BY Zenon, <2>1, <1>t, <1>u, <1>v, <1>3, <1>4 DEF FileTypes
<1>9. DroppedInv'
  BY Zenon, <1>t, <1>v, <1>4 DEF DroppedInv, BitmapSound
<1>10. JobInv'
  BY Zenon, <1>t, <1>v, <1>3, <1>4 DEF JobInv
<1>11. ResolveInv'
  <2>1. \A x \in log : Covered(x, log) => Covered(x, log')
    BY Zenon, <1>u, AppendCovered
  <2>2. \A x \in log' : IsIndex(x) => x \in log
    BY Zenon, <1>u, <1>2
  <2> QED BY Zenon, <2>1, <2>2, <1>t, <1>v DEF ResolveInv, Misled
<1>12. RunsInv'
  BY Zenon, <1>t, <1>u, <1>v, <1>2, <1>5 DEF RunsInv
<1>13. ChainInv'
  <2>1. Chain(log, content, puts) => Chain(log', content, e.value)
    BY ONLY <1>6, <1>2, <1>u, ChainPut, Zenon
  <2> QED BY Zenon, <2>1, <1>t, <1>u, <1>v, <1>2 DEF ChainInv
<1>14. ReconInv'
  <2>1. Val(e, content) = puts + 1
    BY Zenon, <1>2 DEF Val
  <2>2. Recon(log, content, puts) => Recon(log', content, puts + 1)
    BY ONLY <2>1, <1>6, <1>2, <1>u, ReconPlain, Zenon
  <2> QED BY Zenon, <2>2, <1>t, <1>u, <1>v DEF ReconInv, Misled
<1> QED BY Zenon, <1>7, <1>8, <1>9, <1>10, <1>11, <1>12, <1>13, <1>14 DEF IndInv

\* The steps that do not touch what the invariant speaks of.
LEMMA SwitchSnapshotStep ==
  ASSUME IndInv, SwitchMemtable \/ GetSnapshot \/ ReleaseSnapshot \/ UNCHANGED vars
  PROVE  IndInv'
<1>v. /\ seq' = seq /\ log' = log /\ flushed' = flushed /\ content' = content
      /\ state' = state /\ bitmap' = bitmap /\ events' = events /\ job' = job
      /\ raced' = raced /\ stacked' = stacked /\ fellBack' = fellBack
      /\ restarts' = restarts /\ puts' = puts
      /\ switches' = switches \/ switches' = switches \cup {seq}
  BY Zenon DEF SwitchMemtable, GetSnapshot, ReleaseSnapshot, vars, tree, history
<1>t. /\ TreeTypes /\ FileTypes /\ DroppedInv /\ JobInv
      /\ ResolveInv /\ RunsInv /\ ChainInv /\ ReconInv
  BY Zenon DEF IndInv
<1>1. Records' = Records
  BY Zenon, <1>v DEF Records
<1>2. TreeTypes'
  <2>1. seq \in Nat
    BY Zenon, <1>t DEF TreeTypes
  <2>2. seq <= seq
    BY <2>1
  <2>3. \A b \in switches' : b \in Nat /\ b <= seq
    BY Zenon, <2>1, <2>2, <1>t, <1>v DEF TreeTypes
  <2> QED BY Zenon, <2>3, <1>t, <1>v, <1>1 DEF TreeTypes
<1>3. FileTypes'
  BY Zenon, <1>t, <1>v, <1>1 DEF FileTypes
<1>4. DroppedInv'
  BY Zenon, <1>t, <1>v DEF DroppedInv, BitmapSound
<1>5. JobInv'
  BY Zenon, <1>t, <1>v, <1>1 DEF JobInv
<1>6. ResolveInv' /\ RunsInv' /\ ChainInv' /\ ReconInv'
  BY Zenon, <1>t, <1>v DEF ResolveInv, RunsInv, ChainInv, ReconInv, Misled
<1> QED BY Zenon, <1>2, <1>3, <1>4, <1>5, <1>6 DEF IndInv


-----------------------------------------------------------------------------
(* Flush and compaction.                                                   *)

\* The file that a table builder writes for a value k of the tree.
LEMMA NewFile ==
  ASSUME FileTypes, NEW k, NEW f, NewBlobFile(k, f)
  PROVE  /\ Grows(Records, content, Records', content')
         /\ IsValue(k) => /\ f \in File /\ <<f, 1>> \in Records' \ Records
                          /\ Record(content', <<f, 1>>) = k.value
         /\ \A r \in Records' : r \in Records \/ (IsValue(k) /\ r = <<f, 1>>)
         /\ state' \in [File -> FileState] /\ DOMAIN content' = File
         /\ \A g \in File : IsFiniteSet(DOMAIN content'[g])
         /\ \A g \in File : DOMAIN content[g] \subseteq DOMAIN content'[g]
         /\ \A g \in File : state'[g] = "kNone" => DOMAIN content'[g] = {}
         /\ \A g \in File : \/ state'[g] = state[g]
                            \/ /\ state[g] = "kNone" /\ state'[g] = "kPendingLSM"
                               /\ IsValue(k) /\ g = f
<1>t. /\ state \in [File -> FileState] /\ DOMAIN content = File
      /\ \A g \in File : IsFiniteSet(DOMAIN content[g])
      /\ \A g \in File : state[g] = "kNone" => DOMAIN content[g] = {}
  BY Zenon DEF FileTypes
<1>r. /\ Records = RecordsOf(content) /\ Records' = RecordsOf(content')
      /\ \A C : \A g, i : <<g, i>> \in RecordsOf(C) <=> g \in File /\ i \in DOMAIN C[g]
      /\ \A C : \A r \in RecordsOf(C) : /\ r = <<r[1], r[2]>> /\ r[1] \in File
                                        /\ r[2] \in DOMAIN C[r[1]]
      /\ \A C : None \notin RecordsOf(C)
  BY Zenon, RecordsAre
<1>1. CASE ~ IsValue(k)
  <2>1. state' = state /\ content' = content /\ Records' = Records
    BY Zenon, <1>1, <1>r DEF NewBlobFile, IsValue
  <2>2. Grows(Records, content, Records', content')
    BY Zenon, <2>1, <1>r DEF Grows
  <2> QED BY Zenon, <2>1, <2>2, <1>1, <1>t
<1>2. CASE IsValue(k)
  <2>1. /\ f \in File /\ state[f] = "kNone"
        /\ state' = [state EXCEPT ![f] = "kPendingLSM"]
        /\ content' = [content EXCEPT ![f] = <<k.value>>]
    BY Zenon, <1>2 DEF NewBlobFile, IsValue, Fresh
  <2>2. /\ DOMAIN content' = File /\ content'[f] = <<k.value>>
        /\ \A g \in File : g # f => content'[g] = content[g]
        /\ \A g \in File : state'[g] = IF g = f THEN "kPendingLSM" ELSE state[g]
        /\ state' \in [File -> FileState]
    BY <2>1, <1>t DEF FileState
  <2>3. DOMAIN content'[f] = 1 .. 1 /\ content'[f][1] = k.value /\ 1 .. 1 = {1}
    BY <2>2
  <2>4. DOMAIN content[f] = {}
    BY Zenon, <2>1, <1>t
  <2>5. IsFiniteSet({1})
    BY Zenon, FS_Singleton
  <2>6. <<f, 1>> \in Records' /\ <<f, 1>> \notin Records
    <3>1. 1 \in DOMAIN content'[f] /\ 1 \notin DOMAIN content[f]
      BY Zenon, <2>3, <2>4
    <3> QED BY Zenon, <3>1, <2>1, <1>r
  <2>7. \A r \in Records' : r \in Records \/ r = <<f, 1>>
    <3> TAKE r \in Records'
    <3>1. r = <<r[1], r[2]>> /\ r[1] \in File /\ r[2] \in DOMAIN content'[r[1]]
      BY Zenon, <1>r
    <3>2. CASE r[1] = f
      <4>1. r[2] = 1
        BY Zenon, <3>1, <3>2, <2>3
      <4> QED BY Zenon, <4>1, <3>1, <3>2
    <3>3. CASE r[1] # f
      <4>1. <<r[1], r[2]>> \in Records
        BY Zenon, <3>1, <3>3, <2>2, <1>r
      <4> QED BY Zenon, <4>1, <3>1
    <3> QED BY Zenon, <3>2, <3>3
  <2>8. \A r \in Records : r \in Records' /\ r[1] # f
    <3> TAKE r \in Records
    <3>1. r = <<r[1], r[2]>> /\ r[1] \in File /\ r[2] \in DOMAIN content[r[1]]
      BY Zenon, <1>r
    <3>2. r[1] # f
      <4>1. r[1] = f => r[2] \in DOMAIN content[f]
        BY Zenon, <3>1
      <4> QED BY Zenon, <4>1, <2>4
    <3>3. <<r[1], r[2]>> \in Records'
      BY Zenon, <3>1, <3>2, <2>2, <1>r
    <3> QED BY Zenon, <3>1, <3>2, <3>3
  <2>9. \A r \in Records : Record(content', r) = Record(content, r)
    <3> TAKE r \in Records
    <3>1. r[1] \in File /\ r[1] # f
      BY Zenon, <2>8, <1>r
    <3> QED BY Zenon, <3>1, <2>2 DEF Record
  <2>10. Grows(Records, content, Records', content')
    BY Zenon, <2>8, <2>9, <1>r DEF Grows
  <2>11. Record(content', <<f, 1>>) = k.value
    <3>1. <<f, 1>>[1] = f /\ <<f, 1>>[2] = 1
      OBVIOUS
    <3> QED BY Zenon, <3>1, <2>3 DEF Record
  <2>12. \A g \in File : IsFiniteSet(DOMAIN content'[g])
    BY Zenon, <2>2, <2>3, <2>5, <1>t
  <2>13. \A g \in File : DOMAIN content[g] \subseteq DOMAIN content'[g]
    BY Zenon, <2>2, <2>4
  <2>14. \A g \in File : state'[g] = "kNone" => DOMAIN content'[g] = {}
    <3>1. "kPendingLSM" # "kNone"
      OBVIOUS
    <3> QED BY Zenon, <3>1, <2>2, <1>t
  <2>15. \A g \in File : \/ state'[g] = state[g]
                         \/ /\ state[g] = "kNone" /\ state'[g] = "kPendingLSM"
                            /\ IsValue(k) /\ g = f
    BY Zenon, <2>1, <2>2, <1>2
  <2> QED BY Zenon, <2>1, <2>2, <2>6, <2>7, <2>10, <2>11, <2>12, <2>13, <2>14, <2>15, <1>2
<1> QED BY Zenon, <1>1, <1>2

\* The entry of the table is what Preprocess keeps, with a value separated.
LEMMA TableIs ==
  ASSUME TreeTypes, FileTypes, NEW S, Neighbours(S, log), NEW f,
         NewBlobFile(Preprocess(S), f)
  PROVE  LET k == Preprocess(S) IN
         /\ Replaced(S, TableEntry(k, f), Records, Records', content')
         /\ IsIndex(TableEntry(k, f))
         /\ IsValue(k) => k \in S /\ TableEntry(k, f).at = <<f, 1>>
<1> DEFINE k == Preprocess(S)
           t == TableEntry(k, f)
<1>1. /\ S # {} /\ S \in SUBSET log /\ seq \in Nat /\ puts \in Nat /\ Ordered(log, seq)
      /\ \A x \in log : Entry(x, Records, puts)
  BY Zenon, TreeIs DEF Neighbours, TreeTypes, LogTypes
<1>2. Ordered(S, seq)
  BY Zenon, <1>1, OrderedSubset
<1>3. \A x \in S : x = ValueEntry(x.seq, x.value) \/ x = BlobEntry(x.seq, x.at, x.old)
  BY Zenon, <1>1 DEF Entry
<1>4. \/ IsIndex(k) /\ S = {k}
      \/ NewestValue(k, S)
      \/ \E p, q \in S : NewestTwo(p, q, S) /\ k = Chosen(p, q)
  BY ONLY <1>1, <1>2, <1>3, KeptIs, Zenon
<1>5. IsValue(k) => /\ f \in File /\ <<f, 1>> \in Records' \ Records
                    /\ Record(content', <<f, 1>>) = k.value
  BY Zenon, NewFile
<1> HIDE DEF k
<1>6. /\ ~ IsValue(k) => t = k
      /\ IsValue(k) => t = BlobEntry(k.seq, <<f, 1>>, None)
  BY Zenon DEF TableEntry, IsValue
<1>7. \A p, q : IsIndex(Chosen(p, q)) /\ ~ IsValue(Chosen(p, q))
  BY DEF Chosen, BlobEntry, IsIndex, IsValue
<1>8. IsIndex(k) => ~ IsValue(k)
  BY DEF IsIndex, IsValue
<1> HIDE DEF t
<1>9. CASE NewestValue(k, S)
  <2>1. IsValue(k) /\ k \in S
    BY Zenon, <1>9 DEF NewestValue
  <2>2. Separated(t, k, Records, Records', content')
    BY Zenon, <2>1, <1>5, <1>6 DEF Separated
  <2>3. IsIndex(t) /\ t.at = <<f, 1>>
    BY <2>1, <1>6 DEF BlobEntry, IsIndex
  <2> QED BY Zenon, <2>1, <2>2, <2>3, <1>9 DEF Replaced, t, k
<1>10. CASE IsIndex(k) /\ S = {k}
  BY Zenon, <1>6, <1>8, <1>10 DEF Replaced, t, k
<1>11. CASE \E p, q \in S : NewestTwo(p, q, S) /\ k = Chosen(p, q)
  <2>1. IsIndex(k) /\ ~ IsValue(k)
    BY Zenon, <1>7, <1>11
  <2> QED BY Zenon, <2>1, <1>6, <1>11 DEF Replaced, t, k
<1> QED BY Zenon, <1>4, <1>9, <1>10, <1>11


\* A table is installed: S gives way to one entry t.
LEMMA TableStep ==
  ASSUME IndInv, NEW S, NEW X, NEW f, Neighbours(S, log),
         restarts = 0 => Bottom(S, log), X = {} \/ X = S,
         NewBlobFile(Preprocess(S), f),
         log' = Without(log, S, TableEntry(Preprocess(S), f)),
         events' = events \cup Event(X, Preprocess(S), f),
         seq' = seq, bitmap' = bitmap, job' = job, puts' = puts, history' = history
  PROVE  LET t == TableEntry(Preprocess(S), f) IN
         /\ FileTypes' /\ DroppedInv' /\ JobInv' /\ ResolveInv' /\ ChainInv' /\ ReconInv'
         /\ LogTypes(log', Records', puts') /\ IsIndex(t)
         /\ \E s \in S : t.seq = s.seq
<1> DEFINE k == Preprocess(S)
           t == TableEntry(k, f)
<1>v. /\ bitmap' = bitmap /\ job' = job /\ puts' = puts /\ raced' = raced
      /\ stacked' = stacked /\ fellBack' = fellBack /\ restarts' = restarts
  BY Zenon DEF history
<1>t. /\ TreeTypes /\ FileTypes /\ DroppedInv /\ JobInv
      /\ ResolveInv /\ RunsInv /\ ChainInv /\ ReconInv
  BY Zenon DEF IndInv
<1>1. /\ Grows(Records, content, Records', content')
      /\ IsValue(k) => <<f, 1>> \in Records' \ Records /\ Record(content', <<f, 1>>) = k.value
      /\ \A r \in Records' : r \in Records \/ (IsValue(k) /\ r = <<f, 1>>)
      /\ state' \in [File -> FileState] /\ DOMAIN content' = File
      /\ \A g \in File : IsFiniteSet(DOMAIN content'[g])
      /\ \A g \in File : DOMAIN content[g] \subseteq DOMAIN content'[g]
      /\ \A g \in File : state'[g] = "kNone" => DOMAIN content'[g] = {}
      /\ \A g \in File : \/ state'[g] = state[g]
                         \/ /\ state[g] = "kNone" /\ state'[g] = "kPendingLSM"
                            /\ IsValue(k) /\ g = f
  BY Zenon, <1>t, NewFile
<1>2. /\ Replaced(S, t, Records, Records', content') /\ IsIndex(t)
      /\ IsValue(k) => k \in S /\ t.at = <<f, 1>>
  BY Zenon, <1>t, TableIs
<1>3. /\ Indexes(log) \subseteq Records /\ Ordered(log, seq)
      /\ seq \in Nat /\ puts \in Nat /\ puts > 0 /\ LogTypes(log, Records, puts)
      /\ S \subseteq log
  BY Zenon, <1>t, TreeIs DEF TreeTypes, Neighbours
<1>r. /\ Records = RecordsOf(content) /\ Records' = RecordsOf(content')
      /\ \A C : \A g, i : <<g, i>> \in RecordsOf(C) <=> g \in File /\ i \in DOMAIN C[g]
      /\ \A C : \A r \in RecordsOf(C) : /\ r = <<r[1], r[2]>> /\ r[1] \in File
                                        /\ r[2] \in DOMAIN C[r[1]]
  BY Zenon, RecordsAre
<1>d. \A event \in events' : event \in events \/ event.dropped = Indexes(X) \ {t.at}
  <2>1. Event(X, k, f) \subseteq {[file |-> f, dropped |-> Indexes(X) \ {t.at}]}
    BY Zenon DEF Event
  <2>2. [file |-> f, dropped |-> Indexes(X) \ {t.at}].dropped = Indexes(X) \ {t.at}
    OBVIOUS
  <2> QED BY Zenon, <2>1, <2>2
<1> HIDE DEF k, t
<1>e. log' = Without(log, S, t)
  BY Zenon DEF k, t
<1>4. /\ LogTypes(log', Records', puts)
      /\ \A r \in Indexes(log') : r \in Indexes(log) \/ r \in Records' \ Records
      /\ \A r \in Indexes(S) : r # t.at => r \notin Indexes(log')
  <2>1. /\ LogTypes(Without(log, S, t), Records', puts)
        /\ \A r \in Indexes(Without(log, S, t)) : r \in Indexes(log) \/ r \in Records' \ Records
        /\ \A r \in Indexes(S) : r # t.at => r \notin Indexes(Without(log, S, t))
    <3>1. /\ Grows(Records, content, Records', content') /\ puts \in Nat
          /\ Replaced(S, t, Records, Records', content') /\ LogTypes(log, Records, puts)
      BY ZenonT(40), <1>1, <1>2, <1>3
    <3> QED BY ONLY <3>1, Neighbours(S, log), ReplaceTypes, Zenon
  <2> QED BY ONLY <2>1, <1>e, Zenon
<1>5. \E s \in S : t.seq = s.seq
  BY ONLY <1>3, <1>1, <1>2, Neighbours(S, log), ReplacedIs
<1>6. /\ Indexes(X) \subseteq Indexes(log)
      /\ \A r \in Indexes(X) \ {t.at} : r \notin Indexes(log')
  <2>1. Indexes({}) = {}
    BY Zenon DEF Indexes
  <2>2. Indexes(S) \subseteq Indexes(log)
    BY Zenon, <1>3 DEF Indexes
  <2> QED BY Zenon, <2>1, <2>2, <1>4
\* No index of a file before it was written.
<1>7. \A r \in Records : r \in Records' /\ r[1] \in File /\ state'[r[1]] = state[r[1]]
                         /\ Record(content', r) = Record(content, r)
  <2> TAKE r \in Records
  <2>1. r[1] \in File /\ r[2] \in DOMAIN content[r[1]]
    BY Zenon, <1>r
  <2>2. state[r[1]] # "kNone"
    BY Zenon, <2>1, <1>t DEF FileTypes
  <2> QED BY Zenon, <2>1, <2>2, <1>1 DEF Grows
<1>8. FileTypes'
  <2>1. ASSUME NEW r \in Records'
        PROVE  LET v == Record(content', r) IN v \in Nat /\ 1 <= v /\ v <= puts'
    <3>1. CASE r \in Records
      BY Zenon, <3>1, <1>7, <1>t, <1>v DEF FileTypes
    <3>2. CASE IsValue(k) /\ r = <<f, 1>>
      <4>1. k \in log /\ Entry(k, Records, puts) /\ Record(content', r) = k.value
        BY Zenon, <3>2, <1>1, <1>2, <1>3 DEF LogTypes
      <4>2. k.value \in Nat /\ 1 <= k.value /\ k.value <= puts
        BY Zenon, <4>1, <3>2, <1>3, EntryIs
      <4> QED BY Zenon, <4>1, <4>2, <1>v
    <3> QED BY Zenon, <3>1, <3>2, <1>1
  <2>2. ASSUME NEW g \in File, state'[g] = "kInit", NEW r \in Indexes(log') PROVE r[1] # g
    <3>1. state[g] = "kInit" /\ state[g] # "kNone"
      <4>1. "kPendingLSM" # "kInit" /\ "kInit" # "kNone"
        OBVIOUS
      <4> QED BY Zenon, <4>1, <2>2, <1>1
    <3>2. CASE r \in Indexes(log)
      BY Zenon, <3>1, <3>2, <1>t DEF FileTypes
    <3>3. CASE r \in Records' \ Records
      <4>1. r = <<f, 1>> /\ IsValue(k) /\ <<f, 1>> \in Records' \ Records
        BY Zenon, <3>3, <1>1
      <4>2. r[1] = f
        BY <4>1
      <4>3. f = g => state'[g] = "kInit" /\ state[g] = "kInit"
        BY Zenon, <3>1, <2>2
      <4>4. CASE f = g
        <5>1. NewBlobFile(k, f)
          BY Zenon DEF k
        <5>2. state[f] = "kNone"
          BY Zenon, <5>1, <4>1 DEF NewBlobFile, Fresh, IsValue
        <5> QED BY Zenon, <5>2, <4>4, <3>1
      <4> QED BY Zenon, <4>2, <4>4
    <3> QED BY Zenon, <3>2, <3>3, <1>4
  <2>3. \A g \in File : bitmap'[g] \subseteq DOMAIN content'[g]
    BY Zenon, <1>1, <1>t, <1>v DEF FileTypes
  <2>4. \A event \in events' : event.dropped \subseteq Records'
    <3> TAKE event \in events'
    <3>1. CASE event \in events
      BY Zenon, <3>1, <1>7, <1>t DEF FileTypes
    <3>2. CASE event.dropped = Indexes(X) \ {t.at}
      BY Zenon, <3>2, <1>3, <1>6, <1>7
    <3> QED BY Zenon, <3>1, <3>2, <1>d
  <2>5. /\ DOMAIN bitmap' = File /\ raced' \in BOOLEAN /\ stacked' \in BOOLEAN
        /\ fellBack' \in BOOLEAN /\ restarts' \in Nat
    BY Zenon, <1>t, <1>v DEF FileTypes
  <2> QED BY Zenon, <2>1, <2>2, <2>3, <2>4, <2>5, <1>1 DEF FileTypes
\* A position of a record that was written comes from the tree.
<1>9. \A r \in Records : r \notin Indexes(log) => r \notin Indexes(log')
  BY Zenon, <1>4
<1>10. DroppedInv'
  <2>1. BitmapSound'
    <3> SUFFICES ASSUME NEW g \in File, NEW i \in bitmap'[g]
                 PROVE  <<g, i>> \notin Indexes(log')
      BY Zenon DEF BitmapSound
    <3>1. i \in bitmap[g] /\ i \in DOMAIN content[g]
      BY Zenon, <1>v, <1>t DEF FileTypes
    <3>2. <<g, i>> \in Records /\ <<g, i>> \notin Indexes(log)
      BY Zenon, <3>1, <1>r, <1>t DEF DroppedInv, BitmapSound
    <3> QED BY Zenon, <3>2, <1>9
  <2>2. \A event \in events' : \A r \in event.dropped : r \notin Indexes(log')
    <3> TAKE event \in events'
    <3>1. CASE event \in events
      BY Zenon, <3>1, <1>9, <1>t DEF DroppedInv, FileTypes
    <3>2. CASE event.dropped = Indexes(X) \ {t.at}
      BY Zenon, <3>2, <1>6
    <3> QED BY Zenon, <3>1, <3>2, <1>d
  <2> QED BY Zenon, <2>1, <2>2 DEF DroppedInv
<1>11. \A g \in File : /\ state[g] # "kNone" => state'[g] # "kNone"
                       /\ state[g] \notin Dead => state'[g] \notin Dead
                       /\ state[g] # "kInit" => state'[g] # "kInit"
  <2>1. "kPendingLSM" # "kNone" /\ "kPendingLSM" \notin Dead /\ "kPendingLSM" # "kInit"
    BY DEF Dead
  <2> QED BY Zenon, <2>1, <1>1
<1>12. JobInv'
  <2> SUFFICES ASSUME job.pc # "idle" PROVE JobInv'
    BY Zenon, <1>v DEF JobInv
  <2>1. /\ \A j \in DOMAIN job.keep :
             /\ job.keep[j] \in Records /\ <<job.out, j>> \in Records
             /\ Record(content, <<job.out, j>>) = Record(content, job.keep[j])
        /\ \A g \in job.inputs : g \in File /\ state[g] # "kNone" /\ g # job.out
        /\ job.out \in File => state[job.out] \notin Dead
        /\ job.pc = "rewrite" => (job.out \in File => state[job.out] # "kInit")
        /\ \A j \in DOMAIN job.keep : j >= job.next =>
             /\ <<job.out, j>> \notin Indexes(log) /\ j \notin bitmap[job.out]
             /\ \A event \in events : <<job.out, j>> \notin event.dropped
        /\ \A j \in job.dropped : /\ j \in DOMAIN job.keep /\ j < job.next
                                  /\ <<job.out, j>> \notin Indexes(log)
    BY Zenon, <1>t DEF JobInv
  <2>2. \A j \in DOMAIN job.keep :
             /\ job.keep[j] \in Records' /\ <<job.out, j>> \in Records'
             /\ Record(content', <<job.out, j>>) = Record(content', job.keep[j])
    BY Zenon, <2>1, <1>7
  <2>3. /\ \A g \in job.inputs : g \in File /\ state'[g] # "kNone" /\ g # job.out
        /\ job.out \in File => state'[job.out] \notin Dead
        /\ job.pc = "rewrite" => (job.out \in File => state'[job.out] # "kInit")
    BY Zenon, <2>1, <1>11
  <2>4. ASSUME NEW j \in DOMAIN job.keep, j >= job.next
        PROVE  /\ <<job.out, j>> \notin Indexes(log') /\ j \notin bitmap[job.out]
               /\ \A event \in events' : <<job.out, j>> \notin event.dropped
    <3>1. \A event \in events' : <<job.out, j>> \notin event.dropped
      BY Zenon, <2>1, <2>4, <1>d, <1>6
    <3> QED BY Zenon, <3>1, <2>1, <2>4, <1>9
  <2>5. \A j \in job.dropped : /\ j \in DOMAIN job.keep /\ j < job.next
                               /\ <<job.out, j>> \notin Indexes(log')
    BY Zenon, <2>1, <1>9
  <2>6. /\ JobRecord(job)
        /\ job.path \in {"hardware", "software"}
        /\ job.path = "software" => fellBack
        /\ job.next \in Nat /\ 1 <= job.next
        /\ \E n \in Nat : DOMAIN job.keep = 1 .. n
    BY Zenon, <1>t DEF JobInv
  <2> HIDE <1>t
  <2> QED BY Zenon, <2>2, <2>3, <2>4, <2>5, <2>6, <1>v DEF JobInv
<1>13. ResolveInv'
  <2> SUFFICES ASSUME ~ Misled PROVE ResolveInv'
    BY Zenon, <1>v DEF ResolveInv, Misled
  <2>1. ASSUME NEW e \in log', IsIndex(e), e.at \in Records
        PROVE  \E d \in log : /\ IsIndex(d) /\ d.at = e.at
                              /\ Covered(d, log) => Covered(e, log')
    BY ONLY <2>1, <1>e, <1>3, <1>1, <1>2, Neighbours(S, log), ReplaceCovered
  <2>2. ASSUME NEW e \in log', IsIndex(e), e.at \notin Records
        PROVE  e.at[1] = f /\ f \in File /\ state[f] = "kNone" /\ state'[f] = "kPendingLSM"
    <3>1. e.at \in Records'
      BY Zenon, <2>2, <1>3, <1>4, EntryIs DEF LogTypes
    <3>2. e.at = <<f, 1>> /\ IsValue(k)
      BY ZenonT(40), <3>1, <2>2, <1>1
    <3>3. e.at[1] = f
      BY <3>2
    <3>4. NewBlobFile(k, f)
      BY Zenon DEF k
    <3>5. /\ state[f] = "kNone" /\ f \in File
          /\ state' = [state EXCEPT ![f] = "kPendingLSM"]
      BY Zenon, <3>4, <3>2 DEF NewBlobFile, Fresh, IsValue
    <3>6. DOMAIN state = File
      BY Zenon, <1>t DEF FileTypes
    <3> QED BY Zenon, <3>3, <3>5, <3>6
  <2>3. ASSUME NEW e \in log', IsIndex(e), state'[e.at[1]] \in Dead
        PROVE  Covered(e, log')
    <3>1. "kPendingLSM" \notin Dead
      BY DEF Dead
    <3>2. e.at \in Records
      BY Zenon, <3>1, <2>2, <2>3
    <3>3. PICK d \in log : /\ IsIndex(d) /\ d.at = e.at
                           /\ Covered(d, log) => Covered(e, log')
      BY Zenon, <3>2, <2>1, <2>3
    <3>4. state[d.at[1]] \in Dead
      BY Zenon, <3>2, <3>3, <2>3, <1>7
    <3> QED BY Zenon, <3>3, <3>4, <1>t DEF ResolveInv
  <2>4. ASSUME job.pc # "idle", NEW e \in log', IsIndex(e), e.at[1] \in job.inputs
        PROVE  \/ Covered(e, log')
               \/ \E j \in DOMAIN job.keep : j >= job.next /\ job.keep[j] = e.at
    <3>1. e.at \in Records
      BY Zenon, <2>2, <2>4, <1>t DEF JobInv
    <3>2. PICK d \in log : /\ IsIndex(d) /\ d.at = e.at
                           /\ Covered(d, log) => Covered(e, log')
      BY Zenon, <3>1, <2>1, <2>4
    <3>3. \/ Covered(d, log)
          \/ \E j \in DOMAIN job.keep : j >= job.next /\ job.keep[j] = d.at
      BY Zenon, <3>2, <2>4, <1>t DEF ResolveInv
    <3> QED BY Zenon, <3>2, <3>3
  <2> QED BY Zenon, <2>3, <2>4, <1>v DEF ResolveInv
<1>14. ChainInv'
  <2> SUFFICES ASSUME ~ raced, restarts = 0 PROVE Chain(log', content', puts)
    BY Zenon, <1>v DEF ChainInv
  <2>1. Chain(log, content, puts) /\ Bottom(S, log)
    BY Zenon, <1>t DEF ChainInv
  <2> QED BY ONLY <2>1, <1>e, <1>1, <1>2, <1>3, Neighbours(S, log), ReplaceChain, Zenon
<1>15. ReconInv'
  <2> SUFFICES ASSUME ~ stacked, ~ Misled, restarts = 0 PROVE Recon(log', content', puts)
    BY Zenon, <1>v DEF ReconInv, Misled
  <2>1. Recon(log, content, puts) /\ Bottom(S, log)
    BY Zenon, <1>t DEF ReconInv
  <2> QED BY ONLY <2>1, <1>e, <1>1, <1>2, <1>3, Neighbours(S, log), ReplaceRecon, Zenon
<1>16. LogTypes(log', Records', puts')
  BY Zenon, <1>4, <1>v
<1> QED BY Zenon, <1>2, <1>5, <1>8, <1>10, <1>12, <1>13, <1>14, <1>15, <1>16 DEF t, k


\* A flush replaces the entries of the oldest immutable memtables.
LEMMA FlushStep ==
  ASSUME IndInv, NEW b, NEW f, Flush(b, f)
  PROVE  IndInv'
<1> DEFINE S == {d \in log : flushed < d.seq /\ d.seq <= b}
           k == Preprocess(S)
           t == TableEntry(k, f)
<1>u. /\ b \in switches /\ S # {} /\ NewBlobFile(k, f)
      /\ log' = Without(log, S, t) /\ flushed' = b
      /\ switches' = {c \in switches : c > b}
      /\ events' = events \cup Event({}, k, f)
      /\ seq' = seq /\ bitmap' = bitmap /\ job' = job /\ puts' = puts
      /\ history' = history
  BY Zenon DEF Flush, Without
<1>t. TreeTypes /\ FileTypes /\ RunsInv
  BY Zenon DEF IndInv
<1>1. /\ b \in Nat /\ b <= seq /\ flushed \in Nat /\ seq \in Nat
      /\ \A x \in log : x.seq \in Nat /\ 1 <= x.seq /\ x.seq <= seq
  BY Zenon, <1>t, <1>u, TreeIs DEF TreeTypes
<1>2. S \subseteq log /\ \A x : x \in S <=> x \in log /\ flushed < x.seq /\ x.seq <= b
  BY Zenon
<1> HIDE DEF S
<1>3. Neighbours(S, log)
  <2>1. ASSUME NEW x \in S, NEW y \in S, NEW c \in log, x.seq <= c.seq, c.seq <= y.seq
        PROVE  c \in S
    <3>1. flushed < x.seq /\ y.seq <= b /\ x.seq \in Nat /\ y.seq \in Nat /\ c.seq \in Nat
      BY Zenon, <1>1, <1>2
    <3>2. flushed < c.seq /\ c.seq <= b
      BY <3>1, <2>1, <1>1
    <3> QED BY Zenon, <3>2, <1>2
  <2> QED BY Zenon, <2>1, <1>2, <1>u DEF Neighbours
<1>4. restarts = 0 => Bottom(S, log)
  <2> SUFFICES ASSUME restarts = 0, NEW y \in log, y \notin S, \A s \in S : y.seq < s.seq
               PROVE  IsIndex(y)
    BY Zenon DEF Bottom
  <2>1. PICK s \in S : TRUE
    BY Zenon, <1>u
  <2>2. /\ y.seq < s.seq /\ s.seq <= b /\ s.seq \in Nat /\ y.seq \in Nat
        /\ ~ (flushed < y.seq /\ y.seq <= b)
    BY Zenon, <1>1, <1>2
  <2>3. y.seq <= flushed
    BY <2>2, <1>1
  <2> QED BY Zenon, <2>3, <1>t DEF RunsInv
<1> HIDE DEF k
<1>5. /\ FileTypes' /\ DroppedInv' /\ JobInv' /\ ResolveInv' /\ ChainInv' /\ ReconInv'
      /\ LogTypes(log', Records', puts') /\ IsIndex(t)
      /\ \E s \in S : t.seq = s.seq
  BY Zenon, <1>u, <1>3, <1>4, TableStep DEF k
<1> HIDE DEF t
<1>6. \A x \in log' : x = t \/ (x \in log /\ x \notin S)
  BY Zenon, <1>u DEF Without
<1>7. TreeTypes'
  <2>1. \A x \in log' : 1 <= x.seq /\ x.seq <= seq
    BY Zenon, <1>1, <1>2, <1>5, <1>6
  <2>2. log' # {}
    BY Zenon, <1>u DEF Without
  <2>3. \A c \in switches' : c \in Nat /\ c <= seq
    BY Zenon, <1>t, <1>u DEF TreeTypes
  <2>4. puts \in Nat /\ puts <= MaxPut
    BY Zenon, <1>t DEF TreeTypes
  <2> QED BY Zenon, <2>1, <2>2, <2>3, <2>4, <1>1, <1>5, <1>u DEF TreeTypes
<1>8. RunsInv'
  <2>1. restarts' = restarts
    BY Zenon, <1>u DEF history
  <2>2. ASSUME restarts = 0, NEW x \in log, x \notin S, x.seq <= b PROVE IsIndex(x)
    <3>1. x.seq \in Nat /\ ~ (flushed < x.seq /\ x.seq <= b)
      BY Zenon, <2>2, <1>1, <1>2
    <3>2. x.seq <= flushed
      BY <3>1, <2>2, <1>1
    <3> QED BY Zenon, <3>2, <2>2, <1>t DEF RunsInv
  <2> QED BY Zenon, <2>1, <2>2, <1>5, <1>6, <1>u DEF RunsInv
<1> QED BY Zenon, <1>5, <1>7, <1>8 DEF IndInv

\* A compaction replaces the entries of neighbouring runs.
LEMMA CompactStep ==
  ASSUME IndInv, NEW first, NEW last, NEW f, Compact(first, last, f)
  PROVE  IndInv'
<1> DEFINE S == {d \in Runs : first.seq <= d.seq /\ d.seq <= last.seq}
           k == Preprocess(S)
           t == TableEntry(k, f)
<1>u. /\ first \in Runs /\ last \in Runs /\ first.seq <= last.seq /\ NewBlobFile(k, f)
      /\ log' = Without(log, S, t)
      /\ events' = events \cup Event(S, k, f)
      /\ switches' = switches /\ flushed' = flushed
      /\ seq' = seq /\ bitmap' = bitmap /\ job' = job /\ puts' = puts
      /\ history' = history
  BY Zenon DEF Compact, Without
<1>t. TreeTypes /\ FileTypes /\ RunsInv
  BY Zenon DEF IndInv
<1>1. /\ flushed \in Nat /\ flushed <= seq /\ seq \in Nat
      /\ \A x \in log : x.seq \in Nat /\ 1 <= x.seq /\ x.seq <= seq
      /\ \A x : x \in Runs <=> x \in log /\ x.seq <= flushed
  BY Zenon, <1>t, TreeIs DEF TreeTypes, Runs
<1>2. /\ S \subseteq log
      /\ \A x : x \in S <=> x \in Runs /\ first.seq <= x.seq /\ x.seq <= last.seq
  BY Zenon, <1>1
<1> HIDE DEF S
<1>0. first.seq \in Nat /\ last.seq \in Nat
  BY Zenon, <1>u, <1>1
<1>3. Neighbours(S, log)
  <2>1. ASSUME NEW x \in S, NEW y \in S, NEW c \in log, x.seq <= c.seq, c.seq <= y.seq
        PROVE  c \in S
    <3>1. /\ first.seq <= x.seq /\ y.seq <= last.seq /\ y.seq <= flushed
          /\ x.seq \in Nat /\ y.seq \in Nat /\ c.seq \in Nat
      BY Zenon, <1>1, <1>2
    <3>2. first.seq <= c.seq /\ c.seq <= last.seq /\ c.seq <= flushed
      BY <3>1, <2>1, <1>0, <1>1
    <3> QED BY Zenon, <3>2, <1>1, <1>2
  <2>2. first \in S
    <3>1. first.seq <= first.seq
      BY <1>0
    <3> QED BY Zenon, <3>1, <1>2, <1>u
  <2> QED BY Zenon, <2>1, <2>2, <1>2 DEF Neighbours
<1>4. restarts = 0 => Bottom(S, log)
  <2> SUFFICES ASSUME restarts = 0, NEW y \in log, \A s \in S : y.seq < s.seq
               PROVE  IsIndex(y)
    BY Zenon DEF Bottom
  <2>1. PICK s \in S : TRUE
    BY Zenon, <1>3 DEF Neighbours
  <2>2. y.seq < s.seq /\ s.seq <= flushed /\ s.seq \in Nat /\ y.seq \in Nat
    BY Zenon, <1>1, <1>2
  <2>3. y.seq <= flushed
    BY <2>2, <1>1
  <2> QED BY Zenon, <2>3, <1>t DEF RunsInv
<1> HIDE DEF k
<1>5. /\ FileTypes' /\ DroppedInv' /\ JobInv' /\ ResolveInv' /\ ChainInv' /\ ReconInv'
      /\ LogTypes(log', Records', puts') /\ IsIndex(t)
      /\ \E s \in S : t.seq = s.seq
  BY Zenon, <1>u, <1>3, <1>4, TableStep DEF k
<1> HIDE DEF t
<1>6. \A x \in log' : x = t \/ (x \in log /\ x \notin S)
  BY Zenon, <1>u DEF Without
<1>7. TreeTypes'
  <2>1. \A x \in log' : 1 <= x.seq /\ x.seq <= seq
    BY Zenon, <1>1, <1>2, <1>5, <1>6
  <2>2. log' # {}
    BY Zenon, <1>u DEF Without
  <2>3. (\A c \in switches' : c \in Nat /\ c <= seq) /\ puts \in Nat /\ puts <= MaxPut
    BY Zenon, <1>t, <1>u DEF TreeTypes
  <2> QED BY Zenon, <2>1, <2>2, <2>3, <1>1, <1>5, <1>u DEF TreeTypes
<1>8. RunsInv'
  <2>1. restarts' = restarts
    BY Zenon, <1>u DEF history
  <2> QED BY Zenon, <2>1, <1>5, <1>6, <1>t, <1>u DEF RunsInv
<1> QED BY Zenon, <1>5, <1>7, <1>8 DEF IndInv


\* OnFlushCompleted and OnCompactionCompleted set bits of dropped positions.
LEMMA OnTableCompletedStep ==
  ASSUME IndInv, NEW event, OnTableCompleted(event)
  PROVE  IndInv'
<1> DEFINE bits(g) == {r[2] : r \in {d \in event.dropped : d[1] = g}}
<1>u. /\ event \in events /\ events' = events \ {event}
      /\ bitmap' = [g \in File |-> IF state[g] \in {"kObsolete", "kPurged"} THEN bitmap[g]
                                   ELSE bitmap[g] \cup bits(g)]
      /\ state' = [g \in File |-> IF g = event.file THEN "kNormal" ELSE state[g]]
  BY Zenon DEF OnTableCompleted
<1>v. /\ seq' = seq /\ log' = log /\ switches' = switches /\ flushed' = flushed
      /\ content' = content /\ job' = job /\ puts' = puts /\ raced' = raced
      /\ stacked' = stacked /\ fellBack' = fellBack /\ restarts' = restarts
  BY Zenon DEF OnTableCompleted, tree, history
<1>t. /\ TreeTypes /\ FileTypes /\ DroppedInv /\ JobInv
      /\ ResolveInv /\ RunsInv /\ ChainInv /\ ReconInv
  BY Zenon DEF IndInv
<1>r. /\ Records' = Records
      /\ \A g, i : <<g, i>> \in Records <=> g \in File /\ i \in DOMAIN content[g]
      /\ \A r \in Records : /\ r = <<r[1], r[2]>> /\ r[1] \in File
                            /\ r[2] \in DOMAIN content[r[1]]
  BY Zenon, <1>v, RecordsAre
<1>1. event.dropped \subseteq Records /\ \A r \in event.dropped : r \notin Indexes(log)
  BY Zenon, <1>t, <1>u DEF FileTypes, DroppedInv
\* A bit is an old one, or it is of a position that was dropped.
<1>2. \A g \in File : \A i \in bitmap'[g] : i \in bitmap[g] \/ <<g, i>> \in event.dropped
  <2> SUFFICES ASSUME NEW g \in File, NEW i \in bits(g) PROVE <<g, i>> \in event.dropped
    BY Zenon, <1>u
  <2>1. PICK r \in event.dropped : r[1] = g /\ i = r[2]
    BY Zenon
  <2>2. r = <<r[1], r[2]>>
    BY Zenon, <1>1, <1>r
  <2> QED BY Zenon, <2>1, <2>2
<1>3. /\ DOMAIN state' = File /\ DOMAIN bitmap' = File
      /\ \A g \in File : state'[g] = state[g] \/ state'[g] = "kNormal"
  BY Zenon, <1>u
<1> HIDE DEF bits
<1>4. /\ \A g \in File : state'[g] = "kNone" => state[g] = "kNone"
      /\ \A g \in File : state'[g] = "kInit" => state[g] = "kInit"
      /\ \A g \in File : state'[g] \in Dead => state[g] \in Dead
  <2>1. "kNormal" # "kNone" /\ "kNormal" # "kInit" /\ "kNormal" \notin Dead
    BY DEF Dead
  <2> QED BY Zenon, <2>1, <1>3
<1>5. TreeTypes'
  BY Zenon, <1>t, <1>v, <1>r DEF TreeTypes
<1>6. FileTypes'
  <2>1. state' \in [File -> FileState]
    <3>1. "kNormal" \in FileState
      BY DEF FileState
    <3>2. \A g \in File : state[g] \in FileState
      BY Zenon, <1>t DEF FileTypes
    <3> QED BY Zenon, <3>1, <3>2, <1>u
  <2>2. \A g \in File : bitmap'[g] \subseteq DOMAIN content[g]
    <3> SUFFICES ASSUME NEW g \in File, NEW i \in bitmap'[g] PROVE i \in DOMAIN content[g]
      BY Zenon
    <3>1. CASE i \in bitmap[g]
      BY Zenon, <3>1, <1>t DEF FileTypes
    <3>2. CASE <<g, i>> \in event.dropped
      BY Zenon, <3>2, <1>1, <1>r
    <3> QED BY Zenon, <3>1, <3>2, <1>2
  <2>3. /\ \A g \in File : state'[g] = "kNone" => DOMAIN content'[g] = {}
        /\ \A g \in File : state'[g] = "kInit" => \A r \in Indexes(log') : r[1] # g
        /\ \A x \in events' : x.dropped \subseteq Records'
    BY Zenon, <1>4, <1>t, <1>u, <1>v, <1>r DEF FileTypes
  <2> QED BY Zenon, <2>1, <2>2, <2>3, <1>3, <1>t, <1>v, <1>r DEF FileTypes
<1>7. DroppedInv'
  <2>1. BitmapSound'
    BY Zenon, <1>1, <1>2, <1>t, <1>v DEF DroppedInv, BitmapSound
  <2> QED BY Zenon, <2>1, <1>t, <1>u, <1>v DEF DroppedInv
<1>8. JobInv'
  <2> SUFFICES ASSUME job.pc # "idle" PROVE JobInv'
    BY Zenon, <1>v DEF JobInv
  <2>1. ASSUME NEW j \in DOMAIN job.keep, j >= job.next PROVE j \notin bitmap'[job.out]
    <3>1. /\ <<job.out, j>> \in Records /\ j \notin bitmap[job.out]
          /\ <<job.out, j>> \notin event.dropped
      BY Zenon, <2>1, <1>t, <1>u DEF JobInv
    <3> QED BY Zenon, <3>1, <1>2, <1>r
  <2>2. /\ \A g \in job.inputs : g \in File /\ state'[g] # "kNone" /\ g # job.out
        /\ job.out \in File => state'[job.out] \notin Dead
        /\ job.pc = "rewrite" => (job.out \in File => state'[job.out] # "kInit")
    BY Zenon, <1>4, <1>t DEF JobInv
  <2> QED BY Zenon, <2>1, <2>2, <1>t, <1>u, <1>v, <1>r DEF JobInv
<1>9. ResolveInv'
  <2>1. \A e \in log : IsIndex(e) => e.at[1] \in File
    BY Zenon, <1>t, <1>r, TreeIs
  <2> QED BY Zenon, <2>1, <1>4, <1>t, <1>v DEF ResolveInv, Misled
<1>10. RunsInv' /\ ChainInv' /\ ReconInv'
  BY Zenon, <1>t, <1>v DEF RunsInv, ChainInv, ReconInv, Misled
<1> QED BY Zenon, <1>5, <1>6, <1>7, <1>8, <1>9, <1>10 DEF IndInv

-----------------------------------------------------------------------------
(* Restart.                                                                *)

\* A restart replaces the entries of the memtables and forgets the bitmaps.
LEMMA RestartStep ==
  ASSUME IndInv, Restart
  PROVE  IndInv'
<1> DEFINE S == log \ Runs
           t == Preprocess(S)
<1>u. /\ restarts' = restarts + 1
      /\ log' = IF S = {} THEN log ELSE Runs \cup {t}
      /\ switches' = {} /\ flushed' = seq
      /\ state' = [g \in File |->
                     IF state[g] = "kNone" THEN "kNone"
                     ELSE IF state[g] \in {"kInit", "kObsolete", "kPurged"} THEN "kPurged"
                     ELSE "kNormal"]
      /\ bitmap' = [g \in File |-> {}] /\ events' = {} /\ job' = NoJob
      /\ seq' = seq /\ content' = content /\ puts' = puts /\ raced' = raced
      /\ stacked' = stacked /\ fellBack' = fellBack
  BY Zenon DEF Restart
<1>t. TreeTypes /\ FileTypes /\ ResolveInv
  BY Zenon DEF IndInv
<1>1. /\ flushed \in Nat /\ seq \in Nat /\ puts \in Nat /\ restarts \in Nat
      /\ \A x \in log : x.seq \in Nat /\ 1 <= x.seq /\ x.seq <= seq
      /\ \A x : x \in Runs <=> x \in log /\ x.seq <= flushed
      /\ LogTypes(log, Records, puts) /\ Ordered(log, seq)
  BY Zenon, <1>t, TreeIs DEF TreeTypes, FileTypes, Runs
<1>r. Records' = Records /\ None \notin Records
      /\ \A r \in Records : r[1] \in File
  BY Zenon, <1>u, RecordsAre
<1>2. Grows(Records, content, Records, content)
  BY Zenon, <1>r DEF Grows
<1> HIDE DEF S
<1>3. ASSUME S # {}
      PROVE  /\ Neighbours(S, log) /\ Replaced(S, t, Records, Records, content)
             /\ log' = Without(log, S, t)
  <2>1. S \in SUBSET log /\ \A x \in S : ~ (x.seq <= flushed)
    BY Zenon, <1>1 DEF S
  <2>2. ASSUME NEW x \in S, NEW c \in log, x.seq <= c.seq PROVE c \in S
    <3>1. x.seq \in Nat /\ c.seq \in Nat /\ ~ (x.seq <= flushed)
      BY Zenon, <2>1, <1>1
    <3>2. ~ (c.seq <= flushed)
      BY <3>1, <2>2, <1>1
    <3> QED BY Zenon, <3>2, <1>1 DEF S
  <2>3. Neighbours(S, log)
    BY Zenon, <2>1, <2>2, <1>3 DEF Neighbours
  <2>4. Ordered(S, seq)
    BY Zenon, <2>1, <1>1, OrderedSubset
  <2>5. \A x \in S : x = ValueEntry(x.seq, x.value) \/ x = BlobEntry(x.seq, x.at, x.old)
    BY Zenon, <2>1, <1>1 DEF LogTypes, Entry
  <2>6. \/ IsIndex(t) /\ S = {t}
        \/ NewestValue(t, S)
        \/ \E p, q \in S : NewestTwo(p, q, S) /\ t = Chosen(p, q)
    BY ONLY <2>4, <2>5, <1>1, <1>3, KeptIs, Zenon
  <2> HIDE DEF t
  <2>7. Replaced(S, t, Records, Records, content)
    BY Zenon, <2>6 DEF Replaced, NewestValue
  <2>8. log \ S = Runs
    BY Zenon, <1>1 DEF S
  <2> QED BY Zenon, <2>3, <2>7, <2>8, <1>3, <1>u DEF Without, t
<1> HIDE DEF t
\* Every index of the tree was there, and is covered if it was.
<1>4. ASSUME NEW e \in log', IsIndex(e)
      PROVE  \E d \in log : IsIndex(d) /\ d.at = e.at /\ (Covered(d, log) => Covered(e, log'))
  <2>1. CASE S = {}
    BY Zenon, <2>1, <1>4, <1>u
  <2>2. CASE S # {}
    <3>1. /\ Neighbours(S, log) /\ Replaced(S, t, Records, Records, content)
          /\ log' = Without(log, S, t)
      BY Zenon, <2>2, <1>3
    <3>2. LogTypes(Without(log, S, t), Records, puts)
      BY ONLY <3>1, <1>1, <1>2, ReplaceTypes, Zenon
    <3>3. e.at \in Records
      BY Zenon, <3>1, <3>2, <1>1, <1>4, EntryIs DEF LogTypes
    <3> QED BY ONLY <3>1, <3>3, <1>1, <1>2, <1>4, ReplaceCovered
  <2> QED BY Zenon, <2>1, <2>2
<1>5. /\ LogTypes(log', Records, puts)
      /\ \A x \in log' : 1 <= x.seq /\ x.seq <= seq
      /\ log # {} => log' # {}
  <2>1. CASE S = {}
    BY Zenon, <2>1, <1>1, <1>u
  <2>2. CASE S # {}
    <3>1. /\ Neighbours(S, log) /\ Replaced(S, t, Records, Records, content)
          /\ log' = Without(log, S, t)
      BY Zenon, <2>2, <1>3
    <3>2. LogTypes(Without(log, S, t), Records, puts)
      BY ONLY <3>1, <1>1, <1>2, ReplaceTypes, Zenon
    <3>3. \E s \in S : t.seq = s.seq
      BY ONLY <3>1, <1>1, <1>2, ReplacedIs
    <3>4. \A x \in log' : x \in log \/ x = t
      BY Zenon, <3>1 DEF Without
    <3>5. S \subseteq log
      BY Zenon, <3>1 DEF Neighbours
    <3>6. \A x \in log' : 1 <= x.seq /\ x.seq <= seq
      BY Zenon, <3>3, <3>4, <3>5, <1>1
    <3>7. log' # {}
      BY Zenon, <3>1 DEF Without
    <3> QED BY Zenon, <3>1, <3>2, <3>6, <3>7
  <2> QED BY Zenon, <2>1, <2>2
<1>6. TreeTypes'
  <2>1. seq <= seq /\ puts <= MaxPut /\ (puts > 0 => log # {})
    <3>1. puts <= MaxPut /\ (puts > 0 => log # {})
      BY Zenon, <1>t DEF TreeTypes
    <3> QED BY <3>1, <1>1
  <2> QED BY Zenon, <2>1, <1>1, <1>5, <1>r, <1>u DEF TreeTypes
<1>7. FileTypes'
  <2>1. /\ state' \in [File -> FileState]
        /\ \A g \in File : state'[g] = "kNone" => state[g] = "kNone"
        /\ \A g \in File : state'[g] # "kInit"
    BY <1>u DEF FileState
  <2>2. restarts + 1 \in Nat
    BY <1>1
  <2>3. DOMAIN bitmap' = File /\ \A g \in File : bitmap'[g] = {}
    BY Zenon, <1>u
  <2> QED BY Zenon, <2>1, <2>2, <2>3, <1>r, <1>t, <1>u DEF FileTypes
<1>8. DroppedInv'
  BY Zenon, <1>u DEF DroppedInv, BitmapSound
<1>9. job'.pc = "idle"
  BY <1>u DEF NoJob
<1>10. JobInv'
  BY Zenon, <1>9 DEF JobInv
<1>11. restarts' > 0 /\ restarts' # 0
  BY <1>1, <1>u
<1>12. ResolveInv'
  <2> SUFFICES ASSUME ~ Misled' PROVE ResolveInv'
    BY Zenon DEF ResolveInv
  <2>1. ~ Misled
    BY Zenon, <1>11, <1>u DEF Misled
  <2>2. \A g \in File : state'[g] \in Dead => state[g] \in Dead \/ state[g] = "kInit"
    BY <1>u DEF Dead
  <2>3. ASSUME NEW e \in log', IsIndex(e), state'[e.at[1]] \in Dead PROVE Covered(e, log')
    <3>1. PICK d \in log : IsIndex(d) /\ d.at = e.at /\ (Covered(d, log) => Covered(e, log'))
      BY Zenon, <2>3, <1>4
    <3>2. d.at \in Records /\ d.at \in Indexes(log)
      BY Zenon, <3>1, <1>t, TreeIs
    <3>3. state[d.at[1]] # "kInit"
      BY Zenon, <3>2, <1>r, <1>t DEF FileTypes
    <3>4. state[d.at[1]] \in Dead
      BY Zenon, <3>1, <3>2, <3>3, <2>2, <2>3, <1>r
    <3> QED BY Zenon, <3>1, <3>4, <2>1, <1>t DEF ResolveInv
  <2> QED BY Zenon, <2>3, <1>9 DEF ResolveInv
<1>13. RunsInv' /\ ChainInv' /\ ReconInv'
  BY Zenon, <1>11 DEF RunsInv, ChainInv, ReconInv
<1> QED BY Zenon, <1>6, <1>7, <1>8, <1>10, <1>12, <1>13 DEF IndInv


-----------------------------------------------------------------------------
(* Garbage collection.                                                     *)

\* There are finitely many records.
LEMMA RecordsFinite ==
  ASSUME FileTypes
  PROVE  IsFiniteSet(Records)
<1> DEFINE all == {{g} \X DOMAIN content[g] : g \in File}
           fn == [g \in File |-> {g} \X DOMAIN content[g]]
<1>1. IsFiniteSet(File)
  <2>1. 1 \in Int /\ MaxFile \in Int
    BY WriteBackAssumption
  <2> QED BY Zenon, <2>1, FS_Interval DEF File
<1>2. fn \in Surjection(File, all)
  BY Zenon DEF Surjection
<1>3. IsFiniteSet(all)
  BY ONLY <1>1, <1>2, FS_Surjection, Zenon
<1>4. ASSUME NEW T \in all PROVE IsFiniteSet(T)
  <2>1. PICK g \in File : T = {g} \X DOMAIN content[g]
    BY Zenon
  <2>2. IsFiniteSet({g}) /\ IsFiniteSet(DOMAIN content[g])
    BY Zenon, FS_Singleton DEF FileTypes
  <2>3. IsFiniteSet({g} \X DOMAIN content[g])
    BY ONLY <2>2, FS_Product, Zenon
  <2> QED BY Zenon, <2>1, <2>3
<1>5. IsFiniteSet(UNION all)
  <2> HIDE DEF all
  <2> QED BY ONLY <1>3, <1>4, FS_UNION, Zenon
<1> QED BY Zenon, <1>5 DEF Records

\* The records that a job keeps are the ones with no bit, in some order.
LEMMA KeepIs ==
  ASSUME FileTypes, NEW path, NEW inputs \in SUBSET File,
         NEW keep \in ReadOrders(path, ValidRecords(inputs))
  PROVE  /\ \E n \in Nat : DOMAIN keep = 1 .. n
         /\ \A j \in DOMAIN keep : /\ keep[j] \in ValidRecords(inputs)
                                   /\ keep[j] \in Records /\ keep[j][1] \in inputs
         /\ \A r \in Records : r[1] \in inputs /\ r[2] \notin bitmap[r[1]] =>
              \E j \in DOMAIN keep : keep[j] = r
<1> DEFINE V == ValidRecords(inputs)
<1>1. \A f, i : <<f, i>> \in V <=> f \in inputs /\ i \in DOMAIN content[f] /\ i \notin bitmap[f]
  BY DEF ValidRecords
<1>2. ASSUME NEW r \in V PROVE r \in Records /\ r[1] \in inputs
  <2>1. PICK f \in inputs : r \in {f} \X (DOMAIN content[f] \ bitmap[f])
    BY Zenon DEF ValidRecords
  <2>2. r = <<f, r[2]>> /\ r[1] = f /\ r[2] \in DOMAIN content[f]
    BY ONLY <2>1
  <2>3. <<f, r[2]>> \in Records
    BY Zenon, <2>2, RecordsAre
  <2> QED BY Zenon, <2>2, <2>3
<1>3. ASSUME NEW r \in Records, r[1] \in inputs, r[2] \notin bitmap[r[1]] PROVE r \in V
  <2>1. r = <<r[1], r[2]>> /\ r[2] \in DOMAIN content[r[1]]
    BY Zenon, RecordsAre
  <2>2. <<r[1], r[2]>> \in V
    BY Zenon, <2>1, <1>1, <1>3
  <2> QED BY Zenon, <2>1, <2>2
<1> HIDE DEF V
<1>4. /\ keep \in [1 .. Cardinality(V) -> V]
      /\ \A r \in V : \E j \in DOMAIN keep : keep[j] = r
  BY Zenon DEF ReadOrders, V
<1>5. Cardinality(V) \in Nat
  <2>1. V \in SUBSET Records /\ IsFiniteSet(Records)
    BY Zenon, <1>2, RecordsFinite
  <2>2. IsFiniteSet(V)
    BY ONLY <2>1, FS_Subset, Zenon
  <2> QED BY ONLY <2>2, FS_CardinalityType, Zenon
<1>6. DOMAIN keep = 1 .. Cardinality(V) /\ \A j \in DOMAIN keep : keep[j] \in V
  BY Zenon, <1>4
<1> QED BY Zenon, <1>2, <1>3, <1>4, <1>5, <1>6 DEF V

\* A job copies the records that the bitmaps call valid.
LEMMA DoRunGCStep ==
  ASSUME IndInv, NEW path \in Path, NEW inputs \in Inputs, NEW out \in Written,
         DoRunGC(path, inputs, out)
  PROVE  IndInv'
<1> DEFINE V == ValidRecords(inputs)
<1>u. /\ \A g \in inputs : state[g] = "kNormal"
      /\ IF path = "hardware" \/ V # {} THEN Fresh(out) ELSE out = 0
      /\ state' = [g \in File |-> IF g \in inputs THEN "kBeingGC"
                                  ELSE IF g = out THEN "kInit" ELSE state[g]]
      /\ fellBack' = (fellBack \/ path = "software")
  BY Zenon DEF DoRunGC
<1>k. PICK keep \in ReadOrders(path, V) :
       /\ job' = [pc |-> "install", path |-> path, inputs |-> inputs, out |-> out,
                  keep |-> keep, next |-> 1, dropped |-> {}]
       /\ content' = [f \in File |->
                        IF f # out THEN content[f]
                        ELSE [k \in DOMAIN keep |-> content[keep[k][1]][keep[k][2]]]]
  BY Zenon DEF DoRunGC
<1>v. /\ seq' = seq /\ log' = log /\ switches' = switches /\ flushed' = flushed
      /\ bitmap' = bitmap /\ events' = events /\ puts' = puts /\ raced' = raced
      /\ stacked' = stacked /\ restarts' = restarts
  BY Zenon DEF DoRunGC, tree
<1>t. /\ TreeTypes /\ FileTypes /\ DroppedInv /\ JobInv
      /\ ResolveInv /\ RunsInv /\ ChainInv /\ ReconInv
  BY Zenon DEF IndInv
<1>i. inputs \in SUBSET File
  BY Zenon DEF Inputs
<1>1. /\ \E n \in Nat : DOMAIN keep = 1 .. n
      /\ \A j \in DOMAIN keep : /\ keep[j] \in V
                                /\ keep[j] \in Records /\ keep[j][1] \in inputs
      /\ \A r \in Records : r[1] \in inputs /\ r[2] \notin bitmap[r[1]] =>
           \E j \in DOMAIN keep : keep[j] = r
  <2>1. FileTypes /\ keep \in ReadOrders(path, ValidRecords(inputs))
    BY Zenon, <1>t, <1>k
  <2> QED BY ONLY <2>1, <1>i, KeepIs DEF V
<1>j. /\ job'.pc = "install" /\ job'.path = path /\ job'.inputs = inputs
      /\ job'.out = out /\ job'.keep = keep /\ job'.next = 1 /\ job'.dropped = {}
  BY ONLY <1>k
<1> HIDE DEF V
<1>2. /\ out \in File => state[out] = "kNone" /\ DOMAIN content[out] = {}
      /\ \A j \in DOMAIN keep : out \in File
  <2>1. Fresh(out) => out \in File /\ state[out] = "kNone"
    BY Zenon DEF Fresh
  <2>2. 0 \notin File
    BY WriteBackAssumption DEF File
  <2>3. out \in File => state[out] = "kNone"
    BY Zenon, <2>1, <2>2, <1>u
  <2>4. \A j \in DOMAIN keep : out \in File
    BY Zenon, <2>1, <1>1, <1>u
  <2> QED BY Zenon, <2>3, <2>4, <1>t DEF FileTypes
<1>r. /\ Records = RecordsOf(content) /\ Records' = RecordsOf(content')
      /\ \A C : \A g, i : <<g, i>> \in RecordsOf(C) <=> g \in File /\ i \in DOMAIN C[g]
      /\ \A C : \A r \in RecordsOf(C) : /\ r = <<r[1], r[2]>> /\ r[1] \in File
                                        /\ r[2] \in DOMAIN C[r[1]]
      /\ \A C : None \notin RecordsOf(C)
  BY Zenon, RecordsAre
<1>3. \A r \in Records : r[1] # out /\ r[1] \in File
  <2> TAKE r \in Records
  <2>1. r[1] \in File /\ r[2] \in DOMAIN content[r[1]]
    BY Zenon, <1>r
  <2>2. r[1] = out => r[2] \in DOMAIN content[out]
    BY Zenon, <2>1
  <2> QED BY Zenon, <2>1, <2>2, <1>2
<1>4. /\ DOMAIN content' = File
      /\ \A g \in File : g # out => content'[g] = content[g]
      /\ out \in File => content'[out] = [j \in DOMAIN keep |-> Record(content, keep[j])]
  BY Zenon, <1>k DEF Record
<1>5. out \in File => DOMAIN content'[out] = DOMAIN keep
                      /\ \A j \in DOMAIN keep : content'[out][j] = Record(content, keep[j])
  BY Zenon, <1>4
<1>6. \A r \in Records : r \in Records' /\ Record(content', r) = Record(content, r)
  <2> TAKE r \in Records
  <2>1. r = <<r[1], r[2]>> /\ r[1] \in File /\ r[2] \in DOMAIN content[r[1]]
    BY Zenon, <1>r
  <2>2. content'[r[1]] = content[r[1]]
    BY Zenon, <2>1, <1>3, <1>4
  <2>3. <<r[1], r[2]>> \in Records'
    BY Zenon, <2>1, <2>2, <1>r
  <2> QED BY Zenon, <2>1, <2>2, <2>3 DEF Record
<1>7. Grows(Records, content, Records', content')
  BY Zenon, <1>6, <1>r DEF Grows
\* The records of the output.
<1>8. \A j \in DOMAIN keep : /\ <<out, j>> \in Records' /\ <<out, j>> \notin Records
                             /\ Record(content', <<out, j>>) = Record(content, keep[j])
  <2> TAKE j \in DOMAIN keep
  <2>1. out \in File
    BY Zenon, <1>2
  <2>2. <<out, j>>[1] = out /\ <<out, j>>[2] = j
    OBVIOUS
  <2>3. <<out, j>> \notin Records
    BY Zenon, <2>2, <1>3
  <2>4. <<out, j>> \in Records'
    BY Zenon, <2>1, <1>5, <1>r
  <2> QED BY Zenon, <2>1, <2>2, <2>3, <2>4, <1>5 DEF Record
<1>9. \A r \in Records' : r \in Records \/ \E j \in DOMAIN keep : r = <<out, j>>
  <2> TAKE r \in Records'
  <2>1. r = <<r[1], r[2]>> /\ r[1] \in File /\ r[2] \in DOMAIN content'[r[1]]
    BY Zenon, <1>r
  <2>2. CASE r[1] = out
    <3>1. r[2] \in DOMAIN keep
      BY Zenon, <2>1, <2>2, <1>5
    <3> QED BY Zenon, <3>1, <2>1, <2>2
  <2>3. CASE r[1] # out
    <3>1. <<r[1], r[2]>> \in Records
      BY Zenon, <2>1, <2>3, <1>4, <1>r
    <3> QED BY Zenon, <3>1, <2>1
  <2> QED BY Zenon, <2>2, <2>3
<1>10. /\ DOMAIN state' = File /\ state' \in [File -> FileState]
       /\ \A g \in File : state'[g] \in Dead => state[g] \in Dead
       /\ \A g \in File : state'[g] = "kNone" => state[g] = "kNone" /\ g # out
       /\ \A g \in File : state'[g] = "kInit" => state[g] = "kInit" \/ g = out
       /\ \A g \in inputs : state'[g] # "kNone" /\ g # out
       /\ out \in File => state'[out] = "kInit"
  <2>1. state \in [File -> FileState] /\ (out \in File => state[out] = "kNone")
    BY Zenon, <1>t, <1>2 DEF FileTypes
  <2>2. \A g \in inputs : g # out
    BY <2>1, <1>i, <1>u
  <2> QED BY <2>1, <2>2, <1>i, <1>u DEF FileState, Dead
<1>11. /\ puts \in Nat /\ LogTypes(log, Records, puts) /\ Indexes(log) \subseteq Records
       /\ \A e \in log : IsIndex(e) => e.at \in Records
  BY Zenon, <1>t, TreeIs DEF TreeTypes
<1>12. /\ Chain(log, content, puts) => Chain(log, content', puts)
       /\ Recon(log, content, puts) => Recon(log, content', puts)
       /\ LogTypes(log, Records', puts)
  <2>1. puts \in Nat /\ LogTypes(log, Records, puts)
    BY Zenon, <1>11
  <2> QED BY ONLY <2>1, <1>7, KeptChain, Zenon
<1>13. TreeTypes'
  <2>1. LogTypes(log, Records', puts)
    BY Zenon, <1>12
  <2> QED BY Zenon, <2>1, <1>t, <1>v DEF TreeTypes
<1>14. FileTypes'
  <2>1. \A r \in Records' : LET v == Record(content', r) IN v \in Nat /\ 1 <= v /\ v <= puts'
    <3> TAKE r \in Records'
    <3>1. \A q \in Records : LET v == Record(content, q) IN v \in Nat /\ 1 <= v /\ v <= puts
      BY Zenon, <1>t DEF FileTypes
    <3>2. \E q \in Records : Record(content', r) = Record(content, q)
      BY Zenon, <1>1, <1>6, <1>8, <1>9
    <3> QED BY Zenon, <3>1, <3>2, <1>v
  <2>2. \A g \in File : IsFiniteSet(DOMAIN content'[g])
    <3>1. PICK n \in Nat : DOMAIN keep = 1 .. n
      BY Zenon, <1>1
    <3>2. 1 \in Int /\ n \in Int
      OBVIOUS
    <3>3. IsFiniteSet(DOMAIN keep)
      BY Zenon, <3>1, <3>2, FS_Interval
    <3> QED BY Zenon, <3>3, <1>4, <1>5, <1>t DEF FileTypes
  <2>3. \A g \in File : state'[g] = "kNone" => DOMAIN content'[g] = {}
    BY Zenon, <1>4, <1>10, <1>t DEF FileTypes
  <2>4. ASSUME NEW g \in File, state'[g] = "kInit", NEW r \in Indexes(log) PROVE r[1] # g
    <3>1. CASE state[g] = "kInit"
      BY Zenon, <3>1, <1>t DEF FileTypes
    <3>2. CASE g = out
      BY Zenon, <3>2, <1>3, <1>11
    <3> QED BY Zenon, <3>1, <3>2, <2>4, <1>10
  <2>5. \A g \in File : bitmap'[g] \subseteq DOMAIN content'[g]
    <3> TAKE g \in File
    <3>1. bitmap[g] \subseteq DOMAIN content[g]
      BY Zenon, <1>t DEF FileTypes
    <3>2. DOMAIN content[g] \subseteq DOMAIN content'[g]
      BY Zenon, <1>2, <1>4
    <3> QED BY Zenon, <3>1, <3>2, <1>v
  <2>6. \A event \in events' : event.dropped \subseteq Records'
    BY Zenon, <1>6, <1>t, <1>v DEF FileTypes
  <2>7. /\ DOMAIN bitmap' = File /\ raced' \in BOOLEAN /\ stacked' \in BOOLEAN
        /\ fellBack' \in BOOLEAN /\ restarts' \in Nat
    BY Zenon, <1>t, <1>u, <1>v DEF FileTypes
  <2> QED BY Zenon, <2>1, <2>2, <2>3, <2>4, <2>5, <2>6, <2>7, <1>4, <1>10, <1>v DEF FileTypes
<1>15. DroppedInv'
  BY Zenon, <1>t, <1>v DEF DroppedInv, BitmapSound
<1>16. JobInv'
  <2>1. JobRecord(job')
    BY <1>k DEF JobRecord
  <2>2. /\ path \in {"hardware", "software"}
        /\ path = "software" => fellBack'
    BY Zenon, <1>u, WriteBackAssumption
  <2>3. 1 \in Nat /\ 1 <= 1
    OBVIOUS
  <2>4. \A j \in DOMAIN keep :
          /\ keep[j] \in Records' /\ <<out, j>> \in Records'
          /\ Record(content', <<out, j>>) = Record(content', keep[j])
    BY Zenon, <1>1, <1>6, <1>8
  <2>5. /\ \A g \in inputs : g \in File /\ state'[g] # "kNone" /\ g # out
        /\ out \in File => state'[out] \notin Dead
    BY <1>i, <1>10 DEF Dead
  <2>6. \A j \in DOMAIN keep :
          /\ <<out, j>> \notin Indexes(log') /\ j \notin bitmap'[out]
          /\ \A event \in events' : <<out, j>> \notin event.dropped
    <3> TAKE j \in DOMAIN keep
    <3>1. <<out, j>> \notin Records /\ out \in File
      BY Zenon, <1>2, <1>8
    <3>2. j \notin bitmap[out]
      BY Zenon, <3>1, <1>2, <1>t DEF FileTypes
    <3>3. \A event \in events : <<out, j>> \notin event.dropped
      BY Zenon, <3>1, <1>t DEF FileTypes
    <3> QED BY Zenon, <3>1, <3>2, <3>3, <1>11, <1>v
  <2>7. "install" # "rewrite"
    OBVIOUS
  <2> HIDE <1>t, <1>k
  <2> QED BY ZenonT(40), <2>1, <2>2, <2>3, <2>4, <2>5, <2>6, <2>7, <1>1, <1>j DEF JobInv
\* What the job does not keep is in no entry.
<1>17. ResolveInv'
  <2> SUFFICES ASSUME ~ Misled' PROVE ResolveInv'
    BY Zenon DEF ResolveInv
  <2>1. ~ Misled
    BY Zenon, <1>u, <1>v DEF Misled
  <2>2. ASSUME NEW e \in log, IsIndex(e), state'[e.at[1]] \in Dead PROVE Covered(e, log)
    BY Zenon, <2>1, <2>2, <1>3, <1>10, <1>11, <1>t DEF ResolveInv
  <2>3. ASSUME NEW e \in log, IsIndex(e), e.at[1] \in inputs
        PROVE  \E j \in DOMAIN keep : j >= 1 /\ keep[j] = e.at
    <3>1. e.at \in Records /\ e.at = <<e.at[1], e.at[2]>> /\ e.at[1] \in File
      BY Zenon, <2>3, <1>11, <1>r
    <3>2. e.at \in Indexes(log)
      BY Zenon, <2>3, <1>t, TreeIs
    <3>3. e.at[2] \in bitmap[e.at[1]] => <<e.at[1], e.at[2]>> \notin Indexes(log)
      BY Zenon, <3>1, <1>t DEF DroppedInv, BitmapSound
    <3>4. e.at[2] \notin bitmap[e.at[1]]
      BY Zenon, <3>1, <3>2, <3>3
    <3>5. PICK j \in DOMAIN keep : keep[j] = e.at
      BY Zenon, <3>1, <3>4, <2>3, <1>1
    <3>6. j >= 1
      <4>1. PICK n \in Nat : DOMAIN keep = 1 .. n
        BY Zenon, <1>1
      <4> QED BY <4>1
    <3> QED BY Zenon, <3>5, <3>6
  <2> QED BY Zenon, <2>2, <2>3, <1>j, <1>v DEF ResolveInv
<1>18. RunsInv'
  BY Zenon, <1>t, <1>v DEF RunsInv
<1>19. ChainInv'
  BY Zenon, <1>12, <1>t, <1>v DEF ChainInv
<1>20. ReconInv'
  BY Zenon, <1>12, <1>t, <1>u, <1>v DEF ReconInv, Misled
<1> QED BY Zenon, <1>13, <1>14, <1>15, <1>16, <1>17, <1>18, <1>19, <1>20 DEF IndInv

\* InstallOutputBlobFiles preserves the invariant.
LEMMA InstallStep ==
  ASSUME IndInv, InstallOutputBlobFiles
  PROVE  IndInv'
<1>u. /\ job.pc = "install" /\ job' = [job EXCEPT !.pc = "rewrite"]
      /\ state' = [g \in File |-> IF g = job.out THEN "kPendingGC" ELSE state[g]]
  BY Zenon DEF InstallOutputBlobFiles
<1>v. /\ seq' = seq /\ log' = log /\ switches' = switches /\ flushed' = flushed
      /\ content' = content /\ bitmap' = bitmap /\ events' = events /\ puts' = puts
      /\ raced' = raced /\ stacked' = stacked /\ fellBack' = fellBack
      /\ restarts' = restarts
  BY Zenon DEF InstallOutputBlobFiles, tree, history
<1>t. /\ TreeTypes /\ FileTypes /\ DroppedInv /\ JobInv
      /\ ResolveInv /\ RunsInv /\ ChainInv /\ ReconInv
  BY Zenon DEF IndInv
<1>1. JobRecord(job) /\ job.pc # "idle"
  <2>1. job.pc # "idle"
    BY <1>u
  <2> QED BY Zenon, <2>1, <1>t DEF JobInv
<1>2. /\ JobRecord(job') /\ job'.pc = "rewrite" /\ job'.path = job.path
      /\ job'.inputs = job.inputs /\ job'.out = job.out /\ job'.keep = job.keep
      /\ job'.next = job.next /\ job'.dropped = job.dropped
  BY ONLY <1>u, <1>1 DEF JobRecord
<1>r. Records' = Records /\ \A r \in Records : r[1] \in File /\ r[2] \in DOMAIN content[r[1]]
  BY Zenon, <1>v, RecordsAre
<1>3. /\ state' \in [File -> FileState] /\ \A g \in File : g = job.out => state'[g] = "kPendingGC"
      /\ \A g \in File : g # job.out => state'[g] = state[g]
  BY <1>t, <1>u DEF FileTypes, FileState
<1>4. /\ \A g \in File : state'[g] = "kNone" => state[g] = "kNone"
      /\ \A g \in File : state'[g] = "kInit" => state[g] = "kInit" /\ g # job.out
      /\ \A g \in File : state'[g] \in Dead => state[g] \in Dead /\ g # job.out
  <2>1. "kPendingGC" # "kNone" /\ "kPendingGC" # "kInit" /\ "kPendingGC" \notin Dead
    BY DEF Dead
  <2> QED BY Zenon, <2>1, <1>3
<1>5. TreeTypes'
  BY Zenon, <1>t, <1>v, <1>r DEF TreeTypes
<1>6. FileTypes'
  BY Zenon, <1>3, <1>4, <1>t, <1>v, <1>r DEF FileTypes
<1>7. DroppedInv'
  BY Zenon, <1>t, <1>v DEF DroppedInv, BitmapSound
<1>8. JobInv'
  <2>1. /\ \A g \in job.inputs : g \in File /\ state'[g] # "kNone" /\ g # job.out
        /\ job.out \in File => state'[job.out] \notin Dead /\ state'[job.out] # "kInit"
    BY Zenon, <1>1, <1>4, <1>t DEF JobInv
  <2> QED BY Zenon, <2>1, <1>1, <1>2, <1>t, <1>v, <1>r DEF JobInv
<1>9. ResolveInv'
  <2>1. \A e \in log : IsIndex(e) => e.at[1] \in File
    BY Zenon, <1>t, <1>r, TreeIs
  <2> QED BY ZenonT(40), <2>1, <1>1, <1>2, <1>4, <1>t, <1>v DEF ResolveInv, Misled
<1>10. RunsInv' /\ ChainInv' /\ ReconInv'
  BY Zenon, <1>t, <1>v DEF RunsInv, ChainInv, ReconInv, Misled
<1> QED BY Zenon, <1>5, <1>6, <1>7, <1>8, <1>9, <1>10 DEF IndInv

\* PurgeObsoleteFiles preserves the invariant.
LEMMA PurgeStep ==
  ASSUME IndInv, NEW f \in File, PurgeObsoleteFiles(f)
  PROVE  IndInv'
<1>u. state[f] = "kObsolete" /\ state' = [state EXCEPT ![f] = "kPurged"]
  BY Zenon DEF PurgeObsoleteFiles
<1>v. /\ seq' = seq /\ log' = log /\ switches' = switches /\ flushed' = flushed
      /\ content' = content /\ bitmap' = bitmap /\ events' = events /\ puts' = puts
      /\ raced' = raced /\ stacked' = stacked /\ fellBack' = fellBack
      /\ restarts' = restarts /\ job' = job
  BY Zenon DEF PurgeObsoleteFiles, tree, history
<1>t. /\ TreeTypes /\ FileTypes /\ DroppedInv /\ JobInv
      /\ ResolveInv /\ RunsInv /\ ChainInv /\ ReconInv
  BY Zenon DEF IndInv
<1>r. Records' = Records /\ \A r \in Records : r[1] \in File /\ r[2] \in DOMAIN content[r[1]]
  BY Zenon, <1>v, RecordsAre
<1>1. /\ state' \in [File -> FileState]
      /\ \A g \in File : state'[g] = "kNone" => state[g] = "kNone"
      /\ \A g \in File : state'[g] = "kInit" => state[g] = "kInit"
      /\ \A g \in File : state'[g] \in Dead => state[g] \in Dead
  <2>1. state \in [File -> FileState]
    BY Zenon, <1>t DEF FileTypes
  <2> QED BY <2>1, <1>u DEF FileState, Dead
<1>2. TreeTypes'
  BY Zenon, <1>t, <1>v, <1>r DEF TreeTypes
<1>3. FileTypes'
  BY Zenon, <1>1, <1>t, <1>v, <1>r DEF FileTypes
<1>4. DroppedInv'
  BY Zenon, <1>t, <1>v DEF DroppedInv, BitmapSound
<1>5. JobInv'
  BY Zenon, <1>1, <1>t, <1>v, <1>r DEF JobInv
<1>6. ResolveInv'
  <2>1. \A e \in log : IsIndex(e) => e.at[1] \in File
    BY Zenon, <1>t, <1>r, TreeIs
  <2> QED BY Zenon, <2>1, <1>1, <1>t, <1>v DEF ResolveInv, Misled
<1>7. RunsInv' /\ ChainInv' /\ ReconInv'
  BY Zenon, <1>t, <1>v DEF RunsInv, ChainInv, ReconInv, Misled
<1> QED BY Zenon, <1>2, <1>3, <1>4, <1>5, <1>6, <1>7 DEF IndInv

\* The inputs of a job go when every key was rewritten: none of their records
\* is left to come up.
LEMMA DeleteInputStep ==
  ASSUME IndInv, DeleteInputBlobFiles
  PROVE  IndInv'
<1>u. /\ job.pc = "rewrite" /\ job.next \notin DOMAIN job.keep /\ job' = NoJob
      /\ bitmap' = [g \in File |-> IF g = job.out THEN bitmap[g] \cup job.dropped
                                    ELSE bitmap[g]]
      /\ state' = [g \in File |-> IF g \in job.inputs THEN "kObsolete"
                                   ELSE IF g = job.out THEN "kNormal" ELSE state[g]]
  BY Zenon DEF DeleteInputBlobFiles
<1>v. /\ seq' = seq /\ log' = log /\ switches' = switches /\ flushed' = flushed
      /\ content' = content /\ events' = events /\ puts' = puts
      /\ raced' = raced /\ stacked' = stacked /\ fellBack' = fellBack
      /\ restarts' = restarts
  BY Zenon DEF DeleteInputBlobFiles, tree, history
<1>t. /\ TreeTypes /\ FileTypes /\ DroppedInv /\ JobInv
      /\ ResolveInv /\ RunsInv /\ ChainInv /\ ReconInv
  BY Zenon DEF IndInv
<1>1. job.pc # "idle" /\ job'.pc = "idle"
  BY <1>u DEF NoJob
<1>r. /\ Records' = Records
      /\ \A g, i : <<g, i>> \in Records <=> g \in File /\ i \in DOMAIN content[g]
      /\ \A r \in Records : r[1] \in File
  BY Zenon, <1>v, RecordsAre
<1>2. /\ \A j \in DOMAIN job.keep : <<job.out, j>> \in Records
      /\ \A j \in job.dropped : j \in DOMAIN job.keep /\ <<job.out, j>> \notin Indexes(log)
  BY Zenon, <1>1, <1>t DEF JobInv
<1>3. \A j \in DOMAIN job.keep : ~ (j >= job.next)
  <2>1. PICK n \in Nat : DOMAIN job.keep = 1 .. n
    BY Zenon, <1>1, <1>t DEF JobInv
  <2>2. job.next \in Nat /\ 1 <= job.next
    BY Zenon, <1>1, <1>t DEF JobInv
  <2> QED BY <2>1, <2>2, <1>u
<1>4. /\ state' \in [File -> FileState]
      /\ \A g \in File : state'[g] = "kNone" => state[g] = "kNone"
      /\ \A g \in File : state'[g] = "kInit" => state[g] = "kInit"
      /\ \A g \in File : state'[g] \in Dead => state[g] \in Dead \/ g \in job.inputs
  <2>1. state \in [File -> FileState]
    BY Zenon, <1>t DEF FileTypes
  <2> QED BY <2>1, <1>u DEF FileState, Dead
<1>5. /\ DOMAIN bitmap' = File
      /\ \A g \in File : \A i \in bitmap'[g] : i \in bitmap[g] \/ (g = job.out /\ i \in job.dropped)
  BY Zenon, <1>u
<1>6. TreeTypes'
  BY Zenon, <1>t, <1>v, <1>r DEF TreeTypes
<1>7. FileTypes'
  <2>1. \A g \in File : bitmap'[g] \subseteq DOMAIN content[g]
    <3> SUFFICES ASSUME NEW g \in File, NEW i \in bitmap'[g] PROVE i \in DOMAIN content[g]
      BY Zenon
    <3>1. CASE i \in bitmap[g]
      BY Zenon, <3>1, <1>t DEF FileTypes
    <3>2. CASE g = job.out /\ i \in job.dropped
      BY Zenon, <3>2, <1>2, <1>r
    <3> QED BY Zenon, <3>1, <3>2, <1>5
  <2> QED BY Zenon, <2>1, <1>4, <1>5, <1>t, <1>v, <1>r DEF FileTypes
<1>8. DroppedInv'
  <2>1. BitmapSound'
    BY Zenon, <1>2, <1>5, <1>t, <1>v DEF DroppedInv, BitmapSound
  <2> QED BY Zenon, <2>1, <1>t, <1>v DEF DroppedInv
<1>9. JobInv'
  BY Zenon, <1>1 DEF JobInv
<1>10. ResolveInv'
  <2>1. \A e \in log : IsIndex(e) => e.at[1] \in File
    BY Zenon, <1>t, <1>r, TreeIs
  <2> QED BY Zenon, <2>1, <1>1, <1>3, <1>4, <1>t, <1>v DEF ResolveInv, Misled
<1>11. RunsInv' /\ ChainInv' /\ ReconInv'
  BY Zenon, <1>t, <1>v DEF RunsInv, ChainInv, ReconInv, Misled
<1> QED BY Zenon, <1>6, <1>7, <1>8, <1>9, <1>10, <1>11 DEF IndInv


\* In a chain every entry but the newest is covered by the next one.
LEMMA ChainCovers ==
  ASSUME NEW L, NEW C, NEW n, Chain(L, C, n), NEW b \in Nat, Ordered(L, b),
         NEW g \in L, Top(g, L), NEW e \in L, e # g
  PROVE  Covered(e, L)
<1> DEFINE T == {x.seq : x \in Above(e, L)}
<1>1. \A x \in L : x.seq \in Nat
  BY Zenon DEF Ordered
<1>2. T \in SUBSET Nat
  BY Zenon, <1>1 DEF Above
<1>3. g \in Above(e, L)
  <2>1. e.seq <= g.seq /\ e.seq # g.seq
    BY Zenon DEF Top, Ordered
  <2>2. g.seq > e.seq
    BY <2>1, <1>1
  <2> QED BY Zenon, <2>2 DEF Above
<1>4. T # {}
  BY Zenon, <1>3
<1>5. PICK m \in T : \A y \in T : m <= y
  <2> HIDE DEF T
  <2> QED BY ONLY <1>2, <1>4, MinExists, Zenon
<1>6. PICK x \in Above(e, L) : m = x.seq
  BY Zenon, <1>5
<1>7. x \in L /\ x.seq > e.seq
  BY Zenon, <1>6 DEF Above
<1>8. ASSUME NEW z \in L PROVE z.seq <= e.seq \/ z.seq >= x.seq
  <2>1. z.seq > e.seq => x.seq <= z.seq
    BY Zenon, <1>5, <1>6 DEF Above
  <2> QED BY <2>1, <1>1, <1>7
<1>9. Over(x, e, L)
  BY Zenon, <1>7, <1>8 DEF Over
<1> QED BY Zenon, <1>7, <1>9 DEF Chain, Covered

\* One record of a job is written back.
LEMMA WriteStep ==
  ASSUME IndInv, job.pc = "rewrite", job.next \in DOMAIN job.keep,
         NEW o, o = job.keep[job.next] \/ o = None, seq' = seq + 1,
         log' = log \cup {BlobEntry(seq + 1, <<job.out, job.next>>, o)},
         job' = [job EXCEPT !.next = @ + 1],
         switches' = switches, flushed' = flushed, content' = content, state' = state,
         bitmap' = bitmap, events' = events, puts' = puts, fellBack' = fellBack,
         restarts' = restarts, raced' \in BOOLEAN, stacked' \in BOOLEAN, raced => raced'
  PROVE  /\ TreeTypes' /\ FileTypes' /\ DroppedInv' /\ JobInv' /\ ResolveInv' /\ RunsInv'
<1> DEFINE new == <<job.out, job.next>>
           e == BlobEntry(seq + 1, new, o)
<1>t. /\ TreeTypes /\ FileTypes /\ DroppedInv /\ JobInv /\ ResolveInv /\ RunsInv
  BY Zenon DEF IndInv
<1>0. job.pc # "idle"
  OBVIOUS
<1>j. /\ JobRecord(job) /\ job.next \in Nat /\ 1 <= job.next
      /\ \A k \in DOMAIN job.keep : /\ k \in Nat
                                    /\ job.keep[k] \in Records /\ <<job.out, k>> \in Records
      /\ \A g \in job.inputs : g \in File /\ state[g] # "kNone" /\ g # job.out
      /\ job.out \in File => state[job.out] \notin Dead /\ state[job.out] # "kInit"
      /\ \A k \in DOMAIN job.keep : k >= job.next =>
           /\ <<job.out, k>> \notin Indexes(log) /\ k \notin bitmap[job.out]
           /\ \A event \in events : <<job.out, k>> \notin event.dropped
      /\ \A k \in job.dropped : /\ k \in DOMAIN job.keep /\ k < job.next
                                /\ <<job.out, k>> \notin Indexes(log)
  <2>1. PICK n \in Nat : DOMAIN job.keep = 1 .. n
    BY Zenon, <1>0, <1>t DEF JobInv
  <2>2. \A k \in 1 .. n : k \in Nat
    OBVIOUS
  <2> QED BY Zenon, <2>1, <2>2, <1>0, <1>t DEF JobInv
<1>1. /\ seq \in Nat /\ flushed \in Nat /\ flushed <= seq /\ puts \in Nat
      /\ \A x \in log : x.seq \in Nat /\ 1 <= x.seq /\ x.seq <= seq
      /\ LogTypes(log, Records, puts)
  BY Zenon, <1>t, TreeIs DEF TreeTypes
<1>r. /\ Records' = Records
      /\ \A r \in Records : r[1] \in File
  BY Zenon, RecordsAre
<1>2. /\ e.seq = seq + 1 /\ e.at = new /\ e.old = o /\ e.value = 0 /\ IsIndex(e)
      /\ e = BlobEntry(e.seq, e.at, e.old) /\ new[1] = job.out
  BY DEF BlobEntry, IsIndex
<1>3. /\ seq + 1 \in Nat /\ flushed <= seq + 1 /\ 1 <= seq + 1 /\ seq + 1 <= seq + 1
      /\ puts <= puts /\ 0 \in Nat
      /\ \A x \in Nat : x <= seq => x <= seq + 1 /\ seq + 1 > x
  BY <1>1
<1>4. /\ new \in Records /\ job.out \in File /\ o \in Records \cup {None}
      /\ new \notin Indexes(log)
  <2>1. job.next >= job.next
    BY <1>j
  <2>2. new \in Records /\ new \notin Indexes(log)
    BY Zenon, <2>1, <1>j
  <2> QED BY Zenon, <2>2, <1>2, <1>j, <1>r
<1> HIDE DEF e
<1>e. log' = log \cup {e}
  BY Zenon DEF e
<1>5. Indexes(log') = Indexes(log) \cup {new}
  <2>1. Indexes(log \cup {e}) = Indexes(log) \cup {e.at}
    BY ONLY <1>2, IndexesAre, Zenon
  <2> QED BY ONLY <2>1, <1>2, <1>e, Zenon
<1>6. Newer(e, log) /\ e.seq \in Nat
  BY Zenon, <1>1, <1>2, <1>3 DEF Newer
<1>7. TreeTypes'
  <2>1. Entry(e, Records, puts)
    BY Zenon, <1>2, <1>3, <1>4 DEF Entry
  <2>2. IsIndex(e) => e.at \notin Indexes(log)
    BY Zenon, <1>2, <1>4
  <2>3. LogTypes(log \cup {e}, Records, puts)
    BY ONLY <2>1, <2>2, <1>1, <1>3, <1>6, AppendTypes, Zenon
  <2>4. \A x \in log' : 1 <= x.seq /\ x.seq <= seq'
    BY Zenon, <1>1, <1>2, <1>3, <1>e
  <2>5. (\A b \in switches : b \in Nat /\ b <= seq + 1) /\ puts <= MaxPut
    BY Zenon, <1>t, <1>3 DEF TreeTypes
  <2>6. log' # {}
    BY Zenon, <1>e
  <2> QED BY Zenon, <2>3, <2>4, <2>5, <2>6, <1>1, <1>3, <1>e, <1>r DEF TreeTypes
<1>8. FileTypes'
  <2>1. \A g \in File : state'[g] = "kInit" => \A r \in Indexes(log') : r[1] # g
    BY Zenon, <1>2, <1>4, <1>5, <1>j, <1>t DEF FileTypes
  <2> QED BY Zenon, <2>1, <1>r, <1>t DEF FileTypes
<1>9. DroppedInv'
  <2>0. job.next >= job.next
    BY <1>j
  <2>1. ASSUME NEW g \in File, NEW i \in bitmap[g] PROVE <<g, i>> \notin Indexes(log')
    <3>1. <<g, i>> \notin Indexes(log)
      BY Zenon, <1>t DEF DroppedInv, BitmapSound
    <3>2. <<g, i>> = new => g = job.out /\ i = job.next
      OBVIOUS
    <3>3. <<g, i>> # new
      BY Zenon, <2>0, <3>2, <1>j
    <3> QED BY Zenon, <3>1, <3>3, <1>5
  <2>2. \A event \in events : \A r \in event.dropped : r \notin Indexes(log')
    BY Zenon, <2>0, <1>5, <1>j, <1>t DEF DroppedInv
  <2> QED BY Zenon, <2>1, <2>2 DEF DroppedInv, BitmapSound
<1>10. /\ JobRecord(job') /\ job'.pc = job.pc /\ job'.path = job.path
       /\ job'.inputs = job.inputs /\ job'.out = job.out /\ job'.keep = job.keep
       /\ job'.next = job.next + 1 /\ job'.dropped = job.dropped
  BY ONLY <1>j, job' = [job EXCEPT !.next = @ + 1] DEF JobRecord
<1>11. /\ job.next + 1 \in Nat /\ 1 <= job.next + 1
       /\ \A k \in Nat : /\ k >= job.next + 1 => k >= job.next /\ k # job.next
                         /\ k < job.next => k < job.next + 1 /\ k # job.next
                         /\ k >= job.next /\ k # job.next => k >= job.next + 1
  BY <1>j
<1>12. \A k : k # job.next => <<job.out, k>> # new
  OBVIOUS
<1>13. JobInv'
  <2>1. \A k \in DOMAIN job.keep : k >= job.next + 1 =>
           /\ <<job.out, k>> \notin Indexes(log') /\ k \notin bitmap[job.out]
           /\ \A event \in events : <<job.out, k>> \notin event.dropped
    BY Zenon, <1>5, <1>11, <1>12, <1>j
  <2>2. \A k \in job.dropped : /\ k \in DOMAIN job.keep /\ k < job.next + 1
                               /\ <<job.out, k>> \notin Indexes(log')
    BY Zenon, <1>5, <1>11, <1>12, <1>j
  <2>3. /\ job.path \in {"hardware", "software"}
        /\ job.path = "software" => fellBack'
        /\ \E n \in Nat : DOMAIN job.keep = 1 .. n
        /\ \A k \in DOMAIN job.keep :
             /\ job.keep[k] \in Records' /\ <<job.out, k>> \in Records'
             /\ Record(content', <<job.out, k>>) = Record(content', job.keep[k])
    BY Zenon, <1>0, <1>r, <1>t DEF JobInv
  <2>4. /\ \A g \in job.inputs : g \in File /\ state'[g] # "kNone" /\ g # job.out
        /\ job.out \in File => state'[job.out] \notin Dead /\ state'[job.out] # "kInit"
    BY Zenon, <1>j
  <2> QED BY ONLY <2>1, <2>2, <2>3, <2>4, <1>10, <1>11, bitmap' = bitmap,
                  events' = events, Zenon DEF JobInv
<1>14. ResolveInv'
  <2> SUFFICES ASSUME ~ Misled' PROVE ResolveInv'
    BY Zenon DEF ResolveInv
  <2>1. ~ Misled
    BY Zenon DEF Misled
  <2>2. \A x \in log : Covered(x, log) => Covered(x, log')
    BY ONLY <1>e, Zenon DEF Covered
  <2>3. ASSUME NEW x \in log', IsIndex(x), state[x.at[1]] \in Dead PROVE Covered(x, log')
    <3>1. x \in log
      BY Zenon, <2>3, <1>2, <1>4, <1>e, <1>j
    <3> QED BY Zenon, <3>1, <2>1, <2>2, <2>3, <1>t DEF ResolveInv
  <2>4. ASSUME NEW x \in log', IsIndex(x), x.at[1] \in job.inputs
        PROVE  \/ Covered(x, log')
               \/ \E k \in DOMAIN job.keep : k >= job.next + 1 /\ job.keep[k] = x.at
    <3>1. x \in log
      BY Zenon, <2>4, <1>2, <1>4, <1>e, <1>j
    <3>2. \/ Covered(x, log)
          \/ \E k \in DOMAIN job.keep : k >= job.next /\ job.keep[k] = x.at
      BY Zenon, <3>1, <2>1, <2>4, <1>0, <1>t DEF ResolveInv
    <3>3. ASSUME job.keep[job.next] = x.at PROVE Covered(x, log')
      <4>1. e.seq > x.seq
        BY Zenon, <3>1, <1>6 DEF Newer
      <4> QED BY Zenon, <4>1, <3>3, <1>2, <1>e DEF Covered
    <3> QED BY Zenon, <3>1, <3>2, <3>3, <2>2, <1>11, <1>j
  <2> QED BY ZenonT(40), <2>3, <2>4, <1>10 DEF ResolveInv
<1>15. RunsInv'
  BY Zenon, <1>2, <1>e, <1>t DEF RunsInv
<1> QED BY Zenon, <1>7, <1>8, <1>9, <1>13, <1>14, <1>15


\* In a chain a value is not below an index.
LEMMA TopOfChain ==
  ASSUME TreeTypes, Chain(log, content, puts), NEW g \in log, Top(g, log),
         NEW d, d = g \/ (g.old # None /\ d \in log /\ IsValue(d))
  PROVE  d = g
<1> SUFFICES ASSUME d # g, g.old # None, d \in log, IsValue(d) PROVE FALSE
  BY Zenon
<1>1. /\ \A x \in log : x.seq \in Nat /\ (IsValue(x) => x.old = None)
      /\ \A x, y \in log : x.seq = y.seq => x = y
  BY Zenon, EntryIs DEF TreeTypes, LogTypes
<1>2. d.seq <= g.seq /\ d.seq # g.seq
  BY Zenon, <1>1 DEF Top
<1>3. g.seq > d.seq
  BY <1>1, <1>2
<1> QED BY Zenon, <1>1, <1>3 DEF Chain

\* The key no longer holds the record: its copy is dropped.  A software job is
\* not misled only where the entries are a chain, and there it is right.
LEMMA BusyStep ==
  ASSUME IndInv, job.pc = "rewrite", job.next \in DOMAIN job.keep,
         job.path = "software", GetImpl(seq).at # job.keep[job.next],
         job' = [job EXCEPT !.next = @ + 1, !.dropped = @ \cup {<<job.out, job.next>>[2]}],
         seq' = seq, log' = log,
         switches' = switches, flushed' = flushed, content' = content, state' = state,
         bitmap' = bitmap, events' = events, puts' = puts, fellBack' = fellBack,
         restarts' = restarts, raced' = raced, stacked' = stacked
  PROVE  IndInv'
<1>t. /\ TreeTypes /\ FileTypes /\ DroppedInv /\ JobInv
      /\ ResolveInv /\ RunsInv /\ ChainInv /\ ReconInv
  BY Zenon DEF IndInv
<1>0. job.pc # "idle" /\ <<job.out, job.next>>[2] = job.next
  OBVIOUS
<1>j. /\ JobRecord(job) /\ job.next \in Nat /\ fellBack
      /\ \A k \in DOMAIN job.keep : k \in Nat
      /\ \A k \in DOMAIN job.keep : k >= job.next =>
           /\ <<job.out, k>> \notin Indexes(log) /\ k \notin bitmap[job.out]
           /\ \A event \in events : <<job.out, k>> \notin event.dropped
      /\ \A k \in job.dropped : /\ k \in DOMAIN job.keep /\ k < job.next
                                /\ <<job.out, k>> \notin Indexes(log)
  <2>1. PICK n \in Nat : DOMAIN job.keep = 1 .. n
    BY Zenon, <1>0, <1>t DEF JobInv
  <2>2. \A k \in 1 .. n : k \in Nat
    OBVIOUS
  <2> QED BY Zenon, <2>1, <2>2, <1>0, <1>t DEF JobInv
<1>r. Records' = Records
  BY Zenon, RecordsAre
<1>1. /\ JobRecord(job') /\ job'.pc = job.pc /\ job'.path = job.path
      /\ job'.inputs = job.inputs /\ job'.out = job.out /\ job'.keep = job.keep
      /\ job'.next = job.next + 1 /\ job'.dropped = job.dropped \cup {job.next}
  BY ONLY <1>0, <1>j, job' = [job EXCEPT !.next = @ + 1,
                                         !.dropped = @ \cup {<<job.out, job.next>>[2]}]
     DEF JobRecord
<1>2. /\ job.next + 1 \in Nat /\ 1 <= job.next + 1 /\ job.next >= job.next
      /\ job.next < job.next + 1
      /\ \A k \in Nat : /\ k >= job.next + 1 => k >= job.next
                        /\ k < job.next => k < job.next + 1
                        /\ k >= job.next /\ k # job.next => k >= job.next + 1
  BY <1>j
<1>3. TreeTypes'
  BY Zenon, <1>t, <1>r DEF TreeTypes
<1>4. FileTypes'
  BY Zenon, <1>t, <1>r DEF FileTypes
<1>5. DroppedInv'
  BY Zenon, <1>t DEF DroppedInv, BitmapSound
<1>6. JobInv'
  <2>1. \A k \in DOMAIN job.keep : k >= job.next + 1 =>
           /\ <<job.out, k>> \notin Indexes(log') /\ k \notin bitmap'[job.out]
           /\ \A event \in events' : <<job.out, k>> \notin event.dropped
    BY Zenon, <1>2, <1>j
  <2>2. \A k \in job'.dropped : /\ k \in DOMAIN job.keep /\ k < job.next + 1
                                /\ <<job.out, k>> \notin Indexes(log')
    BY Zenon, <1>1, <1>2, <1>j
  <2>3. /\ job.path \in {"hardware", "software"}
        /\ job.path = "software" => fellBack'
        /\ \E n \in Nat : DOMAIN job.keep = 1 .. n
        /\ \A k \in DOMAIN job.keep :
             /\ job.keep[k] \in Records' /\ <<job.out, k>> \in Records'
             /\ Record(content', <<job.out, k>>) = Record(content', job.keep[k])
        /\ \A g \in job.inputs : g \in File /\ state'[g] # "kNone" /\ g # job.out
        /\ job.out \in File => state'[job.out] \notin Dead /\ state'[job.out] # "kInit"
    BY Zenon, <1>0, <1>r, <1>t DEF JobInv
  <2> QED BY ONLY <2>1, <2>2, <2>3, <1>1, <1>2, Zenon DEF JobInv
<1>7. ResolveInv'
  <2> SUFFICES ASSUME ~ Misled' PROVE ResolveInv'
    BY Zenon DEF ResolveInv
  <2>1. ~ Misled
    BY Zenon DEF Misled
  <2>2. ~ raced /\ restarts = 0
    <3>1. ~ raced /\ ~ (restarts > 0) /\ restarts \in Nat
      BY Zenon, <2>1, <1>j, <1>t DEF Misled, FileTypes
    <3> QED BY <3>1
  <2>3. Chain(log, content, puts)
    BY Zenon, <2>2, <1>t DEF ChainInv
  <2>4. ASSUME NEW x \in log, job.keep[job.next] = x.at PROVE Covered(x, log)
    <3> DEFINE g == Newest(log)
    <3>1. log # {}
      BY Zenon
    <3>2. /\ g \in log /\ Top(g, log) /\ Ordered(log, seq)
          /\ \/ GetImpl(seq) = g
             \/ g.old # None /\ GetImpl(seq) \in log /\ IsValue(GetImpl(seq))
      BY Zenon, <3>1, <1>t, GetImplIs
    <3> HIDE DEF g
    <3>3. GetImpl(seq) = g
      BY Zenon, <3>2, <2>3, <1>t, TopOfChain
    <3>4. x # g
      BY Zenon, <3>3, <2>4
    <3>5. seq \in Nat
      BY Zenon, <1>t DEF TreeTypes
    <3> QED BY ONLY <3>2, <3>4, <3>5, <2>3, x \in log, ChainCovers, Zenon
  <2>5. ASSUME NEW x \in log, IsIndex(x), x.at[1] \in job.inputs
        PROVE  \/ Covered(x, log)
               \/ \E k \in DOMAIN job.keep : k >= job.next + 1 /\ job.keep[k] = x.at
    <3>1. \/ Covered(x, log)
          \/ \E k \in DOMAIN job.keep : k >= job.next /\ job.keep[k] = x.at
      BY Zenon, <2>1, <2>5, <1>0, <1>t DEF ResolveInv
    <3> QED BY Zenon, <3>1, <2>4, <1>2, <1>j
  <2>6. \A x \in log : IsIndex(x) /\ state[x.at[1]] \in Dead => Covered(x, log)
    BY Zenon, <2>1, <1>t DEF ResolveInv
  <2> QED BY ONLY <2>5, <2>6, <1>1, log' = log, state' = state, Zenon DEF ResolveInv
<1>8. RunsInv' /\ ChainInv' /\ ReconInv'
  BY Zenon, <1>t DEF RunsInv, ChainInv, ReconInv, Misled
<1> QED BY Zenon, <1>3, <1>4, <1>5, <1>6, <1>7, <1>8 DEF IndInv

\* A batch of RewriteValidKeyToLSM, on either path, preserves the invariant.
LEMMA RewriteStep ==
  ASSUME IndInv, RewriteValidKeyToLSM
  PROVE  IndInv'
<1> DEFINE old == job.keep[job.next]
           new == <<job.out, job.next>>
           g == Newest(log)
           get == GetImpl(seq)
<1>u. /\ job.pc = "rewrite" /\ job.next \in DOMAIN job.keep
      /\ WriteHardware(old, new) \/ WriteWithCallback(old, new)
  BY Zenon DEF RewriteValidKeyToLSM
<1>v. /\ switches' = switches /\ flushed' = flushed /\ content' = content
      /\ state' = state /\ bitmap' = bitmap /\ events' = events /\ puts' = puts
      /\ fellBack' = fellBack /\ restarts' = restarts
  BY Zenon DEF RewriteValidKeyToLSM
<1>t. /\ TreeTypes /\ FileTypes /\ JobInv /\ ChainInv /\ ReconInv
  BY Zenon DEF IndInv
<1>0. job.pc # "idle"
  BY <1>u
<1>1. /\ old \in Records /\ Record(content, new) = Record(content, old)
      /\ job.path = "software" => fellBack
  BY Zenon, <1>0, <1>t, <1>u DEF JobInv
<1>2. /\ None \notin Records /\ old # None /\ log # {} /\ seq \in Nat /\ puts \in Nat
      /\ \A x \in log : x.seq \in Nat /\ x.seq <= seq
      /\ LogTypes(log, Records, puts) /\ raced \in BOOLEAN /\ stacked \in BOOLEAN
  BY Zenon, <1>1, <1>t, TreeIs, RecordsAre DEF TreeTypes, FileTypes
<1>3. /\ g \in log /\ Top(g, log) /\ Ordered(log, seq)
      /\ get = g \/ (g.old # None /\ get \in log /\ IsValue(get))
  BY Zenon, <1>2, <1>t, GetImplIs
<1> HIDE DEF g, get
\* Where the key holds the record, the newest entry does.
<1>4. get.at = old => g.at = old /\ ~ IsValue(g)
  BY Zenon, <1>2, <1>3, EntryIs DEF LogTypes
<1>5. \A x, y \in log : x.seq = y.seq => x = y
  BY Zenon, <1>2 DEF LogTypes
<1> HIDE DEF old, new
<1>6. ASSUME NEW o
      PROVE  LET e == BlobEntry(seq + 1, new, o) IN
             /\ e.seq \in Nat /\ Newer(e, log) /\ ~ IsValue(e) /\ e.at = new /\ e.old = o
  <2> DEFINE e == BlobEntry(seq + 1, new, o)
  <2>1. e.seq = seq + 1 /\ ~ IsValue(e) /\ e.at = new /\ e.old = o
    BY DEF BlobEntry, IsValue
  <2>2. seq + 1 \in Nat /\ \A x \in Nat : x <= seq => seq + 1 > x
    BY <1>2
  <2> QED BY Zenon, <2>1, <2>2, <1>2 DEF Newer
<1>7. ASSUME NEW o, o = None \/ o = old, get.at = old, Chain(log, content, puts)
      PROVE  Chain(log \cup {BlobEntry(seq + 1, new, o)}, content, puts)
  <2> DEFINE e == BlobEntry(seq + 1, new, o)
  <2>1. e.seq \in Nat /\ Newer(e, log) /\ ~ IsValue(e) /\ e.at = new /\ e.old = o
    BY Zenon, <1>6
  <2>2. /\ Record(content, e.at) = Record(content, g.at) /\ ~ IsValue(g)
        /\ e.old = None \/ e.old = g.at
    BY Zenon, <2>1, <1>1, <1>4, <1>7
  <2> HIDE DEF e
  <2>3. Chain(log \cup {e}, content, puts)
    BY ONLY <2>1, <2>2, <1>3, <1>5, <1>7, ChainIndex, Zenon
  <2> QED BY Zenon, <2>3 DEF e
<1>8. CASE WriteHardware(old, new)
  <2> DEFINE e == BlobEntry(seq + 1, new, old)
  <2>1. /\ seq' = seq + 1 /\ log' = log \cup {e}
        /\ raced' = (raced \/ get.at # old) /\ stacked' = (stacked \/ Stacks(old))
        /\ job' = [job EXCEPT !.next = @ + 1]
    BY Zenon, <1>8 DEF WriteHardware, get
  <2>2. raced' \in BOOLEAN /\ stacked' \in BOOLEAN /\ (raced => raced')
    BY Zenon, <2>1
  <2>3. /\ TreeTypes' /\ FileTypes' /\ DroppedInv' /\ JobInv' /\ ResolveInv' /\ RunsInv'
    <3>1. log' = log \cup {BlobEntry(seq + 1, <<job.out, job.next>>, job.keep[job.next])}
      BY Zenon, <2>1 DEF old, new
    <3> QED BY ONLY IndInv, <3>1, <2>1, <2>2, <1>u, <1>v, WriteStep, Zenon
  <2>4. e.seq \in Nat /\ Newer(e, log) /\ ~ IsValue(e) /\ e.at = new /\ e.old = old
    BY Zenon, <1>6
  <2> HIDE DEF e
  <2>5. ChainInv'
    <3> SUFFICES ASSUME ~ raced', restarts = 0 PROVE Chain(log', content, puts)
      BY Zenon, <1>v DEF ChainInv
    <3>1. Chain(log, content, puts) /\ get.at = old
      BY Zenon, <2>1, <1>t DEF ChainInv
    <3> QED BY Zenon, <3>1, <2>1, <1>7 DEF e
  <2>6. ReconInv'
    <3> SUFFICES ASSUME ~ stacked', ~ Misled', restarts = 0 PROVE Recon(log', content, puts)
      BY Zenon, <1>v DEF ReconInv
    <3>1. ~ stacked /\ ~ Stacks(old) /\ ~ Misled
      BY Zenon, <2>1, <1>v DEF Misled
    <3>2. Recon(log, content, puts)
      BY Zenon, <3>1, <1>t DEF ReconInv
    <3>3. IsValue(g) => g.old = None
      BY Zenon, <1>2, <1>3, EntryIs DEF LogTypes
    <3>4. IsValue(g) \/ IsIndex(g)
      BY Zenon, <1>2, <1>3, EntryIs DEF LogTypes
    <3>5. g.old = None \/ (g.at = old /\ ~ raced)
      BY Zenon, <3>1, <3>3, <3>4 DEF Stacks, SaverCheckIsGCWriteBack, IsIndex, g
    <3>6. g.old = None \/ (g.at = e.old /\ Chain(log, content, puts))
      BY Zenon, <3>5, <2>4, <1>t DEF ChainInv
    <3>7. e.old \in Records /\ Record(content, e.at) = Record(content, e.old)
      BY Zenon, <2>4, <1>1
    <3>8. Recon(log \cup {e}, content, puts)
      BY ONLY <3>2, <3>6, <3>7, <2>4, <1>2, <1>3, ReconWriteBack, Zenon
    <3> QED BY Zenon, <3>8, <2>1
  <2> QED BY Zenon, <2>3, <2>5, <2>6 DEF IndInv
<1>9. CASE WriteWithCallback(old, new) /\ get.at = old
  <2> DEFINE e == BlobEntry(seq + 1, new, None)
  <2>1. /\ seq' = seq + 1 /\ log' = log \cup {e} /\ raced' = raced
        /\ stacked' = (stacked \/ Stacks(old)) /\ job.path = "software"
        /\ job' = [job EXCEPT !.next = @ + 1]
    BY Zenon, <1>9 DEF WriteWithCallback, get
  <2>2. raced' \in BOOLEAN /\ stacked' \in BOOLEAN /\ (raced => raced')
    BY Zenon, <2>1, <1>2
  <2>3. /\ TreeTypes' /\ FileTypes' /\ DroppedInv' /\ JobInv' /\ ResolveInv' /\ RunsInv'
    <3>1. log' = log \cup {BlobEntry(seq + 1, <<job.out, job.next>>, None)}
      BY Zenon, <2>1 DEF new
    <3> QED BY ONLY IndInv, <3>1, <2>1, <2>2, <1>u, <1>v, WriteStep, Zenon
  <2>4. e.seq \in Nat /\ Newer(e, log) /\ ~ IsValue(e) /\ e.at = new /\ e.old = None
    BY Zenon, <1>6
  <2>5. Chain(log, content, puts) => Chain(log \cup {e}, content, puts)
    BY Zenon, <1>7, <1>9
  <2> HIDE DEF e
  <2>6. ChainInv'
    BY Zenon, <2>1, <2>5, <1>t, <1>v DEF ChainInv
  <2>7. ReconInv'
    <3> SUFFICES ASSUME ~ stacked', ~ Misled', restarts = 0 PROVE Recon(log', content, puts)
      BY Zenon, <1>v DEF ReconInv
    <3>1. ~ stacked /\ ~ Misled /\ ~ raced
      BY Zenon, <2>1, <1>1, <1>v DEF Misled
    <3>2. Recon(log, content, puts) /\ Chain(log, content, puts)
      BY Zenon, <3>1, <1>t DEF ReconInv, ChainInv
    <3>3. ~ IsValue(g) /\ \A x \in log : x.seq \in Nat
      BY Zenon, <1>2, <1>4, <1>9
    <3>4. \A x \in log : ~ IsValue(x)
      BY ONLY <3>2, <3>3, <1>3, <1>5, ChainIndexed, Zenon
    <3>5. Val(e, content) = puts
      <4>1. Val(g, content) = puts
        BY Zenon, <3>2, <1>3 DEF Chain
      <4> QED BY Zenon, <4>1, <3>3, <2>4, <1>1, <1>4, <1>9 DEF Val
    <3>6. Recon(log \cup {e}, content, puts)
      BY ONLY <3>2, <3>4, <3>5, <2>4, ReconPlain, Zenon
    <3> QED BY Zenon, <3>6, <2>1
  <2> QED BY Zenon, <2>3, <2>6, <2>7 DEF IndInv
<1>10. CASE WriteWithCallback(old, new) /\ get.at # old
  <2>1. /\ seq' = seq /\ log' = log /\ raced' = raced /\ stacked' = stacked
        /\ job.path = "software" /\ GetImpl(seq).at # job.keep[job.next]
        /\ job' = [job EXCEPT !.next = @ + 1, !.dropped = @ \cup {<<job.out, job.next>>[2]}]
    BY Zenon, <1>10 DEF WriteWithCallback, get, old, new
  <2> QED BY ONLY IndInv, <2>1, <1>u, <1>v, BusyStep, Zenon
<1> QED BY Zenon, <1>8, <1>9, <1>10, <1>u


-----------------------------------------------------------------------------
(* The theorems.                                                           *)

\* The invariant holds in an empty store.
LEMMA InitInv == Init => IndInv
<1> SUFFICES ASSUME Init PROVE IndInv
  OBVIOUS
<1>1. /\ seq = 0 /\ puts = 0 /\ restarts = 0 /\ log = {} /\ switches = {} /\ flushed = 0
      /\ content = [f \in File |-> <<>>] /\ state = [f \in File |-> "kNone"]
      /\ bitmap = [f \in File |-> {}] /\ events = {} /\ job = NoJob
      /\ raced = FALSE /\ stacked = FALSE /\ fellBack = FALSE
  BY Zenon DEF Init
<1>2. DOMAIN <<>> = {}
  OBVIOUS
<1>3. \A f \in File : DOMAIN content[f] = {}
  BY Zenon, <1>1, <1>2
<1>4. \A r : r \notin Records
  BY Zenon, <1>3, RecordsAre
<1>5. TreeTypes
  <2>1. 0 \in Nat /\ 0 <= 0 /\ 0 <= MaxPut /\ ~ (0 > 0)
    BY WriteBackAssumption
  <2> QED BY Zenon, <2>1, <1>1 DEF TreeTypes, LogTypes
<1>6. FileTypes
  <2>1. state \in [File -> FileState]
    BY <1>1 DEF FileState
  <2>2. IsFiniteSet({})
    BY Zenon, FS_EmptySet
  <2>3. \A f \in File : bitmap[f] \subseteq DOMAIN content[f]
    BY Zenon, <1>1
  <2>4. \A r : r \notin Indexes({})
    BY Zenon DEF Indexes
  <2>5. 0 \in Nat
    OBVIOUS
  <2> QED BY Zenon, <2>1, <2>2, <2>3, <2>4, <2>5, <1>1, <1>3, <1>4 DEF FileTypes
<1>7. DroppedInv
  BY Zenon, <1>1 DEF DroppedInv, BitmapSound
<1>8. job.pc = "idle"
  BY <1>1 DEF NoJob
<1>9. JobInv /\ ResolveInv /\ RunsInv /\ ChainInv
  BY Zenon, <1>1, <1>8 DEF JobInv, ResolveInv, RunsInv, ChainInv, Chain
<1>10. ReconInv
  <2>1. ~ (0 > 0)
    OBVIOUS
  <2> QED BY Zenon, <2>1, <1>1 DEF ReconInv, Recon
<1> QED BY Zenon, <1>5, <1>6, <1>7, <1>9, <1>10 DEF IndInv

\* Every step preserves the invariant.
LEMMA NextInv == IndInv /\ [Next]_vars => IndInv'
<1> SUFFICES ASSUME IndInv, [Next]_vars PROVE IndInv'
  OBVIOUS
<1>1. CASE Put
  BY Zenon, <1>1, PutStep
<1>2. CASE SwitchMemtable \/ GetSnapshot \/ ReleaseSnapshot \/ UNCHANGED vars
  BY Zenon, <1>2, SwitchSnapshotStep
<1>3. CASE \E b \in switches, f \in Written : Flush(b, f)
  BY Zenon, <1>3, FlushStep
<1>4. CASE \E first, last \in Runs, f \in Written : Compact(first, last, f)
  BY Zenon, <1>4, CompactStep
<1>5. CASE \E event \in events : OnTableCompleted(event)
  BY Zenon, <1>5, OnTableCompletedStep
<1>6. CASE \E path \in Path, inputs \in Inputs, f \in Written : DoRunGC(path, inputs, f)
  BY Zenon, <1>6, DoRunGCStep
<1>7. CASE InstallOutputBlobFiles
  BY Zenon, <1>7, InstallStep
<1>8. CASE RewriteValidKeyToLSM
  BY Zenon, <1>8, RewriteStep
<1>9. CASE DeleteInputBlobFiles
  BY Zenon, <1>9, DeleteInputStep
<1>10. CASE \E f \in File : PurgeObsoleteFiles(f)
  BY Zenon, <1>10, PurgeStep
<1>11. CASE Restart
  BY Zenon, <1>11, RestartStep
<1> QED BY Zenon, <1>1, <1>2, <1>3, <1>4, <1>5, <1>6, <1>7, <1>8, <1>9, <1>10, <1>11 DEF Next

\* The invariant holds of every state, whatever the bounds, the number of
\* writes, jobs, compactions and restarts.
THEOREM WriteBackInvariant == Spec => []IndInv
BY InitInv, NextInv, PTL DEF Spec

\* What a Get finds at the top of the tree.
LEMMA TopIs ==
  ASSUME IndInv, log # {}
  PROVE  LET g == Newest(log) IN
         /\ g \in log /\ Top(g, log)
         /\ \/ GetImpl(seq) = g
            \/ g.old # None /\ GetImpl(seq) \in log /\ IsValue(GetImpl(seq))
         /\ ~ Misled /\ IsIndex(g) => state[g.at[1]] # "kPurged"
         /\ \A x \in log : IsValue(x) => ValueOf(x) = x.value
         /\ ~ Misled => ValueOf(g) = Val(g, content)
<1> DEFINE g == Newest(log)
<1>t. TreeTypes /\ FileTypes /\ ResolveInv
  BY Zenon DEF IndInv
<1>1. /\ g \in log /\ Top(g, log)
      /\ \/ GetImpl(seq) = g
         \/ g.old # None /\ GetImpl(seq) \in log /\ IsValue(GetImpl(seq))
  BY Zenon, <1>t, GetImplIs
<1>2. \A x \in log : x.seq \in Nat /\ (IsValue(x) \/ IsIndex(x))
  BY Zenon, <1>t, TreeIs
<1> HIDE DEF g
<1>3. ~ Covered(g, log)
  <2> SUFFICES ASSUME NEW d \in log, d.seq > g.seq PROVE FALSE
    BY Zenon DEF Covered
  <2>1. d.seq <= g.seq /\ d.seq \in Nat /\ g.seq \in Nat
    BY Zenon, <1>1, <1>2 DEF Top
  <2> QED BY <2>1
<1>4. ~ Misled /\ IsIndex(g) => state[g.at[1]] # "kPurged"
  <2>1. "kPurged" \in Dead
    BY DEF Dead
  <2> QED BY Zenon, <2>1, <1>1, <1>3, <1>t DEF ResolveInv
<1>5. \A x \in log : IsValue(x) => ValueOf(x) = x.value
  BY Zenon DEF ValueOf, IsValue
<1>6. ~ Misled => ValueOf(g) = Val(g, content)
  BY Zenon, <1>1, <1>2, <1>4 DEF ValueOf, Val, Record, IsValue
<1> QED BY Zenon, <1>1, <1>4, <1>5, <1>6 DEF g

\* Offloaded GC is invisible to Get as long as RewriteValidKeyToLSM writes no
\* record back late: GetImpl returns the last Put, through any chain of
\* relocations, flushes and compactions.
THEOREM OffloadInvisible == Spec => []RelocationInvisible
<1>1. IndInv => RelocationInvisible
  <2> SUFFICES ASSUME IndInv, ~ raced, restarts = 0, puts > 0
               PROVE  ValueOf(GetImpl(seq)) = puts
    BY Zenon DEF RelocationInvisible, ReadsLatest
  <2> DEFINE g == Newest(log)
  <2>0. log # {} /\ TreeTypes /\ Chain(log, content, puts)
    BY Zenon DEF IndInv, TreeTypes, ChainInv
  <2>1. ~ Misled
    <3>1. ~ (restarts > 0)
      OBVIOUS
    <3> QED BY Zenon, <3>1 DEF Misled
  <2>2. /\ g \in log /\ Top(g, log)
        /\ \/ GetImpl(seq) = g
           \/ g.old # None /\ GetImpl(seq) \in log /\ IsValue(GetImpl(seq))
        /\ ValueOf(g) = Val(g, content)
    BY Zenon, <2>0, <2>1, TopIs
  <2> HIDE DEF g
  <2>3. GetImpl(seq) = g
    BY Zenon, <2>0, <2>2, TopOfChain
  <2> QED BY Zenon, <2>0, <2>2, <2>3 DEF Chain
<1> QED BY <1>1, WriteBackInvariant, PTL

\* What CompactionIterator::Preprocess repairs: a single late write-back gives
\* way to the newer version once everything is merged into one run.
THEOREM LateWriteBackRepaired == Spec => []Reconciled
<1>1. IndInv => Reconciled
  <2> SUFFICES ASSUME IndInv, ~ stacked, ~ Misled, restarts = 0, Settled, puts > 0
               PROVE  ValueOf(GetImpl(seq)) = puts
    BY Zenon DEF Reconciled, SettledLatest, ReadsLatest
  <2> DEFINE g == Newest(log)
  <2>0. log # {} /\ TreeTypes /\ Recon(log, content, puts)
    BY Zenon DEF IndInv, TreeTypes, ReconInv
  <2>2. /\ g \in log /\ Top(g, log)
        /\ \/ GetImpl(seq) = g
           \/ g.old # None /\ GetImpl(seq) \in log /\ IsValue(GetImpl(seq))
        /\ ValueOf(g) = Val(g, content)
    BY Zenon, <2>0, TopIs
  <2> HIDE DEF g
  <2>3. \A x \in log : x = g
    BY Zenon, <2>2 DEF Settled
  <2>4. GetImpl(seq) = g
    BY Zenon, <2>2, <2>3
  <2>5. g.old = None
    BY Zenon, <2>0, <2>3 DEF Recon
  <2>6. g.seq \in Nat
    BY Zenon, <2>0, <2>2, EntryIs DEF TreeTypes, LogTypes
  <2>7. ~ (g.seq > g.seq)
    BY <2>6
  <2>8. \A x \in Above(g, log) : x.old # None
    BY Zenon, <2>3, <2>7 DEF Above
  <2>9. Val(g, content) = puts
    BY Zenon, <2>0, <2>2, <2>5, <2>8 DEF Recon
  <2> QED BY Zenon, <2>2, <2>4, <2>9
<1> QED BY <1>1, WriteBackInvariant, PTL

\* A Get never meets a file that DeleteInputBlobFiles or a restart removed,
\* although the records to keep come from a bitmap that knows nothing of the
\* memtables, unless a software job was misled about what a key holds.
THEOREM TopResolves == Spec => []IndexResolves
<1>1. IndInv => IndexResolves
  <2> SUFFICES ASSUME IndInv, ~ Misled PROVE ValueOf(GetImpl(seq)) # Missing
    BY Zenon DEF IndexResolves, Resolves
  <2>t. TreeTypes /\ FileTypes
    BY Zenon DEF IndInv
  <2>0. /\ puts \in Nat /\ puts <= MaxPut /\ MaxPut \in Nat
        /\ \A v \in Nat : v <= puts => v # Missing
    <3>1. puts \in Nat /\ puts <= MaxPut /\ MaxPut \in Nat
      BY Zenon, <2>t, WriteBackAssumption DEF TreeTypes
    <3> QED BY <3>1 DEF Missing
  <2>1. CASE log = {}
    <3>1. /\ Memtable = {} /\ VisibleAt(Memtable, seq) = {} /\ log \ Memtable = {}
          /\ VisibleAt({}, seq) = {}
      BY Zenon, <2>1 DEF Memtable, VisibleAt
    <3>2. GetImpl(seq) = NotFound
      BY Zenon, <3>1 DEF GetImpl, FirstOf
    <3>3. ValueOf(NotFound) = 0
      BY DEF ValueOf, NotFound, ValueEntry
    <3>4. 0 # Missing
      BY <2>0
    <3> QED BY Zenon, <3>2, <3>3, <3>4
  <2>2. CASE log # {}
    <3> DEFINE g == Newest(log)
    <3>1. /\ g \in log
          /\ \/ GetImpl(seq) = g
             \/ g.old # None /\ GetImpl(seq) \in log /\ IsValue(GetImpl(seq))
          /\ \A x \in log : IsValue(x) => ValueOf(x) = x.value
          /\ ValueOf(g) = Val(g, content)
      BY Zenon, <2>2, TopIs
    <3> HIDE DEF g
    <3>2. \A x \in log : IsValue(x) => x.value \in Nat /\ x.value <= puts
      BY Zenon, <2>0, <2>t, EntryIs DEF TreeTypes, LogTypes
    <3>3. \A x \in log : ~ IsValue(x) => x.at \in Records
      BY Zenon, <2>t, TreeIs
    <3>4. \A r \in Records : Record(content, r) \in Nat /\ Record(content, r) <= puts
      BY Zenon, <2>t DEF FileTypes
    <3>5. Val(g, content) \in Nat /\ Val(g, content) <= puts
      BY Zenon, <3>1, <3>2, <3>3, <3>4 DEF Val
    <3> QED BY Zenon, <3>1, <3>2, <3>5, <2>0
  <2> QED BY Zenon, <2>1, <2>2
<1> QED BY <1>1, WriteBackInvariant, PTL

\* No bit of invalid_entry_indexes_ is set for a record that an entry of the
\* tree, in a memtable or a run, still holds.
THEOREM BitsAreDead == Spec => []BitmapSound
<1>1. IndInv => BitmapSound
  BY Zenon DEF IndInv, DroppedInv
<1> QED BY <1>1, WriteBackInvariant, PTL
=============================================================================

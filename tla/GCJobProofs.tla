---------------------------- MODULE GCJobProofs ----------------------------
(***************************************************************************)
(* Compute units and inputs of GC jobs, for every number of workers, units *)
(* and files.                                                              *)
(***************************************************************************)
EXTENDS GCJob, FiniteSetTheorems, TLAPS

-----------------------------------------------------------------------------
(* The inductive invariant.                                                *)

FileState == {"kNormal", "kBeingGC", "kObsolete", "kPurged"}
JobPC == {"idle", "run", "copy", "kernel", "open", "bitmaps", "merge", "returned",
          "exited"}

Types ==
  /\ free \in Seq(CU)
  /\ state \in [File -> FileState]
  /\ tpc \in [Worker -> JobPC]
  /\ inputs \in [Worker -> Seq(File)]
  /\ cu \in [Worker -> CU \cup {NoCU}]
  /\ opened \in [Worker -> Nat]
  /\ read \in [Worker -> SUBSET File]
  /\ status \in [Worker -> {"ok", "NotFound", "IOError"}]
  /\ deleted \subseteq File
  /\ faults \in Nat

\* Every unit is in the queue or in the hands of a worker: one about to run on
\* it, or one that has met a file that was deleted by range.
UnitInv ==
  /\ \A k \in CU : k \in ToSet(free) \/ \E w \in Worker : cu[w] = k
  /\ \A w \in Worker : cu[w] # NoCU => tpc[w] \in {"copy", "kernel"} \/ RangeDeleted # {}
  /\ \A w \in Worker : cu[w] # NoCU => tpc[w] \in {"copy", "kernel", "returned", "exited"}
  /\ \A w \in Worker : tpc[w] \in {"copy", "kernel"} => cu[w] # NoCU

\* A file is an input of at most one job, which holds it unless a user has
\* deleted it by range.  A file that a job deleted stays obsolete.
InputInv ==
  /\ \A w \in Worker : tpc[w] = "idle" => inputs[w] = <<>>
  /\ \A w \in Worker : \A f \in ToSet(inputs[w]) :
       state[f] = "kBeingGC" \/ f \in RangeDeleted
  /\ \A v, w \in Worker : v # w => ToSet(inputs[v]) \cap ToSet(inputs[w]) = {}
  /\ \A w \in Worker : opened[w] <= Len(inputs[w])
  /\ \A f \in deleted : IsObsolete(f)

\* If every input could be opened, a job has opened all of its inputs when it
\* merges, and has read all of them when it comes back without an error.
ReadInv ==
  faults = 0 /\ RangeDeleted = {} =>
    /\ unread = {}
    /\ \A w \in Worker :
         /\ tpc[w] \in {"bitmaps", "merge"} => opened[w] = Len(inputs[w])
         /\ tpc[w] = "returned" /\ status[w] = "ok" => ToSet(inputs[w]) \subseteq read[w]

IndInv == Types /\ CUExclusive /\ UnitInv /\ InputInv /\ ReadInv


-----------------------------------------------------------------------------
(* Sequences.                                                              *)

\* The empty sequence.
LEMMA EmptySet == \A S : <<>> \in Seq(S) /\ ToSet(<<>>) = {} /\ Len(<<>>) = 0
BY DEF ToSet

\* The elements of a sequence.
LEMMA Elements ==
  ASSUME NEW S, NEW s \in Seq(S)
  PROVE  /\ ToSet(s) \subseteq S
         /\ {s[k] : k \in 1 .. Len(s)} = ToSet(s)
         /\ Len(s) \in Nat
         /\ \A n \in 0 .. Len(s) : {s[k] : k \in 1 .. n} \subseteq ToSet(s)
BY DEF ToSet

\* The head of a queue without duplicates is not in its tail.
LEMMA PopQueue ==
  ASSUME NEW S, NEW s \in Seq(S), s # <<>>, IsInjective(s)
  PROVE  /\ Head(s) \in S
         /\ Tail(s) \in Seq(S)
         /\ ToSet(s) = ToSet(Tail(s)) \cup {Head(s)}
         /\ Head(s) \notin ToSet(Tail(s))
         /\ IsInjective(Tail(s))
<1>1. /\ Len(s) \in Nat /\ Len(s) >= 1 /\ DOMAIN s = 1 .. Len(s)
      /\ Head(s) = s[1] /\ Head(s) \in S
  OBVIOUS
<1>2. /\ Tail(s) \in Seq(S)
      /\ DOMAIN Tail(s) = 1 .. (Len(s) - 1)
      /\ \A i \in 1 .. (Len(s) - 1) : Tail(s)[i] = s[i + 1]
  BY <1>1
<1>3. ASSUME NEW x \in ToSet(s) PROVE x \in ToSet(Tail(s)) \cup {Head(s)}
  <2>1. PICK i \in 1 .. Len(s) : x = s[i]
    BY Zenon, <1>1, <1>3 DEF ToSet
  <2>2. CASE i = 1
    BY Zenon, <1>1, <2>1, <2>2
  <2>3. CASE i # 1
    <3>1. i - 1 \in 1 .. (Len(s) - 1) /\ (i - 1) + 1 = i
      BY <1>1, <2>3
    <3>2. x = Tail(s)[i - 1]
      BY Zenon, <1>2, <2>1, <3>1
    <3> QED BY Zenon, <1>2, <3>1, <3>2 DEF ToSet
  <2> QED BY Zenon, <2>2, <2>3
<1>4. ASSUME NEW i \in 1 .. (Len(s) - 1)
      PROVE  i + 1 \in 1 .. Len(s) /\ i + 1 # 1 /\ Tail(s)[i] = s[i + 1]
  BY <1>1, <1>2
<1>5. ToSet(Tail(s)) \cup {Head(s)} \subseteq ToSet(s)
  <2>1. Head(s) \in ToSet(s)
    <3>1. 1 \in 1 .. Len(s)
      BY <1>1
    <3> QED BY Zenon, <1>1, <3>1 DEF ToSet
  <2>2. ToSet(Tail(s)) \subseteq ToSet(s)
    BY ZenonT(40), <1>1, <1>2, <1>4 DEF ToSet
  <2> QED BY Zenon, <2>1, <2>2
<1>6. Head(s) \notin ToSet(Tail(s))
  <2>1. 1 \in 1 .. Len(s)
    BY <1>1
  <2>2. ASSUME NEW i \in 1 .. (Len(s) - 1) PROVE Tail(s)[i] # Head(s)
    BY Zenon, <1>1, <1>4, <2>1 DEF IsInjective
  <2> QED BY Zenon, <1>2, <2>2 DEF ToSet
<1>7. IsInjective(Tail(s))
  <2> SUFFICES ASSUME NEW i \in 1 .. (Len(s) - 1), NEW j \in 1 .. (Len(s) - 1),
                      Tail(s)[i] = Tail(s)[j]
               PROVE  i = j
    BY Zenon, <1>2 DEF IsInjective
  <2>0. /\ i + 1 \in DOMAIN s /\ j + 1 \in DOMAIN s
        /\ s[i + 1] = s[j + 1]
    <3>1. i + 1 \in 1 .. Len(s) /\ Tail(s)[i] = s[i + 1]
      BY Zenon, <1>4
    <3>2. j + 1 \in 1 .. Len(s) /\ Tail(s)[j] = s[j + 1]
      BY Zenon, <1>4
    <3>3. DOMAIN s = 1 .. Len(s)
      BY Zenon, <1>1
    <3> QED BY Zenon, <3>1, <3>2, <3>3
  <2>1. i + 1 = j + 1
    BY Zenon, <2>0 DEF IsInjective
  <2> QED BY <1>1, <2>1
<1> QED BY Zenon, <1>1, <1>2, <1>3, <1>5, <1>6, <1>7

\* An element that is not in a queue without duplicates can be appended.
LEMMA PushQueue ==
  ASSUME NEW S, NEW s \in Seq(S), NEW x \in S, IsInjective(s), x \notin ToSet(s)
  PROVE  /\ Append(s, x) \in Seq(S)
         /\ ToSet(Append(s, x)) = ToSet(s) \cup {x}
         /\ IsInjective(Append(s, x))
<1> DEFINE t == Append(s, x)
<1>1. /\ Len(s) \in Nat /\ DOMAIN s = 1 .. Len(s)
      /\ t \in Seq(S) /\ DOMAIN t = 1 .. (Len(s) + 1)
      /\ t[Len(s) + 1] = x
      /\ \A i \in 1 .. Len(s) : t[i] = s[i]
  OBVIOUS
<1>2. 1 .. (Len(s) + 1) = (1 .. Len(s)) \cup {Len(s) + 1}
  BY <1>1
<1> HIDE DEF t
<1>3. ToSet(t) = ToSet(s) \cup {x}
  <2>1. \A y \in ToSet(t) : y \in ToSet(s) \cup {x}
    BY Zenon, <1>1, <1>2 DEF ToSet
  <2>2. x \in ToSet(t)
    BY Zenon, <1>1, <1>2 DEF ToSet
  <2>3. \A y \in ToSet(s) : y \in ToSet(t)
    BY Zenon, <1>1, <1>2 DEF ToSet
  <2> QED BY Zenon, <2>1, <2>2, <2>3
<1>4. \A i \in 1 .. Len(s) : s[i] # x
  BY Zenon, <1>1 DEF ToSet
<1>5. IsInjective(t)
  <2> SUFFICES ASSUME NEW i \in DOMAIN t, NEW j \in DOMAIN t, t[i] = t[j]
               PROVE  i = j
    BY Zenon DEF IsInjective
  <2>1. i \in 1 .. Len(s) \/ i = Len(s) + 1
    BY Zenon, <1>1, <1>2
  <2>2. j \in 1 .. Len(s) \/ j = Len(s) + 1
    BY Zenon, <1>1, <1>2
  <2> QED BY Zenon, <1>1, <1>4, <2>1, <2>2 DEF IsInjective
<1> QED BY Zenon, <1>1, <1>3, <1>5 DEF t


-----------------------------------------------------------------------------
(* Steps of a job that leave the states of files alone.                    *)

\* An input that is obsolete was deleted by range.
LEMMA ObsoleteInput ==
  ASSUME IndInv, NEW w \in Worker, NEW f \in ToSet(inputs[w]), IsObsolete(f)
  PROVE  RangeDeleted # {}
BY Zenon DEF IndInv, InputInv, IsObsolete

\* RangeDeleted depends on the states of the files and on deleted only.
LEMMA RangeSame ==
  ASSUME UNCHANGED <<state, deleted>>
  PROVE  RangeDeleted' = RangeDeleted /\ \A f : IsObsolete(f)' <=> IsObsolete(f)
BY Zenon DEF RangeDeleted, IsObsolete

\* A step that leaves the files and the inputs of the jobs alone.
LEMMA QuietInputs ==
  ASSUME IndInv, UNCHANGED <<state, deleted, inputs>>,
         \A w \in Worker : tpc'[w] = "idle" => tpc[w] = "idle",
         \A w \in Worker : opened'[w] <= Len(inputs[w])
  PROVE  InputInv'
<1>1. RangeDeleted' = RangeDeleted /\ \A f : IsObsolete(f)' <=> IsObsolete(f)
  BY Zenon, RangeSame
<1> QED BY Zenon, <1>1 DEF IndInv, InputInv

\* A step of w that leaves the units alone.
LEMMA QuietUnits ==
  ASSUME IndInv, NEW w \in Worker, UNCHANGED <<free, cu, state, deleted>>,
         \A v \in Worker : v # w => tpc'[v] = tpc[v],
         \/ cu[w] = NoCU /\ tpc'[w] \notin {"copy", "kernel"}
         \/ tpc[w] = "copy" /\ tpc'[w] = "kernel"
         \/ RangeDeleted # {} /\ tpc'[w] \in {"returned", "exited"}
  PROVE  CUExclusive' /\ UnitInv'
<1>1. RangeDeleted' = RangeDeleted
  BY Zenon, RangeSame
<1>2. CUExclusive'
  BY Zenon DEF IndInv, CUExclusive, Held
<1>3. ASSUME NEW v \in Worker, cu[v] # NoCU
      PROVE  /\ tpc'[v] \in {"copy", "kernel"} \/ RangeDeleted # {}
             /\ tpc'[v] \in {"copy", "kernel", "returned", "exited"}
  <2>1. CASE v = w
    BY Zenon, <1>3, <2>1
  <2>2. CASE v # w
    BY Zenon, <1>3, <2>2 DEF IndInv, UnitInv
  <2> QED BY Zenon, <2>1, <2>2
<1>4. ASSUME NEW v \in Worker, tpc'[v] \in {"copy", "kernel"} PROVE cu[v] # NoCU
  <2>1. CASE v = w
    BY Zenon, <1>4, <2>1 DEF IndInv, UnitInv
  <2>2. CASE v # w
    BY Zenon, <1>4, <2>2 DEF IndInv, UnitInv
  <2> QED BY Zenon, <2>1, <2>2
<1>5. \A k \in CU : k \in ToSet(free) \/ \E v \in Worker : cu[v] = k
  BY Zenon DEF IndInv, UnitInv
<1> QED BY Zenon, <1>1, <1>2, <1>3, <1>4, <1>5 DEF UnitInv

\* A step of w that leaves the other workers and the files alone.
LEMMA QuietReads ==
  ASSUME IndInv, NEW w \in Worker, UNCHANGED <<state, deleted, unread, inputs>>,
         faults \in Nat, faults' = faults \/ faults' = faults + 1,
         \A v \in Worker : v # w =>
           /\ tpc'[v] = tpc[v] /\ opened'[v] = opened[v]
           /\ status'[v] = status[v] /\ read'[v] = read[v],
         faults' = 0 /\ RangeDeleted = {} =>
           /\ tpc'[w] \in {"bitmaps", "merge"} => opened'[w] = Len(inputs[w])
           /\ tpc'[w] = "returned" /\ status'[w] = "ok" => ToSet(inputs[w]) \subseteq read'[w]
  PROVE  ReadInv'
<1>1. RangeDeleted' = RangeDeleted
  BY Zenon, RangeSame
<1>2. faults' = 0 => faults = 0
  OBVIOUS
<1> SUFFICES ASSUME faults' = 0, RangeDeleted = {}
             PROVE  ReadInv'
  BY Zenon, <1>1 DEF ReadInv
<1>3. ReadInv /\ faults = 0
  BY Zenon, <1>2 DEF IndInv
<1>4. ASSUME NEW v \in Worker
      PROVE  /\ tpc'[v] \in {"bitmaps", "merge"} => opened'[v] = Len(inputs[v])
             /\ tpc'[v] = "returned" /\ status'[v] = "ok" => ToSet(inputs[v]) \subseteq read'[v]
  <2>1. CASE v = w
    BY Zenon, <2>1
  <2>2. CASE v # w
    BY Zenon, <1>3, <2>2 DEF ReadInv
  <2> QED BY Zenon, <2>1, <2>2
<1>5. unread' = {}
  BY Zenon, <1>3 DEF ReadInv
<1> QED BY Zenon, <1>1, <1>4, <1>5 DEF ReadInv


\* A unit that goes from the head of the queue to a worker is in no other place.
LEMMA GetFreeCUIndexPreserves ==
  ASSUME IndInv, NEW w \in Worker, GetFreeCUIndex(w)
  PROVE  IndInv'
<1> USE GCJobAssumption
<1>t. Types /\ CUExclusive /\ UnitInv /\ InputInv
  BY Zenon DEF IndInv
<1>u. /\ tpc[w] = "run" /\ UNCHANGED <<mutex, state, inputs, opened, read, status, deleted,
                                      unread, faults>>
  BY Zenon DEF GetFreeCUIndex
<1>n. cu[w] = NoCU
  BY Zenon, <1>t, <1>u DEF UnitInv
<1>o. \A v \in Worker : v # w => tpc'[v] = tpc[v]
  BY Zenon, <1>t DEF GetFreeCUIndex, Goto, Types
<1>p. tpc'[w] \in {"copy", "open"}
  BY Zenon, <1>t DEF GetFreeCUIndex, Goto, Types
<1>1. InputInv' /\ ReadInv'
  <2>1. InputInv'
    BY Zenon, <1>t, <1>u, <1>o, <1>p, QuietInputs DEF InputInv
  <2>2. ReadInv'
    BY Zenon, <1>t, <1>u, <1>o, <1>p, QuietReads DEF Types
  <2> QED BY Zenon, <2>1, <2>2
<1>2. tpc' \in [Worker -> JobPC]
  BY Zenon, <1>t DEF GetFreeCUIndex, Goto, Types, JobPC
<1>3. CASE free # <<>> /\ cu' = [cu EXCEPT ![w] = Head(free)] /\ free' = Tail(free)
           /\ Goto(w, "copy")
  <2>1. /\ Head(free) \in CU
        /\ free' \in Seq(CU)
        /\ ToSet(free) = ToSet(free') \cup {Head(free)}
        /\ Head(free) \notin ToSet(free')
        /\ IsInjective(free')
    BY Zenon, <1>t, <1>3, PopQueue DEF Types, CUExclusive
  <2>2. cu'[w] = Head(free) /\ \A v \in Worker : v # w => cu'[v] = cu[v]
    BY Zenon, <1>t, <1>3 DEF Types
  <2>3. Types'
    <3>1. cu' \in [Worker -> CU \cup {NoCU}]
      BY Zenon, <1>t, <1>3, <2>1 DEF Types
    <3> QED BY Zenon, <1>t, <1>u, <1>2, <2>1, <3>1 DEF Types
  <2>4. CUExclusive'
    <3>1. ASSUME NEW v \in Worker, NEW x \in Worker, cu'[v] # NoCU, cu'[v] = cu'[x]
          PROVE  v = x
      <4>1. \A y \in Worker : y # w => cu[y] # Head(free)
        <5>1. Head(free) \in ToSet(free) /\ Head(free) # NoCU
          BY Zenon, <2>1
        <5> QED BY Zenon, <1>t, <5>1 DEF CUExclusive, Held
      <4>2. CASE v = w
        BY Zenon, <2>2, <3>1, <4>1, <4>2
      <4>3. CASE x = w
        BY Zenon, <2>2, <3>1, <4>1, <4>3
      <4>4. CASE v # w /\ x # w
        <5>1. cu[v] = cu[x] /\ cu[v] # NoCU /\ cu[x] # NoCU
          BY Zenon, <2>2, <3>1, <4>4
        <5> QED BY Zenon, <1>t, <5>1 DEF CUExclusive, Held
      <4> QED BY Zenon, <4>2, <4>3, <4>4
    <3>2. ASSUME NEW v \in Worker, cu'[v] # NoCU PROVE cu'[v] \notin ToSet(free')
      <4>1. CASE v = w
        BY Zenon, <2>1, <2>2, <4>1
      <4>2. CASE v # w
        <5>1. cu[v] \notin ToSet(free)
          BY Zenon, <1>t, <2>2, <3>2, <4>2 DEF CUExclusive, Held
        <5> QED BY Zenon, <2>1, <2>2, <4>2, <5>1
      <4> QED BY Zenon, <4>1, <4>2
    <3> QED BY Zenon, <2>1, <3>1, <3>2 DEF CUExclusive, Held
  <2>5. UnitInv'
    <3>1. tpc'[w] = "copy" /\ cu'[w] # NoCU
      BY Zenon, <1>t, <1>3, <2>1, <2>2 DEF Goto, Types
    <3>2. \A k \in CU : k \in ToSet(free') \/ \E v \in Worker : cu'[v] = k
      <4> SUFFICES ASSUME NEW k \in CU, k \notin ToSet(free')
                   PROVE  \E v \in Worker : cu'[v] = k
        BY Zenon
      <4>1. CASE k = Head(free)
        BY Zenon, <2>2, <4>1
      <4>2. CASE k # Head(free)
        <5>1. PICK v \in Worker : cu[v] = k
          BY Zenon, <1>t, <2>1, <4>2 DEF UnitInv
        <5>2. v # w
          BY Zenon, <1>n, <5>1
        <5> QED BY Zenon, <2>2, <5>1, <5>2
      <4> QED BY Zenon, <4>1, <4>2
    <3>3. RangeDeleted' = RangeDeleted
      BY Zenon, <1>u, RangeSame
    <3>4. \A v \in Worker :
            /\ cu'[v] # NoCU => tpc'[v] \in {"copy", "kernel"} \/ RangeDeleted' # {}
            /\ cu'[v] # NoCU => tpc'[v] \in {"copy", "kernel", "returned", "exited"}
            /\ tpc'[v] \in {"copy", "kernel"} => cu'[v] # NoCU
      <4> TAKE v \in Worker
      <4>1. CASE v = w
        BY Zenon, <3>1, <4>1
      <4>2. CASE v # w
        BY Zenon, <1>t, <1>o, <2>2, <3>3, <4>2 DEF UnitInv
      <4> QED BY Zenon, <4>1, <4>2
    <3> QED BY Zenon, <3>2, <3>4 DEF UnitInv
  <2> QED BY Zenon, <1>1, <2>3, <2>4, <2>5 DEF IndInv
<1>4. CASE UNCHANGED <<cu, free>> /\ Goto(w, "open")
  <2>1. tpc'[w] = "open"
    BY Zenon, <1>t, <1>4 DEF Goto, Types
  <2>2. CUExclusive' /\ UnitInv'
    BY Zenon, <1>u, <1>n, <1>o, <1>4, <2>1, QuietUnits
  <2>3. Types'
    BY Zenon, <1>t, <1>u, <1>2, <1>4 DEF Types
  <2> QED BY Zenon, <1>1, <2>2, <2>3 DEF IndInv
<1> QED BY Zenon, <1>3, <1>4 DEF GetFreeCUIndex

\* A job that meets an obsolete input keeps its unit; a user deleted that input.
LEMMA CopyBitmapsPreserves ==
  ASSUME IndInv, NEW w \in Worker, CopyBitmaps(w)
  PROVE  IndInv'
<1>t. Types /\ InputInv
  BY Zenon DEF IndInv
<1>u. tpc[w] = "copy" /\ UNCHANGED <<free, state, inputs, cu, opened, read, deleted, unread,
                                     faults>>
  BY Zenon DEF CopyBitmaps
<1>o. \A v \in Worker : v # w => tpc'[v] = tpc[v] /\ status'[v] = status[v]
  BY Zenon, <1>t DEF CopyBitmaps, Goto, Types
<1>p. \/ tpc'[w] = "kernel"
      \/ tpc'[w] = "returned" /\ RangeDeleted # {}
  <2>1. CASE Goto(w, "kernel")
    BY Zenon, <1>t, <2>1 DEF Goto, Types
  <2>2. CASE Goto(w, "returned") /\ \E f \in ToSet(inputs[w]) : IsObsolete(f)
    BY Zenon, <1>t, <2>2, ObsoleteInput DEF Goto, Types
  <2> QED BY Zenon, <2>1, <2>2 DEF CopyBitmaps
<1>1. Types'
  <2>1. tpc' \in [Worker -> JobPC] /\ status' \in [Worker -> {"ok", "NotFound", "IOError"}]
    BY Zenon, <1>t DEF CopyBitmaps, Goto, Types, JobPC
  <2> QED BY Zenon, <1>t, <1>u, <2>1 DEF Types
<1>2. CUExclusive' /\ UnitInv'
  BY Zenon, <1>u, <1>o, <1>p, QuietUnits
<1>3. InputInv'
  BY Zenon, <1>t, <1>u, <1>o, <1>p, QuietInputs DEF InputInv
<1>4. ReadInv'
  BY Zenon, <1>t, <1>u, <1>o, <1>p, QuietReads DEF Types
<1> QED BY Zenon, <1>1, <1>2, <1>3, <1>4 DEF IndInv


\* The unit of a job goes back to the tail of the queue, where it was not.
LEMMA RunGCKernelPreserves ==
  ASSUME IndInv, NEW w \in Worker, RunGCKernel(w)
  PROVE  IndInv'
<1> USE GCJobAssumption
<1>t. Types /\ CUExclusive /\ UnitInv /\ InputInv
  BY Zenon DEF IndInv
<1>u. /\ tpc[w] = "kernel"
      /\ read' = [read EXCEPT ![w] = ToSet(inputs[w])]
      /\ free' = Append(free, cu[w])
      /\ cu' = [cu EXCEPT ![w] = NoCU]
      /\ tpc' = [tpc EXCEPT ![w] = "returned"]
      /\ UNCHANGED <<mutex, state, inputs, opened, status, deleted, unread, faults>>
  BY Zenon DEF RunGCKernel, Goto
<1>c. cu[w] # NoCU /\ cu[w] \in CU /\ cu[w] \notin ToSet(free)
  <2>1. cu[w] # NoCU
    BY Zenon, <1>t, <1>u DEF UnitInv
  <2>2. cu[w] \in CU
    BY Zenon, <1>t, <2>1 DEF Types
  <2> QED BY Zenon, <1>t, <2>1, <2>2 DEF CUExclusive, Held
<1>o. \A v \in Worker : v # w => /\ tpc'[v] = tpc[v] /\ cu'[v] = cu[v]
                                 /\ read'[v] = read[v]
  BY Zenon, <1>t, <1>u DEF Types
<1>p. tpc'[w] = "returned" /\ cu'[w] = NoCU /\ read'[w] = ToSet(inputs[w])
  BY Zenon, <1>t, <1>u DEF Types
<1>q. /\ free' \in Seq(CU)
      /\ ToSet(free') = ToSet(free) \cup {cu[w]}
      /\ IsInjective(free')
  <2>1. free \in Seq(CU) /\ IsInjective(free)
    BY Zenon, <1>t DEF Types, CUExclusive
  <2>2. /\ Append(free, cu[w]) \in Seq(CU)
        /\ ToSet(Append(free, cu[w])) = ToSet(free) \cup {cu[w]}
        /\ IsInjective(Append(free, cu[w]))
    BY Zenon, <1>c, <2>1, PushQueue
  <2> QED BY Zenon, <1>u, <2>2
<1>1. Types'
  <2>1. ToSet(inputs[w]) \subseteq File
    BY Zenon, <1>t, Elements DEF Types
  <2>2. /\ tpc' \in [Worker -> JobPC] /\ cu' \in [Worker -> CU \cup {NoCU}]
        /\ read' \in [Worker -> SUBSET File]
    BY Zenon, <1>t, <1>u, <2>1 DEF Types, JobPC
  <2> QED BY Zenon, <1>t, <1>u, <1>q, <2>2 DEF Types
<1>2. CUExclusive'
  <2>1. \A v, x \in Worker : cu'[v] # NoCU /\ cu'[v] = cu'[x] => v = x
    BY ZenonT(40), <1>t, <1>o, <1>p DEF CUExclusive, Held
  <2>2. ASSUME NEW v \in Worker, cu'[v] # NoCU PROVE cu'[v] \notin ToSet(free')
    <3>1. v # w /\ cu'[v] = cu[v] /\ cu[v] # NoCU
      BY Zenon, <1>o, <1>p, <2>2
    <3>2. cu[v] \notin ToSet(free) /\ cu[v] # cu[w]
      BY Zenon, <1>t, <1>c, <3>1 DEF CUExclusive, Held
    <3> QED BY Zenon, <1>q, <3>1, <3>2
  <2> QED BY Zenon, <1>q, <2>1, <2>2 DEF CUExclusive, Held
<1>3. UnitInv'
  <2>1. \A k \in CU : k \in ToSet(free') \/ \E v \in Worker : cu'[v] = k
    BY Zenon, <1>t, <1>o, <1>q DEF UnitInv
  <2>2. RangeDeleted' = RangeDeleted
    BY Zenon, <1>u, RangeSame
  <2>3. \A v \in Worker :
          /\ cu'[v] # NoCU => tpc'[v] \in {"copy", "kernel"} \/ RangeDeleted' # {}
          /\ cu'[v] # NoCU => tpc'[v] \in {"copy", "kernel", "returned", "exited"}
          /\ tpc'[v] \in {"copy", "kernel"} => cu'[v] # NoCU
    <3> TAKE v \in Worker
    <3>1. CASE v = w
      BY Zenon, <1>p, <3>1
    <3>2. CASE v # w
      BY Zenon, <1>t, <1>o, <2>2, <3>2 DEF UnitInv
    <3> QED BY Zenon, <3>1, <3>2
  <2> QED BY Zenon, <2>1, <2>3 DEF UnitInv
<1>4. InputInv'
  BY Zenon, <1>t, <1>u, <1>o, <1>p, QuietInputs DEF InputInv
<1>5. ReadInv'
  BY Zenon, <1>t, <1>u, <1>o, <1>p, QuietReads DEF Types
<1> QED BY Zenon, <1>1, <1>2, <1>3, <1>4, <1>5 DEF IndInv

\* An input that was unlinked was deleted by range before.
LEMMA ExitProcessPreserves ==
  ASSUME IndInv, NEW w \in Worker, ExitProcess(w)
  PROVE  IndInv'
<1>t. Types /\ CUExclusive /\ UnitInv /\ InputInv
  BY Zenon DEF IndInv
<1>u. /\ tpc' = [v \in Worker |-> "exited"]
      /\ UNCHANGED <<mutex, free, state, inputs, cu, opened, read, status, deleted,
                     unread, faults>>
      /\ \E f \in ToSet(inputs[w]) : state[f] = "kPurged"
  BY Zenon DEF ExitProcess
<1>r. RangeDeleted # {} /\ RangeDeleted' = RangeDeleted
  BY Zenon, <1>u, ObsoleteInput, RangeSame DEF IsObsolete
<1>p. \A v \in Worker : tpc'[v] = "exited"
  BY Zenon, <1>u
<1>1. Types'
  <2>1. tpc' \in [Worker -> JobPC]
    BY Zenon, <1>u DEF JobPC
  <2> QED BY Zenon, <1>t, <1>u, <2>1 DEF Types
<1>2. CUExclusive'
  BY Zenon, <1>t, <1>u DEF CUExclusive, Held
<1>3. UnitInv'
  BY Zenon, <1>t, <1>u, <1>r, <1>p DEF UnitInv
<1>4. InputInv'
  BY Zenon, <1>t, <1>u, <1>p, QuietInputs DEF InputInv
<1>5. ReadInv'
  BY Zenon, <1>r DEF ReadInv
<1> QED BY Zenon, <1>1, <1>2, <1>3, <1>4, <1>5 DEF IndInv

\* An input that fails to open is counted in faults, or was deleted by range.
LEMMA OpenInputsPreserves ==
  ASSUME IndInv, NEW w \in Worker, NEW n, OpenInputs(w, n)
  PROVE  IndInv'
<1> USE GCJobAssumption
<1>t. Types /\ CUExclusive /\ UnitInv /\ InputInv
  BY Zenon DEF IndInv
<1>u. /\ tpc[w] = "open" /\ n \in 0 .. Len(inputs[w])
      /\ opened' = [opened EXCEPT ![w] = n]
      /\ status' = [status EXCEPT ![w] = IF n = Len(inputs[w]) THEN "ok" ELSE "IOError"]
      /\ tpc' = [tpc EXCEPT ![w] = "bitmaps"]
      /\ UNCHANGED <<mutex, free, state, inputs, cu, read, deleted, unread>>
      /\ faults' = faults \/ faults' = faults + 1
  BY Zenon DEF OpenInputs, Goto
<1>i. inputs[w] \in Seq(File)
  BY Zenon, <1>t DEF Types
<1>l. Len(inputs[w]) \in Nat
  BY Zenon, <1>i, Elements
<1>n. n \in Nat /\ n <= Len(inputs[w])
  BY <1>u, <1>l
<1>o. \A v \in Worker : v # w => /\ tpc'[v] = tpc[v] /\ opened'[v] = opened[v]
                                 /\ status'[v] = status[v]
  BY Zenon, <1>t, <1>u DEF Types
<1>p. tpc'[w] = "bitmaps" /\ opened'[w] = n
  BY Zenon, <1>t, <1>u DEF Types
<1>f. faults' = 0 /\ RangeDeleted = {} => n = Len(inputs[w])
  <2> SUFFICES ASSUME n # Len(inputs[w]), RangeDeleted = {} PROVE faults' # 0
    BY Zenon
  <2>1. \/ state[inputs[w][n + 1]] = "kPurged"
        \/ faults' = faults + 1
    BY Zenon DEF OpenInputs
  <2>2. n + 1 \in 1 .. Len(inputs[w])
    BY <1>l, <1>n
  <2>3. inputs[w][n + 1] \in ToSet(inputs[w])
    <3>1. {inputs[w][k] : k \in 1 .. Len(inputs[w])} = ToSet(inputs[w])
      BY Zenon, <1>i, Elements
    <3> QED BY Zenon, <2>2, <3>1
  <2>4. state[inputs[w][n + 1]] # "kPurged"
    BY Zenon, <2>3, ObsoleteInput DEF IsObsolete
  <2>5. faults' = faults + 1 /\ faults \in Nat
    BY Zenon, <1>t, <2>1, <2>4 DEF Types
  <2> QED BY <2>5
<1>1. Types'
  <2>1. /\ tpc' \in [Worker -> JobPC] /\ opened' \in [Worker -> Nat]
        /\ status' \in [Worker -> {"ok", "NotFound", "IOError"}]
    BY Zenon, <1>t, <1>u, <1>n DEF Types, JobPC
  <2>2. faults' \in Nat
    BY <1>t, <1>u DEF Types
  <2> QED BY Zenon, <1>t, <1>u, <2>1, <2>2 DEF Types
<1>2. CUExclusive' /\ UnitInv'
  <2>1. cu[w] = NoCU
    BY Zenon, <1>t, <1>u DEF UnitInv
  <2> QED BY Zenon, <1>u, <1>o, <1>p, <2>1, QuietUnits
<1>3. InputInv'
  <2>1. \A v \in Worker : opened'[v] <= Len(inputs[v])
    BY Zenon, <1>t, <1>n, <1>o, <1>p DEF InputInv
  <2> QED BY Zenon, <1>u, <1>o, <1>p, <2>1, QuietInputs
<1>4. ReadInv'
  BY Zenon, <1>t, <1>u, <1>o, <1>p, <1>f, QuietReads DEF Types
<1> QED BY Zenon, <1>1, <1>2, <1>3, <1>4 DEF IndInv


\* The job goes on to merge what it opened.
LEMMA SetBitMapsPreserves ==
  ASSUME IndInv, NEW w \in Worker, SetBitMaps(w)
  PROVE  IndInv'
<1> USE GCJobAssumption
<1>t. Types /\ CUExclusive /\ UnitInv /\ InputInv /\ ReadInv
  BY Zenon DEF IndInv
<1> DEFINE list == {inputs[w][k] : k \in 1 .. opened[w]}
<1>u. /\ tpc[w] = "bitmaps"
      /\ UNCHANGED <<free, state, inputs, cu, opened, read, deleted, unread, faults>>
  BY Zenon DEF SetBitMaps
<1>o. \A v \in Worker : v # w => tpc'[v] = tpc[v] /\ status'[v] = status[v]
  BY Zenon, <1>t DEF SetBitMaps, Goto, Types
<1>s. list \subseteq ToSet(inputs[w]) /\ (opened[w] = Len(inputs[w]) => list = ToSet(inputs[w]))
  <2>1. inputs[w] \in Seq(File) /\ opened[w] \in Nat /\ opened[w] <= Len(inputs[w])
    BY Zenon, <1>t DEF Types, InputInv
  <2>2. /\ {inputs[w][k] : k \in 1 .. Len(inputs[w])} = ToSet(inputs[w])
        /\ Len(inputs[w]) \in Nat
        /\ \A n \in 0 .. Len(inputs[w]) : {inputs[w][k] : k \in 1 .. n} \subseteq ToSet(inputs[w])
    BY Zenon, <2>1, Elements
  <2>3. opened[w] \in 0 .. Len(inputs[w])
    BY <2>1, <2>2
  <2> QED BY Zenon, <2>2, <2>3
<1> HIDE DEF list
<1>p. \/ tpc'[w] = "merge"
      \/ tpc'[w] = "returned" /\ list = {}
      \/ tpc'[w] = "returned" /\ RangeDeleted # {}
  <2>1. CASE Goto(w, IF list = {} THEN "returned" ELSE "merge")
    BY Zenon, <1>t, <2>1 DEF Goto, Types
  <2>2. CASE Goto(w, "returned") /\ \E f \in list : IsObsolete(f)
    BY Zenon, <1>s, <1>t, <2>2, ObsoleteInput DEF Goto, Types
  <2> QED BY Zenon, <2>1, <2>2 DEF SetBitMaps, list
<1>1. Types'
  <2>1. tpc' \in [Worker -> JobPC]
    BY Zenon, <1>t DEF SetBitMaps, Goto, Types, JobPC
  <2>2. status' \in [Worker -> {"ok", "NotFound", "IOError"}]
    BY Zenon, <1>t DEF SetBitMaps, Types
  <2> QED BY Zenon, <1>t, <1>u, <2>1, <2>2 DEF Types
<1>2. CUExclusive' /\ UnitInv'
  <2>1. cu[w] = NoCU
    BY Zenon, <1>t, <1>u DEF UnitInv
  <2> QED BY Zenon, <1>u, <1>o, <1>p, <2>1, QuietUnits
<1>3. InputInv'
  BY Zenon, <1>t, <1>u, <1>o, <1>p, QuietInputs DEF InputInv
<1>4. ReadInv'
  <2>1. faults' = 0 /\ RangeDeleted = {} => opened[w] = Len(inputs[w])
    BY Zenon, <1>t, <1>u DEF ReadInv
  <2>2. faults' = 0 /\ RangeDeleted = {} =>
          /\ tpc'[w] \in {"bitmaps", "merge"} => opened'[w] = Len(inputs[w])
          /\ tpc'[w] = "returned" => ToSet(inputs[w]) \subseteq read'[w]
    BY Zenon, <1>u, <1>s, <1>p, <2>1
  <2> QED BY Zenon, <1>t, <1>u, <1>o, <2>2, QuietReads DEF Types
<1> QED BY Zenon, <1>1, <1>2, <1>3, <1>4 DEF IndInv

\* The merge iterator reads what was opened.
LEMMA DoRunGCPreserves ==
  ASSUME IndInv, NEW w \in Worker, DoRunGC(w)
  PROVE  IndInv'
<1> USE GCJobAssumption
<1>t. Types /\ CUExclusive /\ UnitInv /\ InputInv /\ ReadInv
  BY Zenon DEF IndInv
<1> DEFINE list == {inputs[w][k] : k \in 1 .. opened[w]}
<1>u. /\ tpc[w] = "merge"
      /\ read' = [read EXCEPT ![w] = list]
      /\ tpc' = [tpc EXCEPT ![w] = "returned"]
      /\ UNCHANGED <<mutex, free, state, inputs, cu, opened, status, deleted, unread,
                     faults>>
  BY Zenon DEF DoRunGC, Goto
<1>i. inputs[w] \in Seq(File) /\ opened[w] \in Nat /\ opened[w] <= Len(inputs[w])
  BY Zenon, <1>t DEF Types, InputInv
<1>e. /\ ToSet(inputs[w]) \subseteq File
      /\ {inputs[w][k] : k \in 1 .. Len(inputs[w])} = ToSet(inputs[w])
      /\ Len(inputs[w]) \in Nat
      /\ \A n \in 0 .. Len(inputs[w]) : {inputs[w][k] : k \in 1 .. n} \subseteq ToSet(inputs[w])
  BY Zenon, <1>i, Elements
<1>s. list \subseteq ToSet(inputs[w]) /\ (opened[w] = Len(inputs[w]) => list = ToSet(inputs[w]))
  <2>1. opened[w] \in 0 .. Len(inputs[w])
    BY <1>i, <1>e
  <2> QED BY Zenon, <1>e, <2>1
<1> HIDE DEF list
<1>o. \A v \in Worker : v # w => tpc'[v] = tpc[v] /\ read'[v] = read[v]
  BY Zenon, <1>t, <1>u DEF Types
<1>p. tpc'[w] = "returned" /\ read'[w] = list
  BY Zenon, <1>t, <1>u DEF Types
<1>1. Types'
  <2>1. list \subseteq File
    BY Zenon, <1>e, <1>s
  <2>2. tpc' \in [Worker -> JobPC] /\ read' \in [Worker -> SUBSET File]
    BY Zenon, <1>t, <1>u, <2>1 DEF Types, JobPC
  <2> QED BY Zenon, <1>t, <1>u, <2>2 DEF Types
<1>2. CUExclusive' /\ UnitInv'
  <2>1. cu[w] = NoCU
    BY Zenon, <1>t, <1>u DEF UnitInv
  <2> QED BY Zenon, <1>u, <1>o, <1>p, <2>1, QuietUnits
<1>3. InputInv'
  BY Zenon, <1>t, <1>u, <1>o, <1>p, QuietInputs DEF InputInv
<1>4. ReadInv'
  <2>1. faults' = 0 /\ RangeDeleted = {} => ToSet(inputs[w]) \subseteq read'[w]
    BY Zenon, <1>t, <1>u, <1>s, <1>p DEF ReadInv
  <2> QED BY Zenon, <1>t, <1>u, <1>o, <1>p, <2>1, QuietReads DEF Types
<1> QED BY Zenon, <1>1, <1>2, <1>3, <1>4 DEF IndInv


-----------------------------------------------------------------------------
(* Steps that change the states of files.                                  *)

\* The files picked are kNormal, so they are inputs of no other job.
LEMMA PickBlobGCPreserves ==
  ASSUME IndInv, NEW w \in Worker, NEW picked \in Seq(File), PickBlobGC(w, picked)
  PROVE  IndInv'
<1> USE GCJobAssumption
<1>t. Types /\ CUExclusive /\ UnitInv /\ InputInv /\ ReadInv
  BY Zenon DEF IndInv
<1>u. /\ tpc[w] = "idle"
      /\ \A f \in ToSet(picked) : state[f] = "kNormal"
      /\ state' = [f \in File |-> IF f \in ToSet(picked) THEN "kBeingGC" ELSE state[f]]
      /\ inputs' = [inputs EXCEPT ![w] = picked]
      /\ status' = [status EXCEPT ![w] = "ok"]
      /\ read' = [read EXCEPT ![w] = {}]
      /\ tpc' = [tpc EXCEPT ![w] = "run"]
      /\ UNCHANGED <<mutex, free, cu, opened, deleted, unread, faults>>
  BY Zenon DEF PickBlobGC, Goto
<1>e. ToSet(picked) \subseteq File /\ Len(picked) \in Nat
  BY Zenon, Elements
<1>s. \A f \in File : /\ f \in ToSet(picked) => state'[f] = "kBeingGC" /\ state[f] = "kNormal"
                      /\ f \notin ToSet(picked) => state'[f] = state[f]
  BY Zenon, <1>u
<1>b. \A f \in File : IsObsolete(f)' <=> IsObsolete(f)
  BY Zenon, <1>s DEF IsObsolete
<1>r. RangeDeleted' = RangeDeleted
  BY Zenon, <1>u, <1>b DEF RangeDeleted
<1>o. \A v \in Worker : v # w => /\ tpc'[v] = tpc[v] /\ inputs'[v] = inputs[v]
                                 /\ status'[v] = status[v] /\ read'[v] = read[v]
  BY Zenon, <1>t, <1>u DEF Types
<1>p. tpc'[w] = "run" /\ inputs'[w] = picked
  BY Zenon, <1>t, <1>u DEF Types
<1>c. cu[w] = NoCU
  BY Zenon, <1>t, <1>u DEF UnitInv
<1>1. Types'
  <2>1. state' \in [File -> FileState]
    BY Zenon, <1>t, <1>u DEF Types, FileState
  <2>2. /\ tpc' \in [Worker -> JobPC] /\ inputs' \in [Worker -> Seq(File)]
        /\ status' \in [Worker -> {"ok", "NotFound", "IOError"}]
        /\ read' \in [Worker -> SUBSET File]
    BY Zenon, <1>t, <1>u DEF Types, JobPC
  <2> QED BY Zenon, <1>t, <1>u, <2>1, <2>2 DEF Types
<1>2. CUExclusive'
  BY Zenon, <1>t, <1>u DEF CUExclusive, Held
<1>3. UnitInv'
  <2>1. \A k \in CU : k \in ToSet(free') \/ \E v \in Worker : cu'[v] = k
    BY Zenon, <1>t, <1>u DEF UnitInv
  <2>2. \A v \in Worker :
          /\ cu'[v] # NoCU => tpc'[v] \in {"copy", "kernel"} \/ RangeDeleted' # {}
          /\ cu'[v] # NoCU => tpc'[v] \in {"copy", "kernel", "returned", "exited"}
          /\ tpc'[v] \in {"copy", "kernel"} => cu'[v] # NoCU
    <3> TAKE v \in Worker
    <3>1. CASE v = w
      BY Zenon, <1>u, <1>c, <1>p, <3>1
    <3>2. CASE v # w
      BY Zenon, <1>t, <1>u, <1>o, <1>r, <3>2 DEF UnitInv
    <3> QED BY Zenon, <3>1, <3>2
  <2> QED BY Zenon, <2>1, <2>2 DEF UnitInv
<1>4. InputInv'
  <2>i. \A v \in Worker : ToSet(inputs[v]) \subseteq File
    BY Zenon, <1>t, Elements DEF Types
  <2>1. \A v \in Worker : tpc'[v] = "idle" => inputs'[v] = <<>>
    BY Zenon, <1>t, <1>o, <1>p DEF InputInv
  <2>d. ASSUME NEW v \in Worker, NEW f \in ToSet(inputs[v]) PROVE f \notin ToSet(picked)
    <3>1. f \in File /\ (state[f] = "kBeingGC" \/ IsObsolete(f))
      BY Zenon, <1>t, <2>i DEF InputInv, RangeDeleted
    <3> QED BY Zenon, <1>u, <3>1 DEF IsObsolete
  <2>2. ASSUME NEW v \in Worker, NEW f \in ToSet(inputs'[v])
        PROVE  state'[f] = "kBeingGC" \/ f \in RangeDeleted
    <3>1. CASE v = w
      BY Zenon, <1>e, <1>p, <1>s, <2>2, <3>1
    <3>2. CASE v # w
      <4>1. f \in ToSet(inputs[v]) /\ f \in File /\ f \notin ToSet(picked)
        BY Zenon, <1>o, <2>i, <2>d, <2>2, <3>2
      <4> QED BY Zenon, <1>t, <1>s, <4>1 DEF InputInv
    <3> QED BY Zenon, <3>1, <3>2
  <2>3. ASSUME NEW v \in Worker, NEW x \in Worker, v # x
        PROVE  ToSet(inputs'[v]) \cap ToSet(inputs'[x]) = {}
    <3>1. CASE v = w
      BY Zenon, <1>o, <1>p, <2>d, <2>3, <3>1
    <3>2. CASE x = w
      BY Zenon, <1>o, <1>p, <2>d, <2>3, <3>2
    <3>3. CASE v # w /\ x # w
      BY Zenon, <1>t, <1>o, <2>3, <3>3 DEF InputInv
    <3> QED BY Zenon, <3>1, <3>2, <3>3
  <2>4. \A v \in Worker : opened'[v] <= Len(inputs'[v])
    <3>1. opened[w] = 0
      <4>1. opened[w] <= Len(inputs[w]) /\ inputs[w] = <<>> /\ opened[w] \in Nat
        BY Zenon, <1>t, <1>u DEF InputInv, Types
      <4>2. opened[w] <= 0
        BY Zenon, <4>1, EmptySet
      <4> QED BY <4>1, <4>2
    <3>2. opened'[w] <= Len(inputs'[w])
      <4>1. 0 <= Len(picked)
        BY <1>e
      <4> QED BY Zenon, <1>u, <1>p, <3>1, <4>1
    <3> QED BY Zenon, <1>t, <1>u, <1>o, <3>2 DEF InputInv
  <2>5. \A f \in deleted' : IsObsolete(f)'
    BY Zenon, <1>t, <1>u, <1>b DEF InputInv, Types
  <2> QED BY Zenon, <1>r, <2>1, <2>2, <2>3, <2>4, <2>5 DEF InputInv
<1>5. ReadInv'
  <2> SUFFICES ASSUME faults = 0, RangeDeleted = {} PROVE ReadInv'
    BY Zenon, <1>u, <1>r DEF ReadInv
  <2>1. ASSUME NEW v \in Worker
        PROVE  /\ tpc'[v] \in {"bitmaps", "merge"} => opened'[v] = Len(inputs'[v])
               /\ tpc'[v] = "returned" /\ status'[v] = "ok" => ToSet(inputs'[v]) \subseteq read'[v]
    <3>1. CASE v = w
      BY Zenon, <1>p, <3>1
    <3>2. CASE v # w
      BY Zenon, <1>t, <1>u, <1>o, <3>2 DEF ReadInv
    <3> QED BY Zenon, <3>1, <3>2
  <2>2. unread' = {}
    BY Zenon, <1>t, <1>u DEF ReadInv
  <2> QED BY Zenon, <2>1, <2>2 DEF ReadInv
<1> QED BY Zenon, <1>1, <1>2, <1>3, <1>4, <1>5 DEF IndInv


\* A worker that comes back from a job is rid of its unit.
LEMMA FinishJobPreserves ==
  ASSUME IndInv, NEW w \in Worker, cu[w] = NoCU, FinishJob(w)
  PROVE  IndInv'
<1> USE GCJobAssumption
<1>t. Types /\ CUExclusive /\ UnitInv /\ InputInv /\ ReadInv
  BY Zenon DEF IndInv
<1>g. PICK gone : gone = {f \in ToSet(inputs[w]) : status[w] = "ok" /\ ~ IsObsolete(f)}
  BY Zenon
<1>u. /\ tpc[w] = "returned"
      /\ state' = [f \in File |-> IF f \in gone THEN "kObsolete"
                                  ELSE IF f \in ToSet(inputs[w]) /\ ~ IsObsolete(f)
                                  THEN "kNormal" ELSE state[f]]
      /\ deleted' = deleted \cup gone
      /\ unread' = unread \cup (gone \ read[w])
      /\ inputs' = [inputs EXCEPT ![w] = <<>>]
      /\ opened' = [opened EXCEPT ![w] = 0]
      /\ tpc' = [tpc EXCEPT ![w] = "idle"]
      /\ UNCHANGED <<mutex, free, cu, read, status, faults>>
  BY Zenon, <1>g DEF FinishJob, Goto
<1>i. \A v \in Worker : ToSet(inputs[v]) \subseteq File
  BY Zenon, <1>t, Elements DEF Types
<1>e. /\ gone \subseteq File /\ gone \subseteq ToSet(inputs[w])
      /\ \A f \in gone : ~ IsObsolete(f) /\ status[w] = "ok"
  BY Zenon, <1>g, <1>i
<1>s. \A f \in File :
        /\ f \in gone => state'[f] = "kObsolete"
        /\ f \notin gone /\ f \in ToSet(inputs[w]) /\ ~ IsObsolete(f)
             => state'[f] = "kNormal"
        /\ f \notin ToSet(inputs[w]) \/ IsObsolete(f) => state'[f] = state[f]
  BY Zenon, <1>u, <1>e
<1>b. \A f \in File : IsObsolete(f)' <=> IsObsolete(f) \/ f \in gone
  <2> TAKE f \in File
  <2>1. CASE f \in gone
    BY Zenon, <1>s, <2>1 DEF IsObsolete
  <2>2. CASE f \notin gone /\ f \in ToSet(inputs[w]) /\ ~ IsObsolete(f)
    <3>1. state'[f] = "kNormal"
      BY Zenon, <1>s, <2>2
    <3> QED BY Zenon, <2>2, <3>1 DEF IsObsolete
  <2>3. CASE f \notin gone /\ (f \notin ToSet(inputs[w]) \/ IsObsolete(f))
    BY Zenon, <1>s, <2>3 DEF IsObsolete
  <2> QED BY Zenon, <2>1, <2>2, <2>3
<1>r. RangeDeleted' = RangeDeleted
  BY Zenon, <1>u, <1>b, <1>e DEF RangeDeleted
<1>o. \A v \in Worker : v # w => /\ tpc'[v] = tpc[v] /\ inputs'[v] = inputs[v]
                                 /\ opened'[v] = opened[v]
  BY Zenon, <1>t, <1>u DEF Types
<1>p. tpc'[w] = "idle" /\ inputs'[w] = <<>> /\ opened'[w] = 0
  BY Zenon, <1>t, <1>u DEF Types
<1>1. Types'
  <2>1. state' \in [File -> FileState]
    <3>1. \A f \in File : state'[f] \in FileState
      BY Zenon, <1>t, <1>s DEF Types, FileState
    <3> QED BY Zenon, <1>u, <3>1
  <2>2. tpc' \in [Worker -> JobPC] /\ deleted' \subseteq File
    BY Zenon, <1>t, <1>u, <1>e DEF Types, JobPC
  <2>3. inputs' \in [Worker -> Seq(File)]
    BY Zenon, <1>t, <1>u, EmptySet DEF Types
  <2>4. opened' \in [Worker -> Nat]
    <3>1. 0 \in Nat
      OBVIOUS
    <3> QED BY Zenon, <1>t, <1>u, <3>1 DEF Types
  <2> QED BY Zenon, <1>t, <1>u, <2>1, <2>2, <2>3, <2>4 DEF Types
<1>2. CUExclusive'
  BY Zenon, <1>t, <1>u DEF CUExclusive, Held
<1>3. UnitInv'
  <2>1. \A k \in CU : k \in ToSet(free') \/ \E v \in Worker : cu'[v] = k
    BY Zenon, <1>t, <1>u DEF UnitInv
  <2>2. \A v \in Worker :
          /\ cu'[v] # NoCU => tpc'[v] \in {"copy", "kernel"} \/ RangeDeleted' # {}
          /\ cu'[v] # NoCU => tpc'[v] \in {"copy", "kernel", "returned", "exited"}
          /\ tpc'[v] \in {"copy", "kernel"} => cu'[v] # NoCU
    <3> TAKE v \in Worker
    <3>1. CASE v = w
      BY Zenon, <1>u, <1>p, <3>1
    <3>2. CASE v # w
      BY Zenon, <1>t, <1>u, <1>o, <1>r, <3>2 DEF UnitInv
    <3> QED BY Zenon, <3>1, <3>2
  <2> QED BY Zenon, <2>1, <2>2 DEF UnitInv
<1>4. InputInv'
  <2>1. \A v \in Worker : tpc'[v] = "idle" => inputs'[v] = <<>>
    BY Zenon, <1>t, <1>o, <1>p DEF InputInv
  <2>2. ASSUME NEW v \in Worker, NEW f \in ToSet(inputs'[v])
        PROVE  state'[f] = "kBeingGC" \/ f \in RangeDeleted
    <3>1. v # w
      BY Zenon, <1>p, <2>2, EmptySet
    <3>2. f \in ToSet(inputs[v]) /\ f \in File /\ f \notin ToSet(inputs[w])
      BY Zenon, <1>t, <1>o, <1>i, <2>2, <3>1 DEF InputInv
    <3>3. state'[f] = state[f]
      BY Zenon, <1>s, <3>2
    <3> QED BY Zenon, <1>t, <3>2, <3>3 DEF InputInv
  <2>3. ASSUME NEW v \in Worker, NEW x \in Worker, v # x
        PROVE  ToSet(inputs'[v]) \cap ToSet(inputs'[x]) = {}
    <3>1. CASE v = w \/ x = w
      BY Zenon, <1>p, <3>1, EmptySet
    <3>2. CASE v # w /\ x # w
      BY Zenon, <1>t, <1>o, <2>3, <3>2 DEF InputInv
    <3> QED BY Zenon, <3>1, <3>2
  <2>4. \A v \in Worker : opened'[v] <= Len(inputs'[v])
    <3>1. 0 <= 0
      OBVIOUS
    <3>2. opened'[w] <= Len(inputs'[w])
      BY Zenon, <1>p, <3>1, EmptySet
    <3> QED BY Zenon, <1>t, <1>o, <3>2 DEF InputInv
  <2>5. \A f \in deleted' : IsObsolete(f)'
    BY Zenon, <1>t, <1>u, <1>b, <1>e DEF InputInv, Types
  <2> QED BY Zenon, <1>r, <2>1, <2>2, <2>3, <2>4, <2>5 DEF InputInv
<1>5. ReadInv'
  <2> SUFFICES ASSUME faults = 0, RangeDeleted = {} PROVE ReadInv'
    BY Zenon, <1>u, <1>r DEF ReadInv
  <2>1. ASSUME NEW v \in Worker
        PROVE  /\ tpc'[v] \in {"bitmaps", "merge"} => opened'[v] = Len(inputs'[v])
               /\ tpc'[v] = "returned" /\ status'[v] = "ok" => ToSet(inputs'[v]) \subseteq read'[v]
    <3>1. CASE v = w
      BY Zenon, <1>p, <3>1
    <3>2. CASE v # w
      BY Zenon, <1>t, <1>u, <1>o, <3>2 DEF ReadInv
    <3> QED BY Zenon, <3>1, <3>2
  <2>2. gone \ read[w] = {} /\ unread = {}
    BY Zenon, <1>t, <1>u, <1>e DEF ReadInv
  <2>3. unread' = {}
    BY Zenon, <1>u, <2>2
  <2> QED BY Zenon, <2>1, <2>3 DEF ReadInv
<1> QED BY Zenon, <1>1, <1>2, <1>3, <1>4, <1>5 DEF IndInv


\* A user's range deletion: from now on RangeDeleted is not empty.
LEMMA DeleteBlobFilesInRangesPreserves ==
  ASSUME IndInv, NEW f \in File, DeleteBlobFilesInRanges(f)
  PROVE  IndInv'
<1> USE GCJobAssumption
<1>t. Types /\ CUExclusive /\ UnitInv /\ InputInv /\ ReadInv
  BY Zenon DEF IndInv
<1>u. /\ ~ IsObsolete(f)
      /\ state' = [state EXCEPT ![f] = "kObsolete"]
      /\ UNCHANGED <<mutex, free, tpc, inputs, cu, opened, read, status, deleted, unread,
                     faults>>
  BY Zenon DEF DeleteBlobFilesInRanges
<1>s. state'[f] = "kObsolete" /\ \A g \in File : g # f => state'[g] = state[g]
  BY Zenon, <1>t, <1>u DEF Types
<1>b. \A g \in File : IsObsolete(g) => IsObsolete(g)'
  BY Zenon, <1>s DEF IsObsolete
<1>c. IsObsolete(f)'
  BY Zenon, <1>s DEF IsObsolete
<1>d. f \notin deleted
  BY Zenon, <1>t, <1>u DEF InputInv
<1>r. f \in RangeDeleted' /\ RangeDeleted \subseteq RangeDeleted'
  BY Zenon, <1>u, <1>b, <1>c, <1>d DEF RangeDeleted
<1>1. Types'
  BY Zenon, <1>t, <1>u DEF Types, FileState
<1>2. CUExclusive'
  BY Zenon, <1>t, <1>u DEF CUExclusive, Held
<1>3. UnitInv'
  BY Zenon, <1>t, <1>u, <1>r DEF UnitInv
<1>4. InputInv'
  <2>1. ASSUME NEW v \in Worker, NEW g \in ToSet(inputs[v])
        PROVE  state'[g] = "kBeingGC" \/ g \in RangeDeleted'
    <3>1. g \in File
      BY Zenon, <1>t, Elements DEF Types
    <3>2. CASE g = f
      BY Zenon, <1>r, <3>2
    <3>3. CASE g # f
      BY Zenon, <1>t, <1>s, <1>r, <3>1, <3>3 DEF InputInv
    <3> QED BY Zenon, <3>2, <3>3
  <2>2. \A g \in deleted : IsObsolete(g)'
    BY Zenon, <1>t, <1>b DEF InputInv, Types
  <2> QED BY Zenon, <1>t, <1>u, <2>1, <2>2 DEF InputInv
<1>5. ReadInv'
  BY Zenon, <1>r DEF ReadInv
<1> QED BY Zenon, <1>1, <1>2, <1>3, <1>4, <1>5 DEF IndInv

\* The purge unlinks a file that is obsolete already.
LEMMA PurgeObsoleteFilesPreserves ==
  ASSUME IndInv, NEW f \in File, PurgeObsoleteFiles(f)
  PROVE  IndInv'
<1> USE GCJobAssumption
<1>t. Types /\ CUExclusive /\ UnitInv /\ InputInv /\ ReadInv
  BY Zenon DEF IndInv
<1>u. /\ state[f] = "kObsolete"
      /\ state' = [state EXCEPT ![f] = "kPurged"]
      /\ UNCHANGED <<mutex, free, tpc, inputs, cu, opened, read, status, deleted, unread,
                     faults>>
  BY Zenon DEF PurgeObsoleteFiles
<1>s. state'[f] = "kPurged" /\ \A g \in File : g # f => state'[g] = state[g]
  BY Zenon, <1>t, <1>u DEF Types
<1>b. \A g \in File : IsObsolete(g)' <=> IsObsolete(g)
  BY Zenon, <1>u, <1>s DEF IsObsolete
<1>r. RangeDeleted' = RangeDeleted
  BY Zenon, <1>u, <1>b DEF RangeDeleted
<1>1. Types'
  BY Zenon, <1>t, <1>u DEF Types, FileState
<1>2. CUExclusive'
  BY Zenon, <1>t, <1>u DEF CUExclusive, Held
<1>3. UnitInv'
  BY Zenon, <1>t, <1>u, <1>r DEF UnitInv
<1>4. InputInv'
  <2>1. ASSUME NEW v \in Worker, NEW g \in ToSet(inputs[v])
        PROVE  state'[g] = "kBeingGC" \/ g \in RangeDeleted
    <3>1. g \in File
      BY Zenon, <1>t, Elements DEF Types
    <3>2. state[g] = "kBeingGC" => g # f
      BY Zenon, <1>u
    <3> QED BY Zenon, <1>t, <1>s, <3>1, <3>2 DEF InputInv
  <2>2. \A g \in deleted : IsObsolete(g)'
    BY Zenon, <1>t, <1>b DEF InputInv, Types
  <2> QED BY Zenon, <1>t, <1>u, <1>r, <2>1, <2>2 DEF InputInv
<1>5. ReadInv'
  BY Zenon, <1>t, <1>u, <1>r DEF ReadInv
<1> QED BY Zenon, <1>1, <1>2, <1>3, <1>4, <1>5 DEF IndInv

-----------------------------------------------------------------------------
(* A worker that came back with its unit still holds mutex_, so that the job *)
(* never ends.                                                             *)

LockInv == \A w \in Worker : cu[w] # NoCU /\ tpc[w] = "returned" => mutex = w

\* A step of w other than the ones that take a unit or come back with it.
LEMMA QuietLock ==
  ASSUME LockInv, NEW w \in Worker,
         \A v \in Worker : v # w => tpc'[v] \in {tpc[v], "exited"} /\ cu'[v] = cu[v],
         cu'[w] = NoCU \/ tpc'[w] # "returned" \/ mutex' = w,
         mutex' = mutex \/ mutex = Nobody
  PROVE  LockInv'
<1> SUFFICES ASSUME NEW v \in Worker, cu'[v] # NoCU, tpc'[v] = "returned"
             PROVE  mutex' = v
  BY Zenon DEF LockInv
<1>1. CASE v = w
  BY Zenon, <1>1
<1>2. CASE v # w
  <2>1. cu[v] # NoCU /\ tpc[v] = "returned"
    BY Zenon, <1>2
  <2>2. mutex = v /\ mutex # Nobody
    BY Zenon, <2>1, GCJobAssumption DEF LockInv
  <2> QED BY Zenon, <2>2
<1> QED BY Zenon, <1>1, <1>2


\* Whoever holds a unit after a step, and is back from its job, holds mutex_.
LEMMA StepLock ==
  ASSUME IndInv, LockInv, NEW w \in Worker, Step(w)
  PROVE  LockInv'
<1>t. Types /\ UnitInv
  BY Zenon DEF IndInv
<1>1. CASE GetFreeCUIndex(w)
  <2>1. /\ tpc' \in {[tpc EXCEPT ![w] = "copy"], [tpc EXCEPT ![w] = "open"]}
        /\ \A v \in Worker : v # w => cu'[v] = cu[v]
        /\ UNCHANGED mutex
    BY Zenon, <1>t, <1>1 DEF GetFreeCUIndex, Goto, Types
  <2>2. tpc'[w] # "returned" /\ \A v \in Worker : v # w => tpc'[v] = tpc[v]
    BY Zenon, <1>t, <2>1 DEF Types
  <2> QED BY Zenon, <2>1, <2>2, QuietLock
<1>2. CASE CopyBitmaps(w)
  <2>1. /\ UNCHANGED cu /\ mutex = Nobody
        /\ \/ tpc' = [tpc EXCEPT ![w] = "kernel"]
           \/ tpc' = [tpc EXCEPT ![w] = "returned"] /\ mutex' = w
    BY Zenon, <1>2 DEF CopyBitmaps, Goto
  <2>2. (tpc'[w] # "returned" \/ mutex' = w) /\ \A v \in Worker : v # w => tpc'[v] = tpc[v]
    BY Zenon, <1>t, <2>1 DEF Types
  <2> QED BY Zenon, <2>1, <2>2, QuietLock
<1>3. CASE RunGCKernel(w)
  <2>1. /\ cu' = [cu EXCEPT ![w] = NoCU] /\ tpc' = [tpc EXCEPT ![w] = "returned"]
        /\ UNCHANGED mutex
    BY Zenon, <1>3 DEF RunGCKernel, Goto
  <2>2. cu'[w] = NoCU /\ \A v \in Worker : v # w => tpc'[v] = tpc[v] /\ cu'[v] = cu[v]
    BY Zenon, <1>t, <2>1 DEF Types
  <2> QED BY Zenon, <2>1, <2>2, QuietLock
<1>4. CASE ExitProcess(w)
  <2>1. tpc' = [v \in Worker |-> "exited"]
    BY Zenon, <1>4 DEF ExitProcess
  <2>2. \A v \in Worker : tpc'[v] # "returned"
    BY Zenon, <2>1
  <2> QED BY Zenon, <2>2 DEF LockInv
<1>5. CASE \E n \in 0 .. Cardinality(File) : OpenInputs(w, n)
  <2>1. UNCHANGED <<cu, mutex>> /\ tpc' = [tpc EXCEPT ![w] = "bitmaps"]
    BY Zenon, <1>5 DEF OpenInputs, Goto
  <2>2. tpc'[w] # "returned" /\ \A v \in Worker : v # w => tpc'[v] = tpc[v]
    BY Zenon, <1>t, <2>1 DEF Types
  <2> QED BY Zenon, <2>1, <2>2, QuietLock
<1>6. CASE SetBitMaps(w)
  <2>1. /\ UNCHANGED cu /\ tpc[w] = "bitmaps" /\ mutex = Nobody
        /\ tpc' \in {[tpc EXCEPT ![w] = "merge"], [tpc EXCEPT ![w] = "returned"]}
    BY Zenon, <1>6 DEF SetBitMaps, Goto
  <2>2. cu'[w] = NoCU /\ \A v \in Worker : v # w => tpc'[v] = tpc[v]
    BY Zenon, <1>t, <2>1 DEF Types, UnitInv
  <2> QED BY Zenon, <2>1, <2>2, QuietLock
<1>7. CASE DoRunGC(w)
  <2>1. /\ UNCHANGED <<cu, mutex>> /\ tpc[w] = "merge"
        /\ tpc' = [tpc EXCEPT ![w] = "returned"]
    BY Zenon, <1>7 DEF DoRunGC, Goto
  <2>2. cu'[w] = NoCU /\ \A v \in Worker : v # w => tpc'[v] = tpc[v]
    BY Zenon, <1>t, <2>1 DEF Types, UnitInv
  <2> QED BY Zenon, <2>1, <2>2, QuietLock
<1>8. CASE FinishJob(w)
  <2>1. UNCHANGED <<cu, mutex>> /\ tpc' = [tpc EXCEPT ![w] = "idle"]
    BY Zenon, <1>8 DEF FinishJob, Goto
  <2>2. tpc'[w] # "returned" /\ \A v \in Worker : v # w => tpc'[v] = tpc[v]
    BY Zenon, <1>t, <2>1 DEF Types
  <2> QED BY Zenon, <2>1, <2>2, QuietLock
<1> QED BY Zenon, <1>1, <1>2, <1>3, <1>4, <1>5, <1>6, <1>7, <1>8 DEF Step

\* A step of a worker preserves the invariant.
LEMMA StepPreserves ==
  ASSUME IndInv, LockInv, NEW w \in Worker, Step(w)
  PROVE  IndInv'
<1>1. CASE FinishJob(w)
  <2>1. mutex = Nobody /\ tpc[w] = "returned"
    BY Zenon, <1>1 DEF FinishJob
  <2>2. cu[w] = NoCU
    BY Zenon, <2>1, GCJobAssumption DEF LockInv
  <2> QED BY Zenon, <1>1, <2>2, FinishJobPreserves
<1>2. CASE \E n \in 0 .. Cardinality(File) : OpenInputs(w, n)
  BY Zenon, <1>2, OpenInputsPreserves
<1> QED BY Zenon, <1>1, <1>2, GetFreeCUIndexPreserves, CopyBitmapsPreserves,
       RunGCKernelPreserves, ExitProcessPreserves, SetBitMapsPreserves,
       DoRunGCPreserves DEF Step

\* The picks are sequences of files.
LEMMA PicksFiles == Picks \subseteq Seq(File)
BY DEF Picks, SeqOf

\* The invariant is inductive.
LEMMA NextIndInv == IndInv /\ LockInv /\ [Next]_vars => IndInv' /\ LockInv'
<1> SUFFICES ASSUME IndInv, LockInv, [Next]_vars PROVE IndInv' /\ LockInv'
  BY Zenon
<1>t. Types
  BY Zenon DEF IndInv
<1>1. CASE \E w \in Worker, picked \in Picks : PickBlobGC(w, picked)
  <2>1. PICK w \in Worker, picked \in Picks : PickBlobGC(w, picked)
    BY Zenon, <1>1
  <2>2. IndInv'
    BY Zenon, <2>1, PicksFiles, PickBlobGCPreserves
  <2>3. UNCHANGED <<cu, mutex>> /\ tpc' = [tpc EXCEPT ![w] = "run"]
    BY Zenon, <2>1 DEF PickBlobGC, Goto
  <2>4. tpc'[w] # "returned" /\ \A v \in Worker : v # w => tpc'[v] = tpc[v]
    BY Zenon, <1>t, <2>3 DEF Types
  <2>5. LockInv'
    BY Zenon, <2>3, <2>4, QuietLock
  <2> QED BY Zenon, <2>2, <2>5
<1>2. CASE \E w \in Worker : Step(w)
  BY Zenon, <1>2, StepPreserves, StepLock
<1>3. CASE \E f \in File : DeleteBlobFilesInRanges(f)
  <2>1. LockInv'
    BY Zenon, <1>3 DEF DeleteBlobFilesInRanges, LockInv
  <2> QED BY Zenon, <1>3, <2>1, DeleteBlobFilesInRangesPreserves
<1>4. CASE \E f \in File : PurgeObsoleteFiles(f)
  <2>1. LockInv'
    BY Zenon, <1>4 DEF PurgeObsoleteFiles, LockInv
  <2> QED BY Zenon, <1>4, <2>1, PurgeObsoleteFilesPreserves
<1>5. CASE UNCHANGED vars
  <2>1. RangeDeleted' = RangeDeleted /\ \A f : IsObsolete(f)' <=> IsObsolete(f)
    BY Zenon, <1>5, RangeSame DEF vars
  <2>2. Types' /\ CUExclusive'
    BY Zenon, <1>5 DEF IndInv, Types, CUExclusive, Held, vars
  <2>3. UnitInv' /\ InputInv' /\ ReadInv'
    BY Zenon, <1>5, <2>1 DEF IndInv, UnitInv, InputInv, ReadInv, vars
  <2>4. LockInv'
    BY Zenon, <1>5 DEF LockInv, vars
  <2> QED BY Zenon, <2>2, <2>3, <2>4 DEF IndInv
<1> QED BY Zenon, <1>1, <1>2, <1>3, <1>4, <1>5 DEF Next


\* A queue that lists every unit, and is as long as there are units, lists none
\* twice.
LEMMA InitialQueue ==
  ASSUME NEW s \in Seq(CU), ToSet(s) = CU, Len(s) = Cardinality(CU)
  PROVE  IsInjective(s)
<1>1. Len(s) \in Nat /\ DOMAIN s = 1 .. Len(s) /\ s \in [1 .. Len(s) -> CU]
  OBVIOUS
<1>2. s \in Surjection(1 .. Len(s), CU)
  BY Zenon, <1>1 DEF Surjection, ToSet
<1>3. IsFiniteSet(1 .. Len(s)) /\ Cardinality(1 .. Len(s)) = Len(s)
  <2>1. 1 \in Int /\ Len(s) \in Int
    BY <1>1
  <2>2. /\ IsFiniteSet(1 .. Len(s))
        /\ Cardinality(1 .. Len(s)) = IF 1 > Len(s) THEN 0 ELSE Len(s) - 1 + 1
    BY Zenon, <2>1, FS_Interval
  <2>3. \A n \in Nat : (IF 1 > n THEN 0 ELSE n - 1 + 1) = n
    OBVIOUS
  <2> QED BY Zenon, <1>1, <2>2, <2>3
<1>4. s \in Injection(1 .. Len(s), CU)
  BY Zenon, <1>2, <1>3, FS_SurjSameCardinalityImpliesInj
<1> QED BY Zenon, <1>4 DEF Injection

\* The invariant holds at the start.
LEMMA InitIndInv == Init => IndInv /\ LockInv
<1> SUFFICES ASSUME Init PROVE IndInv /\ LockInv
  BY Zenon
<1>u. /\ state = [f \in File |-> "kNormal"]
      /\ tpc = [w \in Worker |-> "idle"]
      /\ inputs = [w \in Worker |-> <<>>]
      /\ cu = [w \in Worker |-> NoCU]
      /\ opened = [w \in Worker |-> 0]
      /\ read = [w \in Worker |-> {}]
      /\ status = [w \in Worker |-> "ok"]
      /\ deleted = {} /\ unread = {} /\ faults = 0
  BY Zenon DEF Init
<1>f. free \in Seq(CU) /\ ToSet(free) = CU /\ IsInjective(free)
  <2>1. /\ free \in SeqOf(CU, Cardinality(CU)) /\ ToSet(free) = CU
        /\ Len(free) = Cardinality(CU)
    BY Zenon DEF Init
  <2>2. SeqOf(CU, Cardinality(CU)) \subseteq Seq(CU)
    BY DEF SeqOf
  <2>3. free \in Seq(CU)
    BY Zenon, <2>1, <2>2
  <2> QED BY Zenon, <2>1, <2>3, InitialQueue
<1>w. \A w \in Worker : /\ tpc[w] = "idle" /\ inputs[w] = <<>> /\ cu[w] = NoCU
                        /\ opened[w] = 0
  BY Zenon, <1>u
<1>0. 0 \in Nat /\ 0 <= 0
  OBVIOUS
<1>1. Types
  BY Zenon, <1>u, <1>f, <1>0, EmptySet DEF Types, FileState, JobPC
<1>2. CUExclusive
  BY Zenon, <1>f, <1>w DEF CUExclusive, Held
<1>3. UnitInv
  BY Zenon, <1>f, <1>w DEF UnitInv
<1>4. InputInv
  BY Zenon, <1>u, <1>w, <1>0, EmptySet DEF InputInv
<1>5. ReadInv
  BY Zenon, <1>u, <1>w DEF ReadInv
<1>6. LockInv
  BY Zenon, <1>w DEF LockInv
<1> QED BY Zenon, <1>1, <1>2, <1>3, <1>4, <1>5, <1>6 DEF IndInv

\* The invariant holds in every state of every behaviour of the jobs.
THEOREM Invariance == Spec => [](IndInv /\ LockInv)
BY InitIndInv, NextIndInv, PTL DEF Spec

\* get_free_cu_index and set_free_cu_index never give one compute unit to two
\* jobs, for any number of workers and units, even when range deletions make
\* jobs stop half-way.
THEOREM UnitsExclusive == Spec => []CUExclusive
<1>1. IndInv => CUExclusive
  BY Zenon DEF IndInv
<1> QED BY <1>1, Invariance, PTL

\* Without range deletions run_gc_kernel gives every compute unit back: none is
\* lost to an input that cannot be opened or to the fallback in software.
THEOREM UnitsReturned == Spec => []CUReturned
<1>1. IndInv => CUReturned
  <2> SUFFICES ASSUME IndInv, RangeDeleted = {}, NEW k \in CU
               PROVE  \/ k \in ToSet(free)
                      \/ \E w \in Worker : cu[w] = k /\ tpc[w] \in {"copy", "kernel"}
    BY Zenon DEF CUReturned
  <2>1. k # NoCU
    BY Zenon, GCJobAssumption
  <2> QED BY Zenon, <2>1 DEF IndInv, UnitInv
<1> QED BY <1>1, Invariance, PTL

\* A successful job on the device or in software deletes only inputs whose
\* records it went through, as long as no open fails and no range is deleted.
THEOREM InputsRead == Spec => []OpenedRead
<1>1. IndInv => OpenedRead
  BY Zenon DEF IndInv, ReadInv, OpenedRead, DeletedRead
<1> QED BY <1>1, Invariance, PTL
=============================================================================

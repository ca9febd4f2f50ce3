--------------------------- MODULE LiveDataProofs ---------------------------
(***************************************************************************)
(* Proofs about the account of live data: live_data_size_ never wraps, it  *)
(* is exact without GC jobs and DeleteFilesInRanges and never too low with *)
(* GC jobs, and level merge deletes only what no table refers to.          *)
(*                                                                         *)
(* The account of a file that waits for its first event is a debt.  What   *)
(* makes it safe is that one event alone brings records of the file and    *)
(* all others take some away, in whatever order they are handled.          *)
(***************************************************************************)
EXTENDS LiveData, FiniteSetTheorems, TLAPS

Cells(pairs) == UNION {{p[1]} \X (1 .. p[2]) : p \in pairs}

\* A set of pairs that Total adds up.
Summable(pairs) ==
  /\ pairs \subseteq Nat \X Int
  /\ \A p, q \in pairs : p[1] = q[1] => p = q
  /\ IsFiniteSet(Cells(pairs))

HeldPairs(ts, f) == {<<t.id, t.size[f]>> : t \in ts}
Gains(es, f)     == {<<e.id, e.diff[f]>> : e \in es}
Losses(es, f)    == {<<e.id, - e.diff[f]>> : e \in es}

-----------------------------------------------------------------------------
(* The inductive invariant.                                                *)

Sound(ts) ==
  /\ \A t \in ts : t.id \in Nat /\ t.size \in [File -> Nat]
  /\ \A t, u \in ts : t.id = u.id => t = u
  /\ \A f \in File : IsFiniteSet(Cells(HeldPairs(ts, f)))

SoundEvents(es) ==
  /\ \A e \in es : e.id \in Nat /\ e.diff \in [File -> Int]
  /\ \A e, d \in es : e.id = d.id => e = d
  /\ \A f \in File : IsFiniteSet(Cells(Gains(es, f)))
                     /\ IsFiniteSet(Cells(Losses(es, f)))

Job == [pc : {"idle", "run", "installed", "rewritten"},
        in : File \cup {None}, out : File \cup {None}]
Call == [pc : {"idle", "collected", "deleted"}, ids : SUBSET Nat,
         diff : [File -> Int]]

TableTypes ==
  /\ lastId \in Nat
  /\ Sound(tables) /\ \A t \in tables : t.id <= lastId /\ t.id # 0
  /\ busy \subseteq {t.id : t \in tables}

EventTypes ==
  /\ SoundEvents(events)
  /\ \A e \in events :
       /\ e.id <= lastId /\ e.flush \in BOOLEAN /\ e.files \subseteq File
       /\ \A f \in File : /\ e.flush => e.diff[f] >= 0
                          /\ e.flush /\ f \in e.files => e.diff[f] > 0
                          /\ f \notin e.files => e.diff[f] = 0

FileTypes ==
  /\ mem \in [File -> Nat] /\ live \in [File -> Nat]
  /\ state \in [File -> FileState] /\ entries \in [File -> Records]
  /\ obsolete \subseteq File

CallTypes == options \subseteq Uses /\ job \in Job /\ range \in Call

Types == TableTypes /\ EventTypes /\ FileTypes /\ CallTypes

\* No entry of the tree and no event names f.
Unused(f) ==
  /\ mem[f] = 0
  /\ \A t \in tables : t.size[f] = 0
  /\ \A e \in events : e.diff[f] = 0

FreshInv(f) == state[f] = "kInit" => Unused(f) /\ live[f] = 0

New == {"kInit", "kPendingLSM"}

\* A file that waits has one event that brings its records, and its debt is
\* at most what that event brings.
PendingInv(f) ==
  state[f] = "kPendingLSM" =>
    /\ mem[f] = 0
    /\ \A e, d \in events : e.diff[f] > 0 /\ d.diff[f] > 0 => e = d
    /\ Net(events, f) - live[f] >= Held(tables, f)
    /\ ~ Ranges => Net(events, f) - live[f] = Held(tables, f)

Later == {e \in events : ~ e.flush}

\* The events of a file whose size is known only take away.
SizedInv(f) ==
  ~ Ranges /\ state[f] \notin New =>
    /\ \A e \in Later : e.diff[f] <= 0
    /\ ~ IsObsolete(f) =>
         /\ live[f] + Net(Later, f) >= Referenced(f)
         /\ ~ GC => live[f] + Net(Later, f) = Referenced(f)

FileInv(f) == FreshInv(f) /\ PendingInv(f) /\ SizedInv(f)

JobInv ==
  /\ job.pc # "idle" => job.in \in File /\ state[job.in] \notin New
  /\ job.pc \in {"installed", "rewritten"} =>
       job.out \in File /\ state[job.out] \notin New
  /\ job.out \in File => job.pc \in {"installed", "rewritten"}
  /\ job.pc = "installed" /\ ~ Ranges => Unused(job.out)

\* Without GC jobs.
NoGCInv ==
  ~ GC => /\ job.pc = "idle"
          /\ \A f \in File : mem[f] = 0 /\ state[f] \notin {"kBeingGC", "kPendingGC"}

RangeInv ==
  /\ \A f \in File : range.diff[f] <= 0
  /\ ~ Ranges => range.pc = "idle"

DeadInv ==
  /\ \A f \in obsolete : state[f] \notin New
  /\ MergeDeletesDead

IndInv == /\ Types /\ (\A f \in File : FileInv(f))
          /\ JobInv /\ NoGCInv /\ RangeInv /\ DeadInv

-----------------------------------------------------------------------------
(* Sums.                                                                   *)

\* A sum is the number of its cells.
LEMMA TotalCells == \A P : Total(P) = Cardinality(Cells(P))
BY DEF Total, Cells

\* The sum of no pairs.
LEMMA TotalEmpty == Summable({}) /\ Total({}) = 0
<1>1. Cells({}) = {}
  BY Zenon DEF Cells
<1> QED BY <1>1, FS_EmptySet, TotalCells DEF Summable

\* A sum is a natural number.
LEMMA TotalType ==
  ASSUME NEW P, Summable(P)
  PROVE  Total(P) \in Nat
BY Zenon, FS_CardinalityType, TotalCells DEF Summable

\* The cells of one pair.
LEMMA TotalOne ==
  ASSUME NEW i \in Nat, NEW n \in Int
  PROVE  /\ Summable({<<i, n>>})
         /\ Total({<<i, n>>}) = IF n > 0 THEN n ELSE 0
<1> DEFINE C == {i} \X (1 .. n)
<1>1. Cells({<<i, n>>}) = C
  BY DEF Cells
<1>2. IsFiniteSet({i}) /\ Cardinality({i}) = 1
  BY Zenon, FS_Singleton
<1>3. IsFiniteSet(1 .. n) /\ Cardinality(1 .. n) = IF 1 > n THEN 0 ELSE n - 1 + 1
  BY FS_Interval
<1>4. IsFiniteSet(C) /\ Cardinality(C) = Cardinality({i}) * Cardinality(1 .. n)
  BY Zenon, <1>2, <1>3, FS_Product
<1> HIDE DEF C
<1>5. Cardinality(C) = IF n > 0 THEN n ELSE 0
  BY <1>2, <1>3, <1>4
<1>6. Total({<<i, n>>}) = Cardinality(C)
  BY Zenon, <1>1, TotalCells
<1>7. Summable({<<i, n>>})
  BY <1>1, <1>4 DEF Summable
<1> QED BY Zenon, <1>5, <1>6, <1>7

\* A sum falls into the sums of two parts.
LEMMA TotalSplit ==
  ASSUME NEW P, Summable(P), NEW Q \in SUBSET P
  PROVE  /\ Summable(Q) /\ Summable(P \ Q)
         /\ Total(P) = Total(Q) + Total(P \ Q)
<1>1. Cells(P) = Cells(Q) \cup Cells(P \ Q)
  BY Zenon DEF Cells
<1>2. Cells(Q) \cap Cells(P \ Q) = {}
  <2> SUFFICES ASSUME NEW c, c \in Cells(Q), c \in Cells(P \ Q) PROVE FALSE
    BY Zenon
  <2>1. PICK q \in Q : c \in {q[1]} \X (1 .. q[2])
    BY Zenon DEF Cells
  <2>2. PICK p \in P \ Q : c \in {p[1]} \X (1 .. p[2])
    BY Zenon DEF Cells
  <2>3. c[1] = q[1] /\ c[1] = p[1]
    BY <2>1, <2>2
  <2>4. q \in P /\ p \in P
    BY Zenon
  <2>5. q = p
    BY Zenon, <2>3, <2>4 DEF Summable
  <2> QED BY Zenon, <2>5
<1>3. IsFiniteSet(Cells(P))
  BY Zenon DEF Summable
<1>4. IsFiniteSet(Cells(Q)) /\ IsFiniteSet(Cells(P \ Q))
  BY Zenon, <1>1, <1>3, FS_Subset
<1>5. Summable(Q) /\ Summable(P \ Q)
  BY Zenon, <1>4 DEF Summable
<1>6. Cardinality(Cells(P)) = Cardinality(Cells(Q)) + Cardinality(Cells(P \ Q))
                              - Cardinality(Cells(Q) \cap Cells(P \ Q))
  BY Zenon, <1>1, <1>4, FS_Union
<1>7. Cardinality(Cells(Q) \cap Cells(P \ Q)) = 0
  BY Zenon, <1>2, FS_EmptySet
<1>8. Total(Q) \in Nat /\ Total(P \ Q) \in Nat
  BY Zenon, <1>5, TotalType
<1>9. Total(P) = Cardinality(Cells(P)) /\ Total(Q) = Cardinality(Cells(Q))
      /\ Total(P \ Q) = Cardinality(Cells(P \ Q))
  BY Zenon, TotalCells
<1>10. Total(P) = Total(Q) + Total(P \ Q) - 0
  BY Zenon, <1>6, <1>7, <1>9
<1>11. Total(P) = Total(Q) + Total(P \ Q)
  BY <1>8, <1>10
<1> QED BY Zenon, <1>5, <1>11

\* One more pair.
LEMMA TotalAdd ==
  ASSUME NEW P, Summable(P), NEW i \in Nat, NEW n \in Int,
         \A p \in P : p[1] # i
  PROVE  /\ Summable(P \cup {<<i, n>>})
         /\ Total(P \cup {<<i, n>>}) = Total(P) + IF n > 0 THEN n ELSE 0
<1> DEFINE R == P \cup {<<i, n>>}
<1>1. Cells(R) = Cells(P) \cup Cells({<<i, n>>})
  BY Zenon DEF Cells
<1>2. IsFiniteSet(Cells(P)) /\ IsFiniteSet(Cells({<<i, n>>}))
  BY Zenon, TotalOne DEF Summable
<1>3. IsFiniteSet(Cells(R))
  BY Zenon, <1>1, <1>2, FS_Union
<1>4. Summable(R)
  <2>1. R \subseteq Nat \X Int
    BY DEF Summable
  <2>2. \A p \in R : p \in P \/ p = <<i, n>>
    BY Zenon
  <2>3. <<i, n>>[1] = i
    BY Zenon
  <2>4. \A p, q \in R : p[1] = q[1] => p = q
    BY Zenon, <2>2, <2>3 DEF Summable
  <2> QED BY Zenon, <1>3, <2>1, <2>4 DEF Summable
<1>5. R \ P = {<<i, n>>}
  <2>1. <<i, n>> \notin P
    BY Zenon
  <2> QED BY Zenon, <2>1
<1>6. P \in SUBSET R
  BY Zenon
<1> HIDE DEF R
<1>7. Total(R) = Total(P) + Total(R \ P)
  BY Zenon, <1>4, <1>6, TotalSplit
<1>8. Total({<<i, n>>}) = IF n > 0 THEN n ELSE 0
  BY Zenon, TotalOne
<1>9. Total(R) = Total(P) + IF n > 0 THEN n ELSE 0
  BY Zenon, <1>5, <1>7, <1>8
<1> QED BY Zenon, <1>4, <1>9 DEF R

\* Amounts that are not positive do not count.
LEMMA TotalNone ==
  ASSUME NEW P, P \subseteq Nat \X Int, \A p \in P : p[2] <= 0
  PROVE  Total(P) = 0
<1>1. ASSUME NEW c, c \in Cells(P) PROVE FALSE
  <2>1. PICK p \in P : c \in {p[1]} \X (1 .. p[2])
    BY Zenon, <1>1 DEF Cells
  <2> QED BY <2>1
<1>2. Cells(P) = {}
  BY Zenon, <1>1
<1> QED BY Zenon, <1>2, FS_EmptySet, TotalCells

-----------------------------------------------------------------------------
(* What tables hold.                                                       *)

\* What tables hold of a file is a sum over them.
LEMMA HeldSum ==
  ASSUME NEW ts, Sound(ts), NEW f \in File
  PROVE  /\ Summable(HeldPairs(ts, f))
         /\ Held(ts, f) = Total(HeldPairs(ts, f))
         /\ Held(ts, f) \in Nat
<1>1. \A t \in ts : t.id \in Nat /\ t.size[f] \in Nat
  BY Zenon DEF Sound
<1>2. HeldPairs(ts, f) \subseteq Nat \X Int
  BY <1>1 DEF HeldPairs
<1>3. ASSUME NEW p \in HeldPairs(ts, f), NEW q \in HeldPairs(ts, f), p[1] = q[1]
      PROVE  p = q
  <2>1. PICK t \in ts : p = <<t.id, t.size[f]>>
    BY Zenon DEF HeldPairs
  <2>2. PICK u \in ts : q = <<u.id, u.size[f]>>
    BY Zenon DEF HeldPairs
  <2>3. t.id = u.id
    BY <1>3, <2>1, <2>2
  <2>4. t = u
    BY Zenon, <2>3 DEF Sound
  <2> QED BY Zenon, <2>1, <2>2, <2>4
<1>4. Summable(HeldPairs(ts, f))
  BY Zenon, <1>2, <1>3 DEF Summable, Sound
<1>5. Held(ts, f) = Total(HeldPairs(ts, f))
  BY Zenon DEF Held, HeldPairs
<1> QED BY Zenon, <1>4, <1>5, TotalType

\* A new table adds what it holds of each file.
LEMMA HeldAdd ==
  ASSUME NEW ts, Sound(ts), NEW t, t.id \in Nat, t.size \in [File -> Nat],
         \A u \in ts : u.id # t.id
  PROVE  /\ Sound(ts \cup {t})
         /\ \A f \in File : Held(ts \cup {t}, f) = Held(ts, f) + t.size[f]
<1> DEFINE R == ts \cup {t}
<1>1. ASSUME NEW f \in File
      PROVE  /\ IsFiniteSet(Cells(HeldPairs(R, f)))
             /\ Held(R, f) = Held(ts, f) + t.size[f]
  <2> DEFINE P == HeldPairs(ts, f)
  <2>1. HeldPairs(R, f) = P \cup {<<t.id, t.size[f]>>}
    BY Zenon DEF HeldPairs
  <2>2. Summable(P) /\ Held(ts, f) = Total(P) /\ Held(ts, f) \in Nat
    BY Zenon, HeldSum
  <2>3. \A p \in P : p[1] # t.id
    BY DEF HeldPairs
  <2>4. t.size[f] \in Nat /\ t.size[f] \in Int
    OBVIOUS
  <2> HIDE DEF P
  <2>5. /\ Summable(P \cup {<<t.id, t.size[f]>>})
        /\ Total(P \cup {<<t.id, t.size[f]>>}) =
             Total(P) + IF t.size[f] > 0 THEN t.size[f] ELSE 0
    BY Zenon, <2>2, <2>3, <2>4, TotalAdd
  <2>6. Held(R, f) = Total(HeldPairs(R, f))
    BY Zenon DEF Held, HeldPairs
  <2>7. Held(R, f) = Held(ts, f) + IF t.size[f] > 0 THEN t.size[f] ELSE 0
    BY Zenon, <2>1, <2>2, <2>5, <2>6
  <2>8. Held(R, f) = Held(ts, f) + t.size[f]
    BY <2>2, <2>4, <2>7
  <2> QED BY Zenon, <2>1, <2>5, <2>8 DEF Summable
<1>2. Sound(R)
  <2>1. \A u \in R : u \in ts \/ u = t
    BY Zenon
  <2>2. \A u \in R : u.id \in Nat /\ u.size \in [File -> Nat]
    BY Zenon, <2>1 DEF Sound
  <2>3. \A u, v \in R : u.id = v.id => u = v
    BY Zenon, <2>1 DEF Sound
  <2> QED BY Zenon, <1>1, <2>2, <2>3 DEF Sound
<1> QED BY Zenon, <1>1, <1>2

\* What tables hold is what part of them and the rest hold.
LEMMA HeldSplit ==
  ASSUME NEW ts, Sound(ts), NEW us \in SUBSET ts
  PROVE  /\ Sound(us) /\ Sound(ts \ us)
         /\ \A f \in File : Held(ts, f) = Held(us, f) + Held(ts \ us, f)
<1>1. ASSUME NEW f \in File
      PROVE  /\ IsFiniteSet(Cells(HeldPairs(us, f)))
             /\ IsFiniteSet(Cells(HeldPairs(ts \ us, f)))
             /\ Held(ts, f) = Held(us, f) + Held(ts \ us, f)
  <2> DEFINE P == HeldPairs(ts, f)
             Q == HeldPairs(us, f)
  <2>1. Summable(P) /\ Held(ts, f) = Total(P)
    BY Zenon, HeldSum
  <2>2. Q \in SUBSET P
    BY Zenon DEF HeldPairs
  <2>3. P \ Q = HeldPairs(ts \ us, f)
    <3>1. ASSUME NEW t \in ts \ us PROVE <<t.id, t.size[f]>> \notin Q
      <4> SUFFICES ASSUME NEW u \in us, <<t.id, t.size[f]>> = <<u.id, u.size[f]>>
                   PROVE  FALSE
        BY Zenon DEF HeldPairs
      <4>1. t.id = u.id
        OBVIOUS
      <4>2. t = u
        BY Zenon, <4>1 DEF Sound
      <4> QED BY Zenon, <4>2
    <3> QED BY Zenon, <3>1 DEF HeldPairs
  <2>4. Summable(Q) /\ Summable(P \ Q) /\ Total(P) = Total(Q) + Total(P \ Q)
    BY Zenon, <2>1, <2>2, TotalSplit
  <2>5. Held(us, f) = Total(Q)
    BY Zenon DEF Held, HeldPairs
  <2>6. Held(ts \ us, f) = Total(HeldPairs(ts \ us, f))
    BY Zenon DEF Held, HeldPairs
  <2> QED BY Zenon, <2>1, <2>3, <2>4, <2>5, <2>6 DEF Summable
<1>2. Sound(us) /\ Sound(ts \ us)
  BY Zenon, <1>1 DEF Sound
<1> QED BY Zenon, <1>1, <1>2

\* Tables that hold nothing of a file hold 0 of it together.
LEMMA HeldNone ==
  ASSUME NEW ts, Sound(ts), NEW f \in File, \A t \in ts : t.size[f] = 0
  PROVE  Held(ts, f) = 0
<1>1. HeldPairs(ts, f) \subseteq Nat \X Int
  BY Zenon, HeldSum DEF Summable
<1>2. \A p \in HeldPairs(ts, f) : p[2] <= 0
  BY DEF HeldPairs
<1>3. Total(HeldPairs(ts, f)) = 0
  BY Zenon, <1>1, <1>2, TotalNone
<1> QED BY Zenon, <1>3, HeldSum

-----------------------------------------------------------------------------
(* What events announce.                                                   *)

\* What events announce for a file is the gains less the losses.
LEMMA NetSum ==
  ASSUME NEW es, SoundEvents(es), NEW f \in File
  PROVE  /\ Summable(Gains(es, f)) /\ Summable(Losses(es, f))
         /\ Net(es, f) = Total(Gains(es, f)) - Total(Losses(es, f))
         /\ Total(Gains(es, f)) \in Nat /\ Total(Losses(es, f)) \in Nat
         /\ Net(es, f) \in Int
<1>1. \A e \in es : e.id \in Nat /\ e.diff[f] \in Int
  BY Zenon DEF SoundEvents
<1>a. Summable(Gains(es, f))
  <2>1. Gains(es, f) \subseteq Nat \X Int
    BY <1>1 DEF Gains
  <2>2. ASSUME NEW p \in Gains(es, f), NEW q \in Gains(es, f), p[1] = q[1]
        PROVE  p = q
    <3>1. PICK e \in es : p = <<e.id, e.diff[f]>>
      BY Zenon DEF Gains
    <3>2. PICK d \in es : q = <<d.id, d.diff[f]>>
      BY Zenon DEF Gains
    <3>3. e.id = d.id
      BY <2>2, <3>1, <3>2
    <3>4. e = d
      BY Zenon, <3>3 DEF SoundEvents
    <3> QED BY Zenon, <3>1, <3>2, <3>4
  <2> QED BY Zenon, <2>1, <2>2 DEF Summable, SoundEvents
<1>b. Summable(Losses(es, f))
  <2>1. Losses(es, f) \subseteq Nat \X Int
    BY <1>1 DEF Losses
  <2>2. ASSUME NEW p \in Losses(es, f), NEW q \in Losses(es, f), p[1] = q[1]
        PROVE  p = q
    <3>1. PICK e \in es : p = <<e.id, - e.diff[f]>>
      BY Zenon DEF Losses
    <3>2. PICK d \in es : q = <<d.id, - d.diff[f]>>
      BY Zenon DEF Losses
    <3>3. e.id = d.id
      BY <2>2, <3>1, <3>2
    <3>4. e = d
      BY Zenon, <3>3 DEF SoundEvents
    <3> QED BY Zenon, <3>1, <3>2, <3>4
  <2> QED BY Zenon, <2>1, <2>2 DEF Summable, SoundEvents
<1>2. Net(es, f) = Total(Gains(es, f)) - Total(Losses(es, f))
  BY Zenon DEF Net, Gains, Losses
<1>3. Total(Gains(es, f)) \in Nat /\ Total(Losses(es, f)) \in Nat
  BY Zenon, <1>a, <1>b, TotalType
<1>4. Net(es, f) \in Int
  BY <1>2, <1>3
<1> QED BY Zenon, <1>a, <1>b, <1>2, <1>3, <1>4

\* A new event adds what it announces.
LEMMA NetAdd ==
  ASSUME NEW es, SoundEvents(es), NEW e, e.id \in Nat, e.diff \in [File -> Int],
         \A d \in es : d.id # e.id
  PROVE  /\ SoundEvents(es \cup {e})
         /\ \A f \in File : Net(es \cup {e}, f) = Net(es, f) + e.diff[f]
<1> DEFINE R == es \cup {e}
<1>1. ASSUME NEW f \in File
      PROVE  /\ IsFiniteSet(Cells(Gains(R, f)))
             /\ IsFiniteSet(Cells(Losses(R, f)))
             /\ Net(R, f) = Net(es, f) + e.diff[f]
  <2> DEFINE P == Gains(es, f)
             Q == Losses(es, f)
  <2>1. /\ Gains(R, f) = P \cup {<<e.id, e.diff[f]>>}
        /\ Losses(R, f) = Q \cup {<<e.id, - e.diff[f]>>}
    BY Zenon DEF Gains, Losses
  <2>2. /\ Summable(P) /\ Summable(Q) /\ Net(es, f) = Total(P) - Total(Q)
        /\ Total(P) \in Nat /\ Total(Q) \in Nat
    BY Zenon, NetSum
  <2>3. (\A p \in P : p[1] # e.id) /\ (\A p \in Q : p[1] # e.id)
    BY DEF Gains, Losses
  <2>4. e.diff[f] \in Int /\ - e.diff[f] \in Int
    OBVIOUS
  <2>5. Net(R, f) = Total(Gains(R, f)) - Total(Losses(R, f))
    BY Zenon DEF Net, Gains, Losses
  <2> HIDE DEF P, Q
  <2>6. /\ Summable(P \cup {<<e.id, e.diff[f]>>})
        /\ Total(P \cup {<<e.id, e.diff[f]>>}) =
             Total(P) + IF e.diff[f] > 0 THEN e.diff[f] ELSE 0
    BY Zenon, <2>2, <2>3, <2>4, TotalAdd
  <2>7. /\ Summable(Q \cup {<<e.id, - e.diff[f]>>})
        /\ Total(Q \cup {<<e.id, - e.diff[f]>>}) =
             Total(Q) + IF - e.diff[f] > 0 THEN - e.diff[f] ELSE 0
    BY Zenon, <2>2, <2>3, <2>4, TotalAdd
  <2>8. Net(R, f) = (Total(P) + IF e.diff[f] > 0 THEN e.diff[f] ELSE 0)
                    - (Total(Q) + IF - e.diff[f] > 0 THEN - e.diff[f] ELSE 0)
    BY Zenon, <2>1, <2>5, <2>6, <2>7
  <2>9. Net(R, f) = Net(es, f) + e.diff[f]
    BY <2>2, <2>4, <2>8
  <2> QED BY Zenon, <2>1, <2>6, <2>7, <2>9 DEF Summable
<1>2. SoundEvents(R)
  <2>1. \A d \in R : d \in es \/ d = e
    BY Zenon
  <2>2. \A d \in R : d.id \in Nat /\ d.diff \in [File -> Int]
    BY Zenon, <2>1 DEF SoundEvents
  <2>3. \A d, c \in R : d.id = c.id => d = c
    BY Zenon, <2>1 DEF SoundEvents
  <2> QED BY Zenon, <1>1, <2>2, <2>3 DEF SoundEvents
<1> QED BY Zenon, <1>1, <1>2

\* What events announce is what part of them and the rest announce.
LEMMA NetSplit ==
  ASSUME NEW es, SoundEvents(es), NEW ds \in SUBSET es
  PROVE  /\ SoundEvents(ds) /\ SoundEvents(es \ ds)
         /\ \A f \in File : Net(es, f) = Net(ds, f) + Net(es \ ds, f)
<1>1. ASSUME NEW f \in File
      PROVE  /\ IsFiniteSet(Cells(Gains(ds, f))) /\ IsFiniteSet(Cells(Losses(ds, f)))
             /\ IsFiniteSet(Cells(Gains(es \ ds, f)))
             /\ IsFiniteSet(Cells(Losses(es \ ds, f)))
             /\ Net(es, f) = Net(ds, f) + Net(es \ ds, f)
  <2>1. /\ Summable(Gains(es, f)) /\ Summable(Losses(es, f))
        /\ Net(es, f) = Total(Gains(es, f)) - Total(Losses(es, f))
    BY Zenon, NetSum
  <2>2. Gains(ds, f) \in SUBSET Gains(es, f) /\ Losses(ds, f) \in SUBSET Losses(es, f)
    BY Zenon DEF Gains, Losses
  <2>3. ASSUME NEW d \in es \ ds
        PROVE  <<d.id, d.diff[f]>> \notin Gains(ds, f)
               /\ <<d.id, - d.diff[f]>> \notin Losses(ds, f)
    <3>1. \A e \in ds : d.id # e.id
      BY Zenon DEF SoundEvents
    <3> QED BY <3>1 DEF Gains, Losses
  <2>4. /\ Gains(es, f) \ Gains(ds, f) = Gains(es \ ds, f)
        /\ Losses(es, f) \ Losses(ds, f) = Losses(es \ ds, f)
    BY Zenon, <2>3 DEF Gains, Losses
  <2>5. /\ Summable(Gains(ds, f)) /\ Summable(Gains(es \ ds, f))
        /\ Total(Gains(es, f)) = Total(Gains(ds, f)) + Total(Gains(es \ ds, f))
    <3> DEFINE D == Gains(es, f) \ Gains(ds, f)
    <3>1. /\ Summable(Gains(ds, f)) /\ Summable(D)
          /\ Total(Gains(es, f)) = Total(Gains(ds, f)) + Total(D)
      BY Zenon, <2>1, <2>2, TotalSplit
    <3>2. D = Gains(es \ ds, f)
      BY Zenon, <2>4
    <3> QED BY Zenon, <3>1, <3>2
  <2>6. /\ Summable(Losses(ds, f)) /\ Summable(Losses(es \ ds, f))
        /\ Total(Losses(es, f)) = Total(Losses(ds, f)) + Total(Losses(es \ ds, f))
    <3> DEFINE D == Losses(es, f) \ Losses(ds, f)
    <3>1. /\ Summable(Losses(ds, f)) /\ Summable(D)
          /\ Total(Losses(es, f)) = Total(Losses(ds, f)) + Total(D)
      BY Zenon, <2>1, <2>2, TotalSplit
    <3>2. D = Losses(es \ ds, f)
      BY Zenon, <2>4
    <3> QED BY Zenon, <3>1, <3>2
  <2>7. /\ Net(ds, f) = Total(Gains(ds, f)) - Total(Losses(ds, f))
        /\ Net(es \ ds, f) = Total(Gains(es \ ds, f)) - Total(Losses(es \ ds, f))
    BY Zenon DEF Net, Gains, Losses
  <2>8. /\ Total(Gains(ds, f)) \in Nat /\ Total(Gains(es \ ds, f)) \in Nat
        /\ Total(Losses(ds, f)) \in Nat /\ Total(Losses(es \ ds, f)) \in Nat
    BY Zenon, <2>5, <2>6, TotalType
  <2>9. Net(es, f) = Net(ds, f) + Net(es \ ds, f)
    BY <2>1, <2>5, <2>6, <2>7, <2>8
  <2> QED BY Zenon, <2>5, <2>6, <2>9 DEF Summable
<1>2. SoundEvents(ds) /\ SoundEvents(es \ ds)
  BY Zenon, <1>1 DEF SoundEvents
<1> QED BY Zenon, <1>1, <1>2

\* Events that only take away.
LEMMA NetNegative ==
  ASSUME NEW es, SoundEvents(es), NEW f \in File, \A e \in es : e.diff[f] <= 0
  PROVE  Net(es, f) \in Int /\ Net(es, f) <= 0
<1>1. Gains(es, f) \subseteq Nat \X Int
  BY Zenon, NetSum DEF Summable
<1>2. \A p \in Gains(es, f) : p[2] <= 0
  BY DEF Gains
<1>3. Total(Gains(es, f)) = 0
  BY Zenon, <1>1, <1>2, TotalNone
<1>4. /\ Net(es, f) = Total(Gains(es, f)) - Total(Losses(es, f))
      /\ Total(Losses(es, f)) \in Nat
  BY Zenon, NetSum
<1> QED BY <1>3, <1>4

\* Events that do not name the file.
LEMMA NetZero ==
  ASSUME NEW es, SoundEvents(es), NEW f \in File, \A e \in es : e.diff[f] = 0
  PROVE  Net(es, f) = 0
<1>1. /\ Gains(es, f) \subseteq Nat \X Int /\ Losses(es, f) \subseteq Nat \X Int
  BY Zenon, NetSum DEF Summable
<1>2. /\ \A p \in Gains(es, f) : p[2] <= 0
      /\ \A p \in Losses(es, f) : p[2] <= 0
  BY DEF Gains, Losses
<1>3. Total(Gains(es, f)) = 0 /\ Total(Losses(es, f)) = 0
  BY Zenon, <1>1, <1>2, TotalNone
<1>4. Net(es, f) = Total(Gains(es, f)) - Total(Losses(es, f))
  BY Zenon, NetSum
<1> QED BY <1>3, <1>4

\* One event handled.
LEMMA NetRemove ==
  ASSUME NEW es, SoundEvents(es), NEW e \in es
  PROVE  /\ SoundEvents(es \ {e})
         /\ \A f \in File : Net(es \ {e}, f) = Net(es, f) - e.diff[f]
                            /\ Net(es, f) \in Int /\ e.diff[f] \in Int
<1>1. {e} \in SUBSET es
  BY Zenon
<1>2. SoundEvents(es \ {e})
  BY Zenon, <1>1, NetSplit
<1>3. e.id \in Nat /\ e.diff \in [File -> Int] /\ \A d \in es \ {e} : d.id # e.id
  BY Zenon DEF SoundEvents
<1>4. (es \ {e}) \cup {e} = es
  BY Zenon
<1>5. ASSUME NEW f \in File
      PROVE  Net(es \ {e}, f) = Net(es, f) - e.diff[f]
             /\ Net(es, f) \in Int /\ e.diff[f] \in Int
  <2>1. Net((es \ {e}) \cup {e}, f) = Net(es \ {e}, f) + e.diff[f]
    BY Zenon, <1>2, <1>3, NetAdd
  <2>2. Net(es, f) = Net(es \ {e}, f) + e.diff[f]
    BY Zenon, <1>4, <2>1
  <2>3. Net(es, f) \in Int /\ Net(es \ {e}, f) \in Int /\ e.diff[f] \in Int
    BY Zenon, <1>2, <1>3, NetSum
  <2> QED BY <2>2, <2>3
<1> QED BY Zenon, <1>2, <1>5

-----------------------------------------------------------------------------
(* Facts about the state.                                                  *)

\* The quantities that the account of a file is made of are numbers.
LEMMA Numbers ==
  ASSUME Types, NEW f \in File
  PROVE  /\ Sound(tables) /\ SoundEvents(events) /\ SoundEvents(Later)
         /\ Held(tables, f) \in Nat
         /\ Net(events, f) \in Int /\ Net(Later, f) \in Int
         /\ mem[f] \in Nat /\ live[f] \in Nat
         /\ Referenced(f) = mem[f] + Held(tables, f) /\ Referenced(f) \in Nat
         /\ \A e \in events : e.diff[f] \in Int
<1>1. Sound(tables) /\ SoundEvents(events) /\ mem[f] \in Nat /\ live[f] \in Nat
  BY Zenon DEF Types, TableTypes, EventTypes, FileTypes
<1>2. Later \in SUBSET events
  BY Zenon DEF Later
<1>3. SoundEvents(Later)
  BY Zenon, <1>1, <1>2, NetSplit
<1>4. Held(tables, f) \in Nat /\ Net(events, f) \in Int /\ Net(Later, f) \in Int
  BY Zenon, <1>1, <1>3, HeldSum, NetSum
<1>5. Referenced(f) = mem[f] + Held(tables, f)
  BY Zenon DEF Referenced
<1>6. Referenced(f) \in Nat
  BY <1>1, <1>4, <1>5
<1>7. \A e \in events : e.diff[f] \in Int
  BY Zenon, <1>1 DEF SoundEvents
<1> QED BY Zenon, <1>1, <1>3, <1>4, <1>5, <1>6, <1>7

\* Nothing holds or announces a file that is not in use.
LEMMA UnusedNumbers ==
  ASSUME Types, NEW f \in File, Unused(f)
  PROVE  /\ Held(tables, f) = 0 /\ Net(events, f) = 0 /\ Net(Later, f) = 0
         /\ \A ts \in SUBSET tables : Held(ts, f) = 0
<1>1. Sound(tables) /\ SoundEvents(events) /\ SoundEvents(Later)
  BY Zenon, Numbers
<1>2. Net(events, f) = 0
  BY Zenon, <1>1, NetZero DEF Unused
<1>3. \A e \in Later : e.diff[f] = 0
  BY Zenon DEF Unused, Later
<1>4. Net(Later, f) = 0
  BY Zenon, <1>1, <1>3, NetZero
<1>5. ASSUME NEW ts \in SUBSET tables PROVE Held(ts, f) = 0
  <2>1. Sound(ts)
    BY Zenon, <1>1, HeldSplit
  <2> QED BY Zenon, <2>1, HeldNone DEF Unused
<1> QED BY Zenon, <1>2, <1>4, <1>5

\* The event that brings the records of a file that waits for it: the others
\* take away, and no other flush names the file.
LEMMA SettleNumbers ==
  ASSUME Types, NEW f \in File, PendingInv(f), state[f] = "kPendingLSM",
         NEW e \in events, e.diff[f] > 0
  PROVE  LET rest == {d \in events \ {e} : ~ d.flush}
         IN  /\ \A d \in rest : d.diff[f] <= 0
             /\ Net(rest, f) \in Int /\ Net(rest, f) <= 0
             /\ Net(events, f) = e.diff[f] + Net(rest, f)
             /\ e.diff[f] - live[f] \in Nat
             /\ (e.diff[f] - live[f]) + Net(rest, f) = Net(events, f) - live[f]
<1> DEFINE rest == {d \in events \ {e} : ~ d.flush}
           all  == events \ {e}
<1>0. Sound(tables) /\ SoundEvents(events) /\ Held(tables, f) \in Nat
      /\ live[f] \in Nat /\ Net(events, f) \in Int
      /\ \A d \in events : d.diff[f] \in Int
  BY Zenon, Numbers
<1>1. /\ SoundEvents(all) /\ Net(all, f) = Net(events, f) - e.diff[f]
  BY Zenon, <1>0, NetRemove
<1>2. ASSUME NEW d \in all PROVE d.diff[f] <= 0
  <2>1. d \in events /\ d # e /\ d.diff[f] \in Int
    BY Zenon, <1>0
  <2>2. ~ (d.diff[f] > 0)
    BY Zenon, <2>1 DEF PendingInv
  <2> QED BY <2>1, <2>2
<1>3. rest \in SUBSET all
  BY Zenon
<1>4. \A d \in all \ rest : d.diff[f] = 0
  <2>1. ASSUME NEW d \in all \ rest PROVE d.diff[f] = 0
    <3>1. d \in events /\ d.flush
      BY Zenon
    <3>2. d.diff[f] >= 0
      BY Zenon, <3>1 DEF Types, EventTypes
    <3>3. d.diff[f] <= 0 /\ d.diff[f] \in Int
      BY Zenon, <1>0, <1>2
    <3> QED BY <3>2, <3>3
  <2> QED BY Zenon, <2>1
<1> HIDE DEF rest, all
<1>5. /\ SoundEvents(rest) /\ SoundEvents(all \ rest)
      /\ Net(all, f) = Net(rest, f) + Net(all \ rest, f)
  BY Zenon, <1>1, <1>3, NetSplit
<1>6. Net(all \ rest, f) = 0
  BY Zenon, <1>4, <1>5, NetZero
<1>7. \A d \in rest : d.diff[f] <= 0
  BY Zenon, <1>2, <1>3
<1>8. Net(rest, f) \in Int /\ Net(rest, f) <= 0
  BY Zenon, <1>5, <1>7, NetNegative
<1>9. Net(events, f) - live[f] >= Held(tables, f) /\ e.diff[f] \in Int
  BY Zenon, <1>0 DEF PendingInv
<1>10. Net(events, f) = e.diff[f] + Net(rest, f)
  BY <1>0, <1>1, <1>5, <1>6, <1>8, <1>9
<1>11. e.diff[f] - live[f] \in Nat
  BY <1>0, <1>8, <1>9, <1>10
<1>12. (e.diff[f] - live[f]) + Net(rest, f) = Net(events, f) - live[f]
  BY <1>0, <1>8, <1>9, <1>10
<1> QED BY Zenon, <1>7, <1>8, <1>10, <1>11, <1>12 DEF rest

\* A table with records to separate gets a blob file that is not in use.
LEMMA FreshFile ==
  ASSUME NEW n \in Records, NEW f, Fresh(f, n)
  PROVE  /\ n \in Nat
         /\ n > 0 => f \in File /\ state[f] = "kInit"
         /\ ~ (n > 0) => n = 0 /\ f = None /\ f \notin File
<1>1. n \in Nat
  BY LiveDataAssumption DEF Records
<1>2. None \notin File
  BY DEF None, File
<1> QED BY <1>1, <1>2 DEF Fresh

-----------------------------------------------------------------------------
(* Steps that leave tables, events and a file alone.                       *)

\* The account of a file stands when nothing it is made of changes, and when
\* the file only moves between states of files in use.
LEMMA FileFrame ==
  ASSUME NEW f \in File, FileInv(f),
         UNCHANGED <<tables, events, options>>,
         mem'[f] = mem[f], live'[f] = live[f],
         \/ state'[f] = state[f]
         \/ state[f] \notin New \cup {"kObsolete"} /\ state'[f] \notin New
  PROVE  FileInv(f)'
<1>1. FreshInv(f)'
  BY Zenon DEF FileInv, FreshInv, Unused, New
<1>2. PendingInv(f)'
  BY Zenon DEF FileInv, PendingInv, New, Ranges
<1>3. Later' = Later /\ Referenced(f)' = Referenced(f) /\ GC' = GC /\ Ranges' = Ranges
  BY Zenon DEF Later, Referenced, GC, Ranges
<1>4. SizedInv(f)'
  BY Zenon, <1>3 DEF FileInv, SizedInv, New, IsObsolete
<1> QED BY Zenon, <1>1, <1>2, <1>4 DEF FileInv

\* The types of the tables depend on the tables alone.
LEMMA TableTypesFrame ==
  ASSUME TableTypes, UNCHANGED tableVars
  PROVE  TableTypes'
BY Zenon DEF TableTypes, tableVars

\* The types of the events depend on the events alone.
LEMMA EventTypesFrame ==
  ASSUME EventTypes, UNCHANGED <<events, lastId>>
  PROVE  EventTypes'
BY Zenon DEF EventTypes

\* What cannot fail with the options unchanged.
LEMMA DeadFrame ==
  ASSUME DeadInv, UNCHANGED <<tableVars, options, obsolete>>,
         \A f \in obsolete : state'[f] \notin New
  PROVE  DeadInv'
<1>1. \A f : Referenced(f)' = Referenced(f)
  BY Zenon DEF Referenced, tableVars
<1> QED BY Zenon, <1>1 DEF DeadInv, MergeDeletesDead, DeletedDead, LevelMerge, GC, Ranges

\* The output of a job stays what it is when other files change.
LEMMA JobFrame ==
  ASSUME JobInv, UNCHANGED <<job, options>>,
         \A f \in File : state[f] \notin New => state'[f] \notin New,
         \A f \in File : Unused(f) /\ state[f] \notin New => Unused(f)'
  PROVE  JobInv'
BY Zenon DEF JobInv, Ranges

\* Without GC no step of another part makes a write-back.
LEMMA NoGCFrame ==
  ASSUME NoGCInv, UNCHANGED <<job, options>>,
         \A f \in File : mem[f] = 0 => mem'[f] = 0,
         \A f \in File : state[f] \notin {"kBeingGC", "kPendingGC"} =>
                           state'[f] \notin {"kBeingGC", "kPendingGC"}
  PROVE  NoGCInv'
BY Zenon DEF NoGCInv, GC

\* Without DeleteFilesInRanges its call stays idle.
LEMMA RangeFrame ==
  ASSUME RangeInv, UNCHANGED <<range, options>>
  PROVE  RangeInv'
BY Zenon DEF RangeInv, Ranges

\* A file stays unused when tables, events and write-backs stand.
LEMMA UnusedFrame ==
  ASSUME NEW f, Unused(f), UNCHANGED <<tables, events>>, mem'[f] = mem[f]
  PROVE  Unused(f)'
BY Zenon DEF Unused

-----------------------------------------------------------------------------
(* DeleteFilesInRanges.                                                    *)

\* CollectProperties preserves the invariant.
LEMMA CollectPropertiesPreserves ==
  ASSUME IndInv, NEW ids, CollectProperties(ids)
  PROVE  IndInv'
<1> DEFINE ts == {t \in tables : t.id \in ids}
<1>u. /\ UNCHANGED <<tableVars, fileVars, events, job, options>>
      /\ Ranges /\ ids \subseteq {t.id : t \in tables}
      /\ range' = [pc |-> "collected", ids |-> ids, diff |-> [f \in File |-> - Held(ts, f)]]
  BY Zenon DEF CollectProperties
<1>t. Types /\ (\A f \in File : FileInv(f)) /\ JobInv /\ NoGCInv /\ DeadInv
  BY Zenon DEF IndInv
<1>v. UNCHANGED <<tables, busy, mem, lastId, state, live, entries, last, obsolete,
                  events, job, options>>
  BY Zenon, <1>u DEF tableVars, fileVars
<1>h. Sound(ts)
  <2>1. ts \in SUBSET tables /\ Sound(tables)
    BY Zenon, <1>t DEF Types, TableTypes
  <2> QED BY Zenon, <2>1, HeldSplit
<1>i. ids \in SUBSET Nat
  BY Zenon, <1>t, <1>u DEF Types, TableTypes, Sound
<1> HIDE DEF ts
<1>n. \A f \in File : Held(ts, f) \in Nat
  BY Zenon, <1>h, HeldSum
<1>d. /\ [f \in File |-> - Held(ts, f)] \in [File -> Int]
      /\ \A f \in File : [g \in File |-> - Held(ts, g)][f] <= 0
  BY <1>n
<1>1. Types'
  <2>1. TableTypes' /\ EventTypes'
    BY Zenon, <1>t, <1>u, <1>v, TableTypesFrame, EventTypesFrame DEF Types
  <2>2. FileTypes'
    BY Zenon, <1>t, <1>v DEF Types, FileTypes
  <2>3. range' \in Call
    BY <1>u, <1>i, <1>d DEF Call
  <2>4. CallTypes'
    BY Zenon, <1>t, <1>v, <2>3 DEF Types, CallTypes
  <2> QED BY Zenon, <2>1, <2>2, <2>4 DEF Types
<1>2. \A f \in File : FileInv(f)'
  BY Zenon, <1>t, <1>v, FileFrame
<1>3. JobInv' /\ NoGCInv'
  BY Zenon, <1>t, <1>v, JobFrame, NoGCFrame, UnusedFrame
<1>4. DeadInv'
  BY Zenon, <1>t, <1>u, <1>v, DeadFrame DEF DeadInv
<1>5. range'.diff = [f \in File |-> - Held(ts, f)]
  BY <1>u
<1>6. RangeInv'
  BY Zenon, <1>u, <1>v, <1>d, <1>5 DEF RangeInv, Ranges
<1> QED BY Zenon, <1>1, <1>2, <1>3, <1>4, <1>6 DEF IndInv

\* Tables that go take no file below its account: the sizes follow later.
LEMMA DeleteTablesPreserves ==
  ASSUME IndInv, NEW ids, DeleteTables(ids)
  PROVE  IndInv'
<1> DEFINE ts == {t \in tables : t.id \in ids}
<1>u. /\ range.pc = "collected" /\ range' = [range EXCEPT !.pc = "deleted"]
      /\ ids \subseteq {t.id : t \in {u \in tables : ~ u.l0 /\ u.id \notin busy}}
      /\ tables' = {t \in tables : t.id \notin ids}
      /\ UNCHANGED <<busy, mem, lastId, fileVars, events, job, options>>
  BY Zenon DEF DeleteTables
<1>t. Types /\ (\A f \in File : FileInv(f)) /\ JobInv /\ NoGCInv /\ DeadInv /\ RangeInv
  BY Zenon DEF IndInv
<1>v. UNCHANGED <<busy, mem, lastId, state, live, entries, last, obsolete,
                  events, job, options>>
  BY Zenon, <1>u DEF fileVars
<1>r. Ranges /\ Ranges' /\ range \in Call
  BY Zenon, <1>t, <1>u, <1>v DEF RangeInv, Ranges, Types, CallTypes
<1>h. tables' = tables \ ts /\ ts \in SUBSET tables /\ Sound(tables)
  BY Zenon, <1>t, <1>u DEF Types, TableTypes
<1> HIDE DEF ts
<1>s. /\ Sound(tables') /\ Sound(ts)
      /\ \A f \in File : Held(tables, f) = Held(ts, f) + Held(tables', f)
  BY Zenon, <1>h, HeldSplit
<1>n. ASSUME NEW f \in File
      PROVE  Held(tables', f) \in Nat /\ Held(tables', f) <= Held(tables, f)
  <2>1. Held(tables', f) \in Nat /\ Held(ts, f) \in Nat
    BY Zenon, <1>s, HeldSum
  <2>2. Held(tables, f) = Held(ts, f) + Held(tables', f)
    BY Zenon, <1>s
  <2> QED BY <2>1, <2>2
<1>c. range' \in Call /\ range'.diff = range.diff
  BY <1>u, <1>r DEF Call
<1>1. Types'
  <2>1. EventTypes' /\ FileTypes'
    BY Zenon, <1>t, <1>v, EventTypesFrame DEF Types, FileTypes
  <2>2. busy \subseteq {t.id : t \in tables'}
    BY Zenon, <1>t, <1>u DEF Types, TableTypes
  <2>3. TableTypes'
    BY Zenon, <1>t, <1>v, <1>h, <1>s, <2>2 DEF Types, TableTypes
  <2> QED BY Zenon, <1>t, <1>v, <1>c, <2>1, <2>3 DEF Types, CallTypes
<1>2. ASSUME NEW f \in File PROVE FileInv(f)'
  <2>1. FileInv(f) /\ Net(events, f) \in Int /\ live[f] \in Nat /\ Held(tables, f) \in Nat
    BY Zenon, <1>t, Numbers
  <2>2. FreshInv(f)'
    BY Zenon, <2>1, <1>v, <1>h DEF FileInv, FreshInv, Unused
  <2>3. state[f] = "kPendingLSM" => Net(events, f) - live[f] >= Held(tables', f)
    <3>1. state[f] = "kPendingLSM" => Net(events, f) - live[f] >= Held(tables, f)
      BY Zenon, <2>1 DEF FileInv, PendingInv
    <3> QED BY <2>1, <3>1, <1>n
  <2>4. PendingInv(f)'
    BY Zenon, <2>1, <2>3, <1>v, <1>r DEF FileInv, PendingInv
  <2>5. SizedInv(f)'
    BY Zenon, <1>r DEF SizedInv
  <2> QED BY Zenon, <2>2, <2>4, <2>5 DEF FileInv
<1>3. JobInv' /\ NoGCInv'
  <2>1. \A f \in File : Unused(f) => Unused(f)'
    BY Zenon, <1>v, <1>h DEF Unused
  <2> QED BY Zenon, <1>t, <1>v, <2>1, JobFrame, NoGCFrame
<1>4. DeadInv'
  BY Zenon, <1>t, <1>v, <1>r DEF DeadInv, MergeDeletesDead
<1>5. RangeInv'
  BY Zenon, <1>t, <1>c, <1>r DEF RangeInv
<1> QED BY Zenon, <1>1, <1>2, <1>3, <1>4, <1>5 DEF IndInv

\* UpdateLiveDataSize by a difference that is not positive.
LEMMA UpdateDown ==
  ASSUME NEW a \in Nat, NEW d \in Int
  PROVE  /\ UpdateLiveDataSize(a, d) \in Nat
         /\ UpdateLiveDataSize(a, d) >= a + d
         /\ d <= 0 => UpdateLiveDataSize(a, d) <= a
         /\ a + d >= 0 => UpdateLiveDataSize(a, d) = a + d
         /\ UpdateLiveDataSize(a, d) = 0 => a + d <= 0
BY DEF UpdateLiveDataSize

\* SubtractProperties preserves the invariant.
LEMMA SubtractPropertiesPreserves ==
  ASSUME IndInv, SubtractProperties
  PROVE  IndInv'
<1> DEFINE known == {f \in File : range.diff[f] # 0 /\ ~ IsObsolete(f)}
           size  == [f \in File |-> IF f \in known
                       THEN UpdateLiveDataSize(live[f], range.diff[f]) ELSE live[f]]
           dead  == {f \in known : LevelMerge /\ size[f] = 0}
           due   == {f \in known \ dead : LevelMerge /\ Discardable(f, size[f])}
<1>u. /\ range.pc = "deleted" /\ range' = NoCall /\ live' = size
      /\ state' = [f \in File |-> IF f \in dead THEN "kObsolete"
                                  ELSE IF f \in due THEN "kToMerge" ELSE state[f]]
      /\ obsolete' = obsolete \cup dead
      /\ UNCHANGED <<tableVars, entries, last, events, job, options>>
  BY Zenon DEF SubtractProperties
<1>t. Types /\ (\A f \in File : FileInv(f)) /\ JobInv /\ NoGCInv /\ DeadInv /\ RangeInv
  BY Zenon DEF IndInv
<1>v. UNCHANGED <<tables, busy, mem, lastId, entries, last, events, job, options>>
  BY Zenon, <1>u DEF tableVars
<1>r. Ranges /\ Ranges' /\ range.diff \in [File -> Int]
  <2>1. range \in Call
    BY Zenon, <1>t DEF Types, CallTypes
  <2>2. range.diff \in [File -> Int]
    BY <2>1 DEF Call
  <2> QED BY Zenon, <1>t, <1>u, <1>v, <2>2 DEF RangeInv, Ranges
<1>s. ASSUME NEW f \in File PROVE size[f] \in Nat /\ size[f] <= live[f]
  <2>1. live[f] \in Nat /\ range.diff[f] \in Int /\ range.diff[f] <= 0
    BY Zenon, <1>r, <1>t DEF Types, FileTypes, RangeInv
  <2>2. /\ UpdateLiveDataSize(live[f], range.diff[f]) \in Nat
        /\ UpdateLiveDataSize(live[f], range.diff[f]) <= live[f]
    BY Zenon, <2>1, UpdateDown
  <2>3. live[f] <= live[f]
    BY <2>1
  <2>4. \/ size[f] = UpdateLiveDataSize(live[f], range.diff[f])
        \/ size[f] = live[f]
    BY Zenon
  <2> QED BY Zenon, <2>1, <2>2, <2>3, <2>4
<1>f. dead \subseteq File /\ due \subseteq File
  BY Zenon
<1>k. \A f \in dead \cup due : f \in known
  BY Zenon
<1>l. \A f \in File : live'[f] = size[f]
  BY Zenon, <1>u
<1>m. live' \in [File -> Nat]
  BY Zenon, <1>s, <1>u
<1>g. \A f \in known : ~ IsObsolete(f)
  BY Zenon
<1> HIDE DEF known, size, dead, due
<1>x. \A f \in File : \/ state'[f] = "kObsolete" /\ f \in dead
                      \/ state'[f] = "kToMerge" /\ f \in due
                      \/ state'[f] = state[f]
  BY Zenon, <1>u
<1>1. Types'
  <2>1. TableTypes' /\ EventTypes'
    BY Zenon, <1>t, <1>u, <1>v, TableTypesFrame, EventTypesFrame DEF Types
  <2>2. state' \in [File -> FileState]
    BY Zenon, <1>t, <1>u DEF Types, FileTypes, FileState
  <2>3. FileTypes'
    BY Zenon, <1>t, <1>u, <1>v, <1>f, <1>m, <2>2 DEF Types, FileTypes
  <2>4. NoCall \in Call
    BY DEF NoCall, Call, Zero
  <2> QED BY Zenon, <1>t, <1>u, <1>v, <2>1, <2>3, <2>4 DEF Types, CallTypes
<1>2. ASSUME NEW f \in File PROVE FileInv(f)'
  <2>1. /\ FileInv(f) /\ Net(events, f) \in Int /\ Held(tables, f) \in Nat
        /\ live[f] \in Nat /\ size[f] \in Nat /\ size[f] <= live[f]
        /\ live'[f] = size[f]
    BY Zenon, <1>t, <1>s, <1>l, Numbers
  <2>2. live[f] = 0 => size[f] = 0
    BY <2>1
  <2>3. state'[f] \in New => state'[f] = state[f]
    BY Zenon, <1>x DEF New
  <2>4. FreshInv(f)'
    BY Zenon, <2>1, <2>2, <2>3, <1>v DEF FileInv, FreshInv, Unused, New
  <2>5. state[f] = "kPendingLSM" => Net(events, f) - size[f] >= Held(tables, f)
    <3>1. state[f] = "kPendingLSM" => Net(events, f) - live[f] >= Held(tables, f)
      BY Zenon, <2>1 DEF FileInv, PendingInv
    <3> QED BY <2>1, <3>1
  <2>6. PendingInv(f)'
    BY Zenon, <2>1, <2>3, <2>5, <1>v, <1>r DEF FileInv, PendingInv, New
  <2>7. SizedInv(f)'
    BY Zenon, <1>r DEF SizedInv
  <2> QED BY Zenon, <2>4, <2>6, <2>7 DEF FileInv
<1>3. JobInv' /\ NoGCInv'
  <2>1. \A f \in File : state[f] \notin New => state'[f] \notin New
    BY Zenon, <1>x DEF New
  <2>2. \A f \in File : state[f] \notin {"kBeingGC", "kPendingGC"} =>
                          state'[f] \notin {"kBeingGC", "kPendingGC"}
    BY Zenon, <1>x
  <2> QED BY Zenon, <1>t, <1>v, <2>1, <2>2, JobFrame, NoGCFrame, UnusedFrame
<1>4. DeadInv'
  <2>1. ASSUME NEW f \in obsolete' PROVE state'[f] \notin New
    <3>1. f \in File /\ (f \in dead \/ (f \in obsolete /\ state[f] \notin New))
      BY Zenon, <1>t, <1>u, <1>f DEF DeadInv, Types, FileTypes
    <3>2. f \in dead => state'[f] = "kObsolete"
      BY Zenon, <1>u, <3>1
    <3> QED BY Zenon, <1>x, <3>1, <3>2 DEF New
  <2> QED BY Zenon, <1>r, <2>1 DEF DeadInv, MergeDeletesDead
<1>5. RangeInv'
  <2>1. \A f \in File : NoCall.diff[f] <= 0
    BY DEF NoCall, Zero
  <2> QED BY Zenon, <1>u, <1>r, <2>1 DEF RangeInv
<1> QED BY Zenon, <1>1, <1>2, <1>3, <1>4, <1>5 DEF IndInv

-----------------------------------------------------------------------------
(* GC jobs.                                                                *)

\* MarkFilesBeingGC preserves the invariant.
LEMMA MarkFilesBeingGCPreserves ==
  ASSUME IndInv, NEW f \in File, MarkFilesBeingGC(f)
  PROVE  IndInv'
<1>u. /\ GC /\ job.pc = "idle" /\ state[f] = "kNormal"
      /\ job' = [pc |-> "run", in |-> f, out |-> None]
      /\ state' = [state EXCEPT ![f] = "kBeingGC"]
      /\ UNCHANGED <<tableVars, live, entries, last, obsolete, events, range, options>>
  BY Zenon DEF MarkFilesBeingGC
<1>t. Types /\ (\A g \in File : FileInv(g)) /\ JobInv /\ NoGCInv /\ DeadInv /\ RangeInv
  BY Zenon DEF IndInv
<1>v. UNCHANGED <<tables, busy, mem, lastId, live, entries, last, obsolete, events,
                  range, options>>
  BY Zenon, <1>u DEF tableVars
<1>x. \A g \in File : \/ g = f /\ state'[g] = "kBeingGC"
                      \/ g # f /\ state'[g] = state[g]
  BY Zenon, <1>t, <1>u DEF Types, FileTypes
<1>1. Types'
  <2>1. TableTypes' /\ EventTypes'
    BY Zenon, <1>t, <1>u, <1>v, TableTypesFrame, EventTypesFrame DEF Types
  <2>2. state' \in [File -> FileState]
    BY Zenon, <1>t, <1>u DEF Types, FileTypes, FileState
  <2>3. FileTypes'
    BY Zenon, <1>t, <1>v, <2>2 DEF Types, FileTypes
  <2>4. job' \in Job
    BY <1>u DEF Job
  <2> QED BY Zenon, <1>t, <1>v, <2>1, <2>3, <2>4 DEF Types, CallTypes
<1>2. ASSUME NEW g \in File PROVE FileInv(g)'
  BY Zenon, <1>t, <1>u, <1>v, <1>x, FileFrame DEF New
<1>3. JobInv'
  <2>1. job'.pc = "run" /\ job'.in = f /\ job'.out = None
    BY <1>u
  <2>2. None \notin File
    BY DEF None, File
  <2>3. state'[f] \notin New
    BY Zenon, <1>x DEF New
  <2> QED BY Zenon, <2>1, <2>2, <2>3 DEF JobInv
<1>4. NoGCInv' /\ RangeInv'
  BY Zenon, <1>t, <1>u, <1>v, RangeFrame DEF NoGCInv, GC
<1>5. DeadInv'
  <2>1. \A g \in obsolete : state'[g] \notin New
    BY Zenon, <1>t, <1>x DEF DeadInv, New, Types, FileTypes
  <2> QED BY Zenon, <1>t, <1>u, <1>v, <2>1, DeadFrame
<1> QED BY Zenon, <1>1, <1>2, <1>3, <1>4, <1>5 DEF IndInv

\* InstallOutputBlobFiles preserves the invariant.
LEMMA InstallOutputBlobFilesPreserves ==
  ASSUME IndInv, NEW n \in Records, NEW g \in File, InstallOutputBlobFiles(n, g)
  PROVE  IndInv'
<1>u. /\ job.pc = "run" /\ state[g] = "kInit"
      /\ job' = [job EXCEPT !.pc = "installed", !.out = g]
      /\ state' = [state EXCEPT ![g] = "kPendingGC"]
      /\ live' = [live EXCEPT ![g] = n]
      /\ entries' = [entries EXCEPT ![g] = n]
      /\ UNCHANGED <<tableVars, last, obsolete, events, range, options>>
  <2>1. n > 0 /\ Fresh(g, n)
    BY Zenon DEF InstallOutputBlobFiles
  <2>2. state[g] = "kInit"
    BY Zenon, <2>1, FreshFile
  <2> QED BY Zenon, <2>2 DEF InstallOutputBlobFiles
<1>t. Types /\ (\A f \in File : FileInv(f)) /\ JobInv /\ NoGCInv /\ DeadInv /\ RangeInv
  BY Zenon DEF IndInv
<1>v. UNCHANGED <<tables, busy, mem, lastId, last, obsolete, events, range, options>>
  BY Zenon, <1>u DEF tableVars
<1>n. n \in Nat
  BY LiveDataAssumption DEF Records
<1>x. \A f \in File : \/ f = g /\ state'[f] = "kPendingGC" /\ live'[f] = n
                      \/ f # g /\ state'[f] = state[f] /\ live'[f] = live[f]
  BY Zenon, <1>t, <1>u DEF Types, FileTypes
<1>w. Unused(g)
  BY Zenon, <1>t, <1>u DEF FileInv, FreshInv
<1>w2. Unused(g)'
  BY Zenon, <1>v, <1>w, UnusedFrame
<1>j. job' \in Job /\ job'.pc = "installed" /\ job'.in = job.in /\ job'.out = g
  <2>1. job \in Job
    BY Zenon, <1>t DEF Types, CallTypes
  <2> QED BY Zenon, <1>u, <2>1 DEF Job
<1>1. Types'
  <2>1. TableTypes' /\ EventTypes'
    BY Zenon, <1>t, <1>u, <1>v, TableTypesFrame, EventTypesFrame DEF Types
  <2>2. state' \in [File -> FileState]
    BY Zenon, <1>t, <1>u DEF Types, FileTypes, FileState
  <2>3. FileTypes'
    BY Zenon, <1>t, <1>u, <1>v, <1>n, <2>2 DEF Types, FileTypes
  <2> QED BY Zenon, <1>t, <1>v, <1>j, <2>1, <2>3 DEF Types, CallTypes
<1>2. ASSUME NEW f \in File PROVE FileInv(f)'
  <2>1. CASE f # g
    BY Zenon, <1>t, <1>v, <1>x, <2>1, FileFrame
  <2>2. CASE f = g
    <3>0. state'[f] = "kPendingGC" /\ live'[f] = n
      BY Zenon, <1>x, <2>2
    <3>1. FreshInv(f)' /\ PendingInv(f)'
      BY Zenon, <3>0 DEF FreshInv, PendingInv
    <3>2. Net(Later, f) = 0 /\ Referenced(f) = mem[f] + Held(tables, f)
          /\ mem[f] = 0 /\ Held(tables, f) = 0
      BY Zenon, <1>t, <1>w, <2>2, UnusedNumbers, Numbers DEF Unused
    <3>3. Later' = Later /\ Referenced(f)' = Referenced(f)
      BY Zenon, <1>v DEF Later, Referenced
    <3>4. live'[f] + Net(Later, f) >= Referenced(f)
      BY <1>n, <3>0, <3>2
    <3>5. \A e \in Later : e.diff[f] <= 0
      <4>1. \A e \in Later : e.diff[f] = 0
        BY Zenon, <1>w, <2>2 DEF Unused, Later
      <4> QED BY <4>1
    <3>6. GC'
      BY Zenon, <1>t, <1>u, <1>v DEF NoGCInv, GC
    <3>7. SizedInv(f)'
      BY Zenon, <3>3, <3>4, <3>5, <3>6 DEF SizedInv
    <3> QED BY Zenon, <3>1, <3>7 DEF FileInv
  <2> QED BY Zenon, <2>1, <2>2
<1>3. JobInv'
  <2>1. job.in \in File /\ state[job.in] \notin New
    BY Zenon, <1>t, <1>u DEF JobInv
  <2>2. state'[job.in] \notin New /\ state'[g] \notin New
    BY Zenon, <1>x, <2>1 DEF New
  <2> QED BY Zenon, <1>j, <1>w2, <2>1, <2>2 DEF JobInv
<1>4. NoGCInv' /\ RangeInv'
  BY Zenon, <1>t, <1>u, <1>v, RangeFrame DEF NoGCInv, GC
<1>5. DeadInv'
  <2>1. \A f \in obsolete : state'[f] \notin New
    BY Zenon, <1>t, <1>x DEF DeadInv, New, Types, FileTypes
  <2> QED BY Zenon, <1>t, <1>u, <1>v, <2>1, DeadFrame
<1> QED BY Zenon, <1>1, <1>2, <1>3, <1>4, <1>5 DEF IndInv

\* RewriteValidKeyToLSM preserves the invariant.
LEMMA RewriteValidKeyToLSMPreserves ==
  ASSUME IndInv, NEW k \in Records, RewriteValidKeyToLSM(k)
  PROVE  IndInv'
<1> DEFINE out == job.out
<1>u. /\ job.pc = "installed" /\ k \in 0 .. live[out]
      /\ mem' = [mem EXCEPT ![out] = live[out] - k]
      /\ live' = [live EXCEPT ![out] = UpdateLiveDataSize(live[out], - k)]
      /\ job' = [job EXCEPT !.pc = "rewritten"]
      /\ UNCHANGED <<tables, busy, lastId, state, entries, last, obsolete, events,
                     range, options>>
  BY Zenon DEF RewriteValidKeyToLSM
<1>t. Types /\ (\A f \in File : FileInv(f)) /\ JobInv /\ NoGCInv /\ DeadInv /\ RangeInv
  BY Zenon DEF IndInv
<1>o. out \in File /\ state[out] \notin New /\ (~ Ranges => Unused(out))
      /\ job.in \in File /\ state[job.in] \notin New
  BY Zenon, <1>t, <1>u DEF JobInv
<1>j. job' \in Job /\ job'.pc = "rewritten" /\ job'.in = job.in /\ job'.out = out
  <2>1. job \in Job
    BY Zenon, <1>t DEF Types, CallTypes
  <2> QED BY <1>u, <2>1 DEF Job
<1> HIDE DEF out
<1>l. live[out] \in Nat /\ mem[out] \in Nat
  BY Zenon, <1>o, <1>t DEF Types, FileTypes
<1>k. k \in Nat /\ - k \in Int /\ live[out] - k \in Nat /\ live[out] + (- k) = live[out] - k
  BY <1>u, <1>l
<1>p. UpdateLiveDataSize(live[out], - k) = live[out] - k
  BY <1>k, <1>l DEF UpdateLiveDataSize
<1>x. \A f \in File : \/ f = out /\ live'[f] = live[out] - k /\ mem'[f] = live[out] - k
                      \/ f # out /\ live'[f] = live[f] /\ mem'[f] = mem[f]
  BY Zenon, <1>t, <1>u, <1>p DEF Types, FileTypes
<1>g. GC /\ GC'
  BY Zenon, <1>t, <1>u DEF NoGCInv, GC
<1>1. Types'
  <2>1. TableTypes' /\ EventTypes'
    BY Zenon, <1>t, <1>u, EventTypesFrame DEF Types, TableTypes
  <2>2. FileTypes'
    BY Zenon, <1>t, <1>u, <1>k, <1>p DEF Types, FileTypes
  <2> QED BY Zenon, <1>t, <1>u, <1>j, <2>1, <2>2 DEF Types, CallTypes
<1>2. ASSUME NEW f \in File PROVE FileInv(f)'
  <2>1. CASE f # out
    BY Zenon, <1>t, <1>u, <1>x, <2>1, FileFrame
  <2>2. CASE f = out
    <3>0. /\ live'[f] = live[out] - k /\ mem'[f] = live[out] - k
          /\ state'[f] = state[f] /\ state[f] \notin New
      BY Zenon, <1>o, <1>u, <1>x, <2>2
    <3>1. FreshInv(f)' /\ PendingInv(f)'
      BY Zenon, <3>0 DEF FreshInv, PendingInv, New
    <3>2. SizedInv(f)'
      <4>1. Ranges' = Ranges /\ Later' = Later
            /\ Referenced(f)' = mem'[f] + Held(tables, f)
        BY Zenon, <1>u DEF Ranges, Later, Referenced
      <4>2. ~ Ranges => Net(Later, f) = 0 /\ Held(tables, f) = 0
                        /\ \A e \in Later : e.diff[f] = 0
        BY Zenon, <1>o, <1>t, <2>2, UnusedNumbers DEF Unused, Later
      <4>3. ~ Ranges => live'[f] + Net(Later, f) >= Referenced(f)'
                        /\ \A e \in Later : e.diff[f] <= 0
        BY <1>k, <3>0, <4>1, <4>2
      <4> QED BY Zenon, <1>g, <4>1, <4>3 DEF SizedInv
    <3> QED BY Zenon, <3>1, <3>2 DEF FileInv
  <2> QED BY Zenon, <2>1, <2>2
<1>3. JobInv'
  BY Zenon, <1>j, <1>o, <1>u DEF JobInv
<1>4. NoGCInv' /\ RangeInv'
  BY Zenon, <1>t, <1>g, <1>u, RangeFrame DEF NoGCInv
<1>5. DeadInv'
  BY Zenon, <1>t, <1>g, <1>u DEF DeadInv, MergeDeletesDead
<1> QED BY Zenon, <1>1, <1>2, <1>3, <1>4, <1>5 DEF IndInv

\* ReleaseGcFiles preserves the invariant.
LEMMA ReleaseGcFilesPreserves ==
  ASSUME IndInv, NEW ok \in BOOLEAN, ReleaseGcFiles(ok)
  PROVE  IndInv'
<1>u. /\ job.pc # "idle" /\ (ok => job.pc = "rewritten")
      /\ state' = [f \in File |->
                 IF ok /\ f = job.in THEN "kObsolete"
                 ELSE IF f \in {job.in, job.out} /\ ~ IsObsolete(f) THEN "kNormal"
                 ELSE state[f]]
      /\ job' = NoJob
      /\ obsolete' = (IF ok THEN obsolete \cup {job.in} ELSE obsolete)
      /\ UNCHANGED <<tableVars, live, entries, last, events, range, options>>
  BY Zenon DEF ReleaseGcFiles
<1>t. Types /\ (\A f \in File : FileInv(f)) /\ JobInv /\ NoGCInv /\ DeadInv /\ RangeInv
  BY Zenon DEF IndInv
<1>v. UNCHANGED <<tables, busy, mem, lastId, live, entries, last, events,
                  range, options>>
  BY Zenon, <1>u DEF tableVars
<1>o. /\ job.in \in File /\ state[job.in] \notin New
      /\ job.out \in File => state[job.out] \notin New
  BY Zenon, <1>t, <1>u DEF JobInv
<1>g. GC /\ GC'
  BY Zenon, <1>t, <1>u, <1>v DEF NoGCInv, GC
<1>x. \A f \in File : \/ state'[f] = state[f]
                      \/ state[f] \notin New /\ state'[f] = "kObsolete"
                      \/ state[f] \notin New /\ state'[f] = "kNormal" /\ state[f] # "kObsolete"
  BY Zenon, <1>o, <1>u DEF IsObsolete
<1>1. Types'
  <2>1. TableTypes' /\ EventTypes'
    BY Zenon, <1>t, <1>u, <1>v, TableTypesFrame, EventTypesFrame DEF Types
  <2>2. state' \in [File -> FileState]
    BY Zenon, <1>t, <1>u DEF Types, FileTypes, FileState
  <2>3. FileTypes'
    BY Zenon, <1>t, <1>u, <1>v, <1>o, <2>2 DEF Types, FileTypes
  <2>4. NoJob \in Job
    BY DEF NoJob, Job
  <2> QED BY Zenon, <1>t, <1>u, <1>v, <2>1, <2>3, <2>4 DEF Types, CallTypes
<1>2. ASSUME NEW f \in File PROVE FileInv(f)'
  <2>1. CASE state'[f] = state[f]
    BY Zenon, <1>t, <1>v, <2>1, FileFrame
  <2>2. CASE state[f] \notin New \cup {"kObsolete"} /\ state'[f] \in {"kObsolete", "kNormal"}
    <3>1. state'[f] \notin New
      BY Zenon, <2>2 DEF New
    <3> QED BY Zenon, <1>t, <1>v, <2>2, <3>1, FileFrame
  <2> QED BY Zenon, <1>x, <2>1, <2>2
<1>3. JobInv'
  <2>1. NoJob.pc = "idle" /\ NoJob.out = None /\ None \notin File
    BY DEF NoJob, None, File
  <2> QED BY Zenon, <1>u, <2>1 DEF JobInv
<1>4. NoGCInv' /\ RangeInv'
  BY Zenon, <1>t, <1>g, <1>v, RangeFrame DEF NoGCInv
<1>5. DeadInv'
  <2>1. \A f \in obsolete' : f \in File /\ state[f] \notin New
    BY Zenon, <1>o, <1>t, <1>u DEF DeadInv, Types, FileTypes
  <2>2. \A f \in obsolete' : state'[f] \notin New
    BY Zenon, <1>x, <2>1 DEF New
  <2> QED BY Zenon, <1>g, <2>2 DEF DeadInv, MergeDeletesDead
<1> QED BY Zenon, <1>1, <1>2, <1>3, <1>4, <1>5 DEF IndInv

-----------------------------------------------------------------------------
(* Flushes and compactions.                                                *)

\* What With and AddBlobFile make of the new file and of the others.
LEMMA NewFile ==
  ASSUME Types, NEW n \in Records, NEW f \in File \cup {None}, Fresh(f, n),
         NEW isLast, AddBlobFile(f, n, isLast),
         NEW kept \in [File -> 0 .. MaxSize]
  PROVE  /\ With(kept, f, n) \in [File -> Nat]
         /\ \A g \in File :
              \/ /\ g = f /\ n > 0 /\ state[g] = "kInit"
                 /\ state'[g] = "kPendingLSM" /\ With(kept, f, n)[g] = n
              \/ /\ g # f /\ state'[g] = state[g] /\ With(kept, f, n)[g] = kept[g]
         /\ state' \in [File -> FileState] /\ entries' \in [File -> Records]
         /\ UNCHANGED <<live, obsolete>>
<1>1. n \in Nat
  BY Zenon, FreshFile
<1>2. /\ state' = [g \in File |-> IF g = f THEN "kPendingLSM" ELSE state[g]]
      /\ entries' = [g \in File |-> IF g = f THEN n ELSE entries[g]]
      /\ UNCHANGED <<live, obsolete>>
  BY Zenon DEF AddBlobFile
<1>3. state' \in [File -> FileState] /\ entries' \in [File -> Records]
  BY Zenon, <1>2 DEF Types, FileTypes, FileState
<1>4. \A g \in File : kept[g] \in Nat
  BY LiveDataAssumption
<1>5. With(kept, f, n) \in [File -> Nat]
  BY Zenon, <1>1, <1>4 DEF With
<1>6. f \in File => n > 0 /\ state[f] = "kInit"
  BY Zenon, FreshFile
<1>7. \A g \in File : With(kept, f, n)[g] = IF g = f THEN n ELSE kept[g]
  BY Zenon DEF With
<1> QED BY Zenon, <1>2, <1>3, <1>5, <1>6, <1>7

\* The states of the files after AddBlobFile.
LEMMA NewFileFrames ==
  ASSUME JobInv, NoGCInv, DeadInv, Types, UNCHANGED <<job, options>>,
         \A g \in File : \/ state[g] = "kInit" /\ state'[g] = "kPendingLSM"
                         \/ state'[g] = state[g],
         \A g \in File : Unused(g) /\ state[g] \notin New => Unused(g)',
         \A g \in File : mem[g] = 0 => mem'[g] = 0
  PROVE  JobInv' /\ NoGCInv' /\ \A g \in obsolete : state'[g] \notin New
<1>1. \A g \in File : state[g] \notin New => state'[g] \notin New
  BY Zenon DEF New
<1>2. \A g \in File : state[g] \notin {"kBeingGC", "kPendingGC"} =>
                        state'[g] \notin {"kBeingGC", "kPendingGC"}
  BY Zenon
<1>3. obsolete \subseteq File
  BY Zenon DEF Types, FileTypes
<1> QED BY Zenon, <1>1, <1>2, <1>3, JobFrame, NoGCFrame DEF DeadInv

\* CompactionFails preserves the invariant.
LEMMA CompactionFailsPreserves ==
  ASSUME IndInv, NEW n \in Records, NEW f \in File, CompactionFails(n, f)
  PROVE  IndInv'
<1> DEFINE kept == [g \in File |-> 0]
<1>u. /\ n > 0 /\ Fresh(f, n) /\ AddBlobFile(f, n, FALSE) /\ busy' = {}
      /\ UNCHANGED <<tables, mem, lastId, events, job, range, options>>
  BY Zenon DEF CompactionFails
<1>t. Types /\ (\A g \in File : FileInv(g)) /\ JobInv /\ NoGCInv /\ DeadInv /\ RangeInv
  BY Zenon DEF IndInv
<1>k. kept \in [File -> 0 .. MaxSize] /\ f \in File \cup {None}
  BY LiveDataAssumption
<1> HIDE DEF kept
<1>x. /\ \A g \in File :
              \/ g = f /\ state[g] = "kInit" /\ state'[g] = "kPendingLSM"
              \/ g # f /\ state'[g] = state[g]
      /\ state' \in [File -> FileState] /\ entries' \in [File -> Records]
      /\ UNCHANGED <<live, obsolete>>
  <2>1. /\ With(kept, f, n) \in [File -> Nat]
        /\ \A g \in File :
             \/ /\ g = f /\ n > 0 /\ state[g] = "kInit"
                /\ state'[g] = "kPendingLSM" /\ With(kept, f, n)[g] = n
             \/ /\ g # f /\ state'[g] = state[g] /\ With(kept, f, n)[g] = kept[g]
        /\ state' \in [File -> FileState] /\ entries' \in [File -> Records]
        /\ UNCHANGED <<live, obsolete>>
    <3>1. Types /\ Fresh(f, n) /\ AddBlobFile(f, n, FALSE)
      BY Zenon, <1>t, <1>u
    <3>2. f \in File \cup {None} /\ kept \in [File -> 0 .. MaxSize]
      BY Zenon, <1>k
    <3> QED BY ONLY <3>1, <3>2, n \in Records, NewFile, Zenon
  <2> QED BY Zenon, <2>1
<1>1. Types'
  <2>1. EventTypes'
    BY Zenon, <1>t, <1>u, EventTypesFrame DEF Types
  <2>2. TableTypes'
    BY Zenon, <1>t, <1>u DEF Types, TableTypes
  <2>3. FileTypes'
    BY Zenon, <1>t, <1>u, <1>x DEF Types, FileTypes
  <2> QED BY Zenon, <1>t, <1>u, <2>1, <2>2, <2>3 DEF Types, CallTypes
<1>2. ASSUME NEW g \in File PROVE FileInv(g)'
  <2>1. CASE g # f
    BY Zenon, <1>t, <1>u, <1>x, <2>1, FileFrame
  <2>2. CASE g = f
    <3>0. state[g] = "kInit" /\ state'[g] = "kPendingLSM"
      BY Zenon, <1>x, <2>2
    <3>1. Unused(g) /\ live[g] = 0
      BY Zenon, <1>t, <3>0 DEF FileInv, FreshInv
    <3>2. Held(tables, g) = 0 /\ Net(events, g) = 0
      BY Zenon, <1>t, <3>1, UnusedNumbers
    <3>3. Net(events, g) - live[g] = Held(tables, g)
          /\ Net(events, g) - live[g] >= Held(tables, g)
          /\ \A e \in events : ~ (e.diff[g] > 0)
      BY <3>1, <3>2 DEF Unused
    <3>4. PendingInv(g)'
      BY Zenon, <1>u, <1>x, <3>1, <3>3 DEF PendingInv, Unused
    <3>5. FreshInv(g)' /\ SizedInv(g)'
      BY Zenon, <3>0 DEF FreshInv, SizedInv, New
    <3> QED BY Zenon, <3>4, <3>5 DEF FileInv
  <2> QED BY Zenon, <2>1, <2>2
<1>3. JobInv' /\ NoGCInv' /\ \A g \in obsolete : state'[g] \notin New
  BY Zenon, <1>t, <1>u, <1>x, UnusedFrame, NewFileFrames
<1>4. RangeInv'
  BY Zenon, <1>t, <1>u, RangeFrame
<1>5. DeadInv'
  <2>1. \A g : Referenced(g)' = Referenced(g)
    BY Zenon, <1>u DEF Referenced
  <2> QED BY Zenon, <1>t, <1>u, <1>x, <1>3, <2>1
          DEF DeadInv, MergeDeletesDead, DeletedDead, LevelMerge, GC, Ranges
<1> QED BY Zenon, <1>1, <1>2, <1>3, <1>4, <1>5 DEF IndInv


\* What a flush (ins = {}) and a compaction have in common: the table t0 takes
\* the place of the tables ins, and the event e0 tells the difference.
Arrives(g, t0, e0) ==
  /\ state[g] = "kInit" /\ state'[g] = "kPendingLSM"
  /\ e0.diff[g] > 0 /\ mem'[g] = 0
Stays(g, t0, e0) ==
  /\ state'[g] = state[g]
  /\ Unused(g) => t0.size[g] = 0 /\ e0.diff[g] = 0 /\ mem'[g] = 0
  /\ \/ e0.flush /\ mem'[g] = 0 /\ 0 <= e0.diff[g] /\ e0.diff[g] <= mem[g]
     \/ ~ e0.flush /\ mem'[g] = mem[g] /\ e0.diff[g] <= 0

Installs(ins, t0, e0) ==
  /\ ins \in SUBSET tables
  /\ t0.id = lastId + 1 /\ t0.size \in [File -> Nat]
  /\ e0.id = lastId + 1 /\ e0.diff \in [File -> Int]
  /\ e0.flush \in BOOLEAN /\ e0.files \subseteq File
  /\ \A g \in File : /\ e0.diff[g] = t0.size[g] - Held(ins, g)
                     /\ e0.flush => e0.diff[g] >= 0
                     /\ e0.flush /\ g \in e0.files => e0.diff[g] > 0
                     /\ g \notin e0.files => e0.diff[g] = 0
  /\ lastId' = lastId + 1
  /\ tables' = (tables \ ins) \cup {t0} /\ events' = events \cup {e0}
  /\ busy' \subseteq {t.id : t \in tables \ ins}
  /\ state' \in [File -> FileState] /\ entries' \in [File -> Records]
  /\ mem' \in [File -> Nat]
  /\ UNCHANGED <<live, obsolete, job, range, options>>
  /\ \A g \in File : Arrives(g, t0, e0) \/ Stays(g, t0, e0)

\* Installing a table changes what the tables hold by what its event announces.
LEMMA InstallsNumbers ==
  ASSUME Types, NEW ins, NEW t0, NEW e0, Installs(ins, t0, e0)
  PROVE  /\ Types'
         /\ \A g \in File :
              /\ Held(tables', g) = Held(tables, g) + e0.diff[g]
              /\ Net(events', g) = Net(events, g) + e0.diff[g]
              /\ Net(Later', g) = IF e0.flush THEN Net(Later, g)
                                  ELSE Net(Later, g) + e0.diff[g]
<1>t. /\ Sound(tables) /\ SoundEvents(events) /\ SoundEvents(Later)
      /\ lastId \in Nat
      /\ \A t \in tables : t.id \in Nat /\ t.id <= lastId /\ t.id # 0
      /\ \A e \in events : e.id \in Nat /\ e.id <= lastId
  <2>1. Sound(tables) /\ SoundEvents(events) /\ lastId \in Nat
    BY Zenon DEF Types, TableTypes, EventTypes
  <2>2. Later \in SUBSET events
    BY Zenon DEF Later
  <2>3. SoundEvents(Later)
    BY Zenon, <2>1, <2>2, NetSplit
  <2> QED BY Zenon, <2>1, <2>3 DEF Types, TableTypes, EventTypes, Sound, SoundEvents
<1>f. /\ lastId + 1 \in Nat /\ lastId + 1 # 0 /\ lastId + 1 <= lastId + 1
      /\ \A t \in tables : t.id # lastId + 1 /\ t.id <= lastId + 1
      /\ \A e \in events : e.id # lastId + 1 /\ e.id <= lastId + 1
  <2>1. \A i \in Nat : i <= lastId => i # lastId + 1 /\ i <= lastId + 1
    BY <1>t
  <2>2. lastId + 1 \in Nat /\ lastId + 1 # 0 /\ lastId + 1 <= lastId + 1
    BY <1>t
  <2> QED BY Zenon, <1>t, <2>1, <2>2
<1>u. Installs(ins, t0, e0)
  OBVIOUS
<1>1. /\ Sound(ins) /\ Sound(tables \ ins)
      /\ \A g \in File : Held(tables, g) = Held(ins, g) + Held(tables \ ins, g)
  <2>1. ins \in SUBSET tables
    BY Zenon, <1>u DEF Installs
  <2> QED BY Zenon, <1>t, <2>1, HeldSplit
<1>2. /\ Sound(tables')
      /\ \A g \in File : Held(tables', g) = Held(tables \ ins, g) + t0.size[g]
  <2>1. \A u \in tables \ ins : u.id # t0.id
    BY Zenon, <1>f, <1>u DEF Installs
  <2>2. /\ t0.id \in Nat /\ t0.size \in [File -> Nat]
        /\ tables' = (tables \ ins) \cup {t0}
    BY Zenon, <1>f, <1>u DEF Installs
  <2> QED BY Zenon, <1>1, <2>1, <2>2, HeldAdd
<1>e. /\ e0.id \in Nat /\ e0.diff \in [File -> Int] /\ events' = events \cup {e0}
      /\ e0.flush \in BOOLEAN
  BY Zenon, <1>f, <1>u DEF Installs
<1>3. /\ SoundEvents(events')
      /\ \A g \in File : Net(events', g) = Net(events, g) + e0.diff[g]
  <2>1. \A d \in events : d.id # e0.id
    BY Zenon, <1>f, <1>u DEF Installs
  <2> QED BY Zenon, <1>t, <1>e, <2>1, NetAdd
<1>4. \A g \in File : Net(Later', g) = IF e0.flush THEN Net(Later, g)
                                       ELSE Net(Later, g) + e0.diff[g]
  <2>1. CASE e0.flush
    <3>1. Later' = Later
      BY Zenon, <1>e, <2>1 DEF Later
    <3> QED BY Zenon, <2>1, <3>1
  <2>2. CASE ~ e0.flush
    <3>1. Later' = Later \cup {e0}
      BY Zenon, <1>e, <2>2 DEF Later
    <3>2. \A d \in Later : d.id # e0.id
      BY Zenon, <1>f, <1>u DEF Installs, Later
    <3>3. \A g \in File : Net(Later \cup {e0}, g) = Net(Later, g) + e0.diff[g]
      BY Zenon, <1>t, <1>e, <3>2, NetAdd
    <3> QED BY Zenon, <2>2, <3>1, <3>3
  <2> QED BY Zenon, <2>1, <2>2
<1>5. ASSUME NEW g \in File
      PROVE  Held(tables', g) = Held(tables, g) + e0.diff[g]
  <2>1. /\ Held(ins, g) \in Nat /\ Held(tables \ ins, g) \in Nat
        /\ Held(tables, g) = Held(ins, g) + Held(tables \ ins, g)
        /\ Held(tables', g) = Held(tables \ ins, g) + t0.size[g]
    BY Zenon, <1>1, <1>2, HeldSum
  <2>2. t0.size[g] \in Nat /\ e0.diff[g] = t0.size[g] - Held(ins, g)
    BY Zenon, <1>u DEF Installs
  <2> QED BY <2>1, <2>2
<1>6. TableTypes'
  <2>0. /\ lastId' = lastId + 1 /\ t0.id = lastId + 1
        /\ tables' = (tables \ ins) \cup {t0}
    BY Zenon, <1>u DEF Installs
  <2>1. lastId' \in Nat /\ \A t \in tables' : t.id <= lastId' /\ t.id # 0
    <3>1. \A t \in tables' : t \in tables \/ t = t0
      BY Zenon, <2>0
    <3>2. \A t \in tables : t.id <= lastId' /\ t.id # 0
      BY Zenon, <1>f, <1>t, <2>0
    <3>3. t0.id <= lastId' /\ t0.id # 0 /\ lastId' \in Nat
      BY Zenon, <1>f, <2>0
    <3> QED BY Zenon, <3>1, <3>2, <3>3
  <2>2. busy' \subseteq {t.id : t \in tables'}
    BY Zenon, <1>u DEF Installs
  <2> QED BY Zenon, <1>2, <2>1, <2>2 DEF TableTypes
<1>7. EventTypes'
  <2>1. \A e \in events' :
          /\ e.id <= lastId' /\ e.flush \in BOOLEAN /\ e.files \subseteq File
          /\ \A f \in File : /\ e.flush => e.diff[f] >= 0
                             /\ e.flush /\ f \in e.files => e.diff[f] > 0
                             /\ f \notin e.files => e.diff[f] = 0
    BY Zenon, <1>f, <1>u DEF Installs, Types, EventTypes
  <2> QED BY Zenon, <1>3, <2>1 DEF EventTypes
<1>8. FileTypes' /\ CallTypes'
  BY Zenon, <1>u DEF Installs, Types, FileTypes, CallTypes
<1> QED BY Zenon, <1>3, <1>4, <1>5, <1>6, <1>7, <1>8 DEF Types


\* Installing a table preserves the account of each file.
LEMMA InstallsFile ==
  ASSUME Types, NEW ins, NEW t0, NEW e0, Installs(ins, t0, e0),
         NEW g \in File, FileInv(g), NoGCInv
  PROVE  FileInv(g)'
<1>u. /\ tables' = (tables \ ins) \cup {t0} /\ events' = events \cup {e0}
      /\ UNCHANGED <<live, options>> /\ e0.diff[g] \in Int /\ e0.flush \in BOOLEAN
      /\ (Arrives(g, t0, e0) \/ Stays(g, t0, e0))
  BY Zenon DEF Installs
<1>n. /\ Held(tables, g) \in Nat /\ Net(events, g) \in Int /\ Net(Later, g) \in Int
      /\ mem[g] \in Nat /\ live[g] \in Nat
      /\ Referenced(g) = mem[g] + Held(tables, g)
      /\ \A e \in events : e.diff[g] \in Int
  BY Zenon, Numbers
<1>m. /\ Held(tables', g) = Held(tables, g) + e0.diff[g]
      /\ Net(events', g) = Net(events, g) + e0.diff[g]
      /\ Net(Later', g) = IF e0.flush THEN Net(Later, g)
                          ELSE Net(Later, g) + e0.diff[g]
      /\ Referenced(g)' = mem'[g] + Held(tables', g)
  BY Zenon, InstallsNumbers DEF Referenced
<1>f. FreshInv(g) /\ PendingInv(g) /\ SizedInv(g)
  BY Zenon DEF FileInv
<1>o. Ranges' = Ranges /\ GC' = GC
  BY Zenon, <1>u DEF Ranges, GC
<1>1. CASE Arrives(g, t0, e0)
  <2>0. state[g] = "kInit" /\ state'[g] = "kPendingLSM" /\ e0.diff[g] > 0 /\ mem'[g] = 0
    BY Zenon, <1>1 DEF Arrives
  <2>1. Unused(g) /\ live[g] = 0
    BY Zenon, <2>0, <1>f DEF FreshInv
  <2>2. Held(tables, g) = 0 /\ Net(events, g) = 0
    BY Zenon, <2>1, UnusedNumbers
  <2>3. Net(events', g) - live[g] = Held(tables', g)
        /\ Net(events', g) - live[g] >= Held(tables', g)
    BY <1>m, <1>u, <2>1, <2>2
  <2>4. \A e \in events : ~ (e.diff[g] > 0)
    BY <2>1 DEF Unused
  <2>5. \A e, d \in events' : e.diff[g] > 0 /\ d.diff[g] > 0 => e = d
    BY Zenon, <1>u, <2>4
  <2>6. PendingInv(g)'
    BY Zenon, <1>u, <2>0, <2>3, <2>5 DEF PendingInv
  <2>7. FreshInv(g)' /\ SizedInv(g)'
    BY Zenon, <2>0 DEF FreshInv, SizedInv, New
  <2> QED BY Zenon, <2>6, <2>7 DEF FileInv
<1>2. CASE Stays(g, t0, e0)
  <2>0. /\ state'[g] = state[g]
        /\ Unused(g) => t0.size[g] = 0 /\ e0.diff[g] = 0 /\ mem'[g] = 0
        /\ \/ e0.flush /\ mem'[g] = 0 /\ 0 <= e0.diff[g] /\ e0.diff[g] <= mem[g]
           \/ ~ e0.flush /\ mem'[g] = mem[g] /\ e0.diff[g] <= 0
    BY Zenon, <1>2 DEF Stays
  <2>1. FreshInv(g)'
    BY Zenon, <1>u, <1>f, <2>0 DEF FreshInv, Unused
  <2>2. PendingInv(g)'
    <3> SUFFICES ASSUME state[g] = "kPendingLSM" PROVE PendingInv(g)'
      BY Zenon, <2>0 DEF PendingInv
    <3>1. /\ mem[g] = 0
          /\ \A e, d \in events : e.diff[g] > 0 /\ d.diff[g] > 0 => e = d
          /\ Net(events, g) - live[g] >= Held(tables, g)
          /\ ~ Ranges => Net(events, g) - live[g] = Held(tables, g)
      BY Zenon, <1>f DEF PendingInv
    <3>2. e0.diff[g] <= 0 /\ mem'[g] = 0
      BY <3>1, <2>0, <1>u
    <3>3. ~ (e0.diff[g] > 0)
      BY <3>2, <1>u
    <3>4. \A e, d \in events' : e.diff[g] > 0 /\ d.diff[g] > 0 => e = d
      BY Zenon, <1>u, <3>1, <3>3
    <3>5. Net(events', g) - live[g] >= Held(tables', g)
      BY <1>n, <1>m, <1>u, <3>1
    <3>6. ~ Ranges => Net(events', g) - live[g] = Held(tables', g)
      BY <1>n, <1>m, <1>u, <3>1
    <3> QED BY Zenon, <1>u, <1>o, <3>2, <3>4, <3>5, <3>6 DEF PendingInv
  <2>3. SizedInv(g)'
    <3> SUFFICES ASSUME ~ Ranges, state[g] \notin New PROVE SizedInv(g)'
      BY Zenon, <2>0, <1>o DEF SizedInv
    <3>1. /\ \A e \in Later : e.diff[g] <= 0
          /\ ~ IsObsolete(g) =>
               /\ live[g] + Net(Later, g) >= Referenced(g)
               /\ ~ GC => live[g] + Net(Later, g) = Referenced(g)
      BY Zenon, <1>f DEF SizedInv
    <3>2. \A e \in Later' : e.diff[g] <= 0
      <4>1. \A e \in Later' : e \in Later \/ (e = e0 /\ ~ e0.flush)
        BY Zenon, <1>u DEF Later
      <4> QED BY Zenon, <4>1, <3>1, <2>0
    <3>3. live[g] + Net(Later, g) >= Referenced(g) =>
            live[g] + Net(Later', g) >= Referenced(g)'
      BY <1>n, <1>m, <1>u, <2>0
    <3>4. mem[g] = 0 /\ live[g] + Net(Later, g) = Referenced(g) =>
            live[g] + Net(Later', g) = Referenced(g)'
      BY <1>n, <1>m, <1>u, <2>0
    <3>5. ~ GC => mem[g] = 0
      BY Zenon DEF NoGCInv
    <3>6. IsObsolete(g)' = IsObsolete(g)
      BY Zenon, <2>0 DEF IsObsolete
    <3> QED BY Zenon, <1>u, <1>o, <3>1, <3>2, <3>3, <3>4, <3>5, <3>6 DEF SizedInv
  <2> QED BY Zenon, <2>1, <2>2, <2>3 DEF FileInv
<1> QED BY Zenon, <1>u, <1>1, <1>2

\* Installing a table preserves the invariant.
LEMMA InstallsPreserves ==
  ASSUME IndInv, NEW ins, NEW t0, NEW e0, Installs(ins, t0, e0)
  PROVE  IndInv'
<1>t. Types /\ (\A f \in File : FileInv(f)) /\ JobInv /\ NoGCInv /\ DeadInv /\ RangeInv
  BY Zenon DEF IndInv
<1>u. /\ tables' = (tables \ ins) \cup {t0} /\ events' = events \cup {e0}
      /\ UNCHANGED <<obsolete, job, range, options>>
      /\ \A g \in File : e0.diff[g] \in Int /\ mem'[g] \in Nat
      /\ \A g \in File : Arrives(g, t0, e0) \/ Stays(g, t0, e0)
  BY Zenon DEF Installs
<1>1. Types'
  BY Zenon, <1>t, InstallsNumbers
<1>2. \A g \in File : FileInv(g)'
  BY Zenon, <1>t, InstallsFile
<1>3. JobInv' /\ NoGCInv' /\ \A g \in obsolete : state'[g] \notin New
  <2>1. \A g \in File : \/ state[g] = "kInit" /\ state'[g] = "kPendingLSM"
                        \/ state'[g] = state[g]
    BY Zenon, <1>u DEF Arrives, Stays
  <2>2. ASSUME NEW g \in File, Unused(g), state[g] \notin New PROVE Unused(g)'
    <3>1. Stays(g, t0, e0)
      BY Zenon, <1>u, <2>2 DEF Arrives, New
    <3> QED BY Zenon, <1>u, <2>2, <3>1 DEF Stays, Unused
  <2>3. ASSUME NEW g \in File, mem[g] = 0 PROVE mem'[g] = 0
    <3>1. CASE Arrives(g, t0, e0)
      BY Zenon, <3>1 DEF Arrives
    <3>2. CASE Stays(g, t0, e0)
      BY Zenon, <3>2, <2>3 DEF Stays
    <3> QED BY Zenon, <1>u, <3>1, <3>2
  <2> QED BY Zenon, <1>t, <1>u, <2>1, <2>2, <2>3, NewFileFrames
<1>4. RangeInv'
  BY Zenon, <1>t, <1>u, RangeFrame
<1>5. ASSUME NEW g \in obsolete, Referenced(g) = 0 PROVE Referenced(g)' = 0
  <2>1. g \in File /\ state[g] \notin New
    BY Zenon, <1>t DEF DeadInv, Types, FileTypes
  <2>2. Stays(g, t0, e0)
    BY Zenon, <1>u, <2>1 DEF Arrives, New
  <2>3. /\ mem[g] \in Nat /\ Held(tables, g) \in Nat
        /\ Referenced(g) = mem[g] + Held(tables, g)
    BY Zenon, <1>t, <2>1, Numbers
  <2>4. /\ Held(tables', g) = Held(tables, g) + e0.diff[g]
        /\ Referenced(g)' = mem'[g] + Held(tables', g)
    BY Zenon, <1>t, <2>1, InstallsNumbers DEF Referenced
  <2>5. Held(tables', g) \in Nat
    <3>1. Sound(tables')
      BY Zenon, <1>1 DEF Types, TableTypes
    <3> QED BY Zenon, <2>1, <3>1, HeldSum
  <2>6. e0.diff[g] \in Int /\ mem'[g] \in Nat
    BY Zenon, <1>u, <2>1
  <2> QED BY <1>5, <2>2, <2>3, <2>4, <2>5, <2>6 DEF Stays
<1>6. DeadInv'
  BY Zenon, <1>t, <1>u, <1>3, <1>5
     DEF DeadInv, MergeDeletesDead, DeletedDead, LevelMerge, GC, Ranges
<1> QED BY Zenon, <1>1, <1>2, <1>3, <1>4, <1>6 DEF IndInv


\* Flush preserves the invariant.
LEMMA FlushPreserves ==
  ASSUME IndInv, NEW n \in Records, NEW f \in File \cup {None},
         NEW kept \in AtMost(mem), Flush(n, f, kept)
  PROVE  IndInv'
<1> DEFINE size == With(kept, f, n)
           t0 == [id |-> lastId + 1, l0 |-> TRUE, size |-> size]
           e0 == [id |-> lastId + 1, flush |-> TRUE, last |-> FALSE, diff |-> size,
                  files |-> {g \in File : size[g] > 0}]
<1>u. /\ Fresh(f, n) /\ AddBlobFile(f, n, FALSE) /\ mem' = Zero
      /\ lastId' = lastId + 1 /\ tables' = tables \cup {t0}
      /\ events' = events \cup {e0}
      /\ UNCHANGED <<busy, job, range, options>>
  BY Zenon DEF Flush, NewTable
<1>t. Types /\ (\A g \in File : FileInv(g))
  BY Zenon DEF IndInv
<1>k. kept \in [File -> 0 .. MaxSize] /\ \A g \in File : kept[g] <= mem[g]
  BY Zenon DEF AtMost
<1>x. /\ size \in [File -> Nat]
      /\ \A g \in File :
           \/ /\ g = f /\ n > 0 /\ state[g] = "kInit"
              /\ state'[g] = "kPendingLSM" /\ size[g] = n
           \/ /\ g # f /\ state'[g] = state[g] /\ size[g] = kept[g]
      /\ state' \in [File -> FileState] /\ entries' \in [File -> Records]
      /\ UNCHANGED <<live, obsolete>>
  <2>1. Types /\ Fresh(f, n) /\ AddBlobFile(f, n, FALSE)
    BY Zenon, <1>t, <1>u
  <2> QED BY ONLY <2>1, <1>k, n \in Records, f \in File \cup {None}, NewFile, Zenon
<1> HIDE DEF size
<1>e. /\ e0.id = lastId + 1 /\ e0.flush = TRUE /\ e0.diff = size
      /\ e0.files = {g \in File : size[g] > 0}
      /\ t0.id = lastId + 1 /\ t0.size = size
  OBVIOUS
<1> HIDE DEF t0, e0
<1>h. \A g \in File : Held({}, g) = 0
  <2>1. Sound(tables) /\ {} \in SUBSET tables
    BY Zenon, <1>t DEF Types, TableTypes
  <2>2. Sound({})
    BY Zenon, <2>1, HeldSplit
  <2> QED BY Zenon, <2>2, HeldNone
<1>z. ASSUME NEW g \in File
      PROVE  /\ size[g] \in Nat /\ size[g] \in Int /\ size[g] >= 0
             /\ size[g] = size[g] - Held({}, g)
             /\ ~ (size[g] > 0) => size[g] = 0
             /\ kept[g] = size[g] => size[g] <= mem[g]
             /\ kept[g] = size[g] /\ mem[g] = 0 => size[g] = 0
  <2>1. size[g] \in Nat /\ Held({}, g) = 0 /\ kept[g] <= mem[g]
    BY Zenon, <1>x, <1>h, <1>k
  <2> QED BY <2>1
<1>m. mem' \in [File -> Nat] /\ \A g \in File : mem'[g] = 0
  BY <1>u DEF Zero
<1>1. ASSUME NEW g \in File PROVE Arrives(g, t0, e0) \/ Stays(g, t0, e0)
  <2>1. CASE g = f
    <3>1. n > 0 /\ state[g] = "kInit" /\ state'[g] = "kPendingLSM" /\ size[g] = n
      BY Zenon, <1>x, <2>1
    <3> QED BY Zenon, <3>1, <1>e, <1>m DEF Arrives
  <2>2. CASE g # f
    <3>1. state'[g] = state[g] /\ size[g] = kept[g]
      BY Zenon, <1>x, <2>2
    <3>2. size[g] <= mem[g] /\ size[g] >= 0 /\ (mem[g] = 0 => size[g] = 0)
      BY Zenon, <1>z, <3>1
    <3>3. 0 <= size[g]
      BY <1>z
    <3> QED BY Zenon, <1>e, <1>m, <3>1, <3>2, <3>3 DEF Stays, Unused
  <2> QED BY Zenon, <2>1, <2>2
<1>2. Installs({}, t0, e0)
  <2>1. tables \ {} = tables
    OBVIOUS
  <2>2. /\ e0.diff \in [File -> Int] /\ e0.flush \in BOOLEAN /\ e0.files \subseteq File
    <3>1. size \in [File -> Int]
      BY <1>x
    <3>2. TRUE \in BOOLEAN /\ {g \in File : size[g] > 0} \subseteq File
      BY Zenon
    <3> QED BY Zenon, <1>e, <3>1, <3>2
  <2>3. \A g \in File : /\ e0.diff[g] = t0.size[g] - Held({}, g)
                        /\ e0.flush => e0.diff[g] >= 0
                        /\ e0.flush /\ g \in e0.files => e0.diff[g] > 0
                        /\ g \notin e0.files => e0.diff[g] = 0
    BY Zenon, <1>e, <1>z
  <2>4. busy' \subseteq {t.id : t \in tables}
    BY Zenon, <1>t, <1>u DEF Types, TableTypes
  <2>5. {} \in SUBSET tables /\ t0.size \in [File -> Nat]
    BY Zenon, <1>e, <1>x
  <2> QED BY Zenon, <1>u, <1>x, <1>e, <1>m, <1>1, <2>1, <2>2, <2>3, <2>4, <2>5
          DEF Installs
<1> QED BY Zenon, <1>2, InstallsPreserves

\* InstallCompaction preserves the invariant.
LEMMA InstallCompactionPreserves ==
  ASSUME IndInv, NEW n \in Records, NEW f \in File \cup {None}, NEW toLast \in BOOLEAN,
         NEW kept \in AtMost(Sizes({t \in tables : t.id \in busy})),
         InstallCompaction(n, f, kept, toLast)
  PROVE  IndInv'
<1> DEFINE ins  == {t \in tables : t.id \in busy}
           size == With(kept, f, n)
           diff == [g \in File |-> size[g] - Held(ins, g)]
           t0 == [id |-> lastId + 1, l0 |-> FALSE, size |-> size]
           e0 == [id |-> lastId + 1, flush |-> FALSE, last |-> toLast, diff |-> diff,
                  files |-> {g \in File : size[g] + Held(ins, g) > 0}]
<1>u. /\ Fresh(f, n) /\ AddBlobFile(f, n, toLast)
      /\ lastId' = lastId + 1 /\ tables' = (tables \ ins) \cup {t0}
      /\ events' = events \cup {e0} /\ busy' = {}
      /\ UNCHANGED <<mem, job, range, options>>
  BY Zenon DEF InstallCompaction
<1>t. Types /\ (\A g \in File : FileInv(g))
  BY Zenon DEF IndInv
<1>k. kept \in [File -> 0 .. MaxSize] /\ \A g \in File : kept[g] <= Held(ins, g)
  <2>1. /\ kept \in [File -> 0 .. MaxSize]
        /\ \A g \in File : kept[g] <= Sizes(ins)[g]
    BY Zenon DEF AtMost
  <2>2. \A g \in File : Sizes(ins)[g] = Held(ins, g)
    BY Zenon DEF Sizes
  <2> QED BY Zenon, <2>1, <2>2
<1>i. ins \in SUBSET tables
  BY Zenon
<1> HIDE DEF ins
<1>x. /\ size \in [File -> Nat]
      /\ \A g \in File :
           \/ /\ g = f /\ n > 0 /\ state[g] = "kInit"
              /\ state'[g] = "kPendingLSM" /\ size[g] = n
           \/ /\ g # f /\ state'[g] = state[g] /\ size[g] = kept[g]
      /\ state' \in [File -> FileState] /\ entries' \in [File -> Records]
      /\ UNCHANGED <<live, obsolete>>
  <2>1. Types /\ Fresh(f, n) /\ AddBlobFile(f, n, toLast)
    BY Zenon, <1>t, <1>u
  <2> QED BY ONLY <2>1, <1>k, n \in Records, f \in File \cup {None}, NewFile, Zenon
<1> HIDE DEF size
<1>h. \A g \in File : Held(ins, g) \in Nat
  <2>1. Sound(ins)
    BY Zenon, <1>t, <1>i, HeldSplit DEF Types, TableTypes
  <2> QED BY Zenon, <2>1, HeldSum
<1>d. diff \in [File -> Int] /\ \A g \in File : diff[g] = size[g] - Held(ins, g)
  BY <1>x, <1>h
<1> HIDE DEF diff
<1>e. /\ e0.id = lastId + 1 /\ e0.flush = FALSE /\ e0.diff = diff
      /\ e0.files = {g \in File : size[g] + Held(ins, g) > 0}
      /\ t0.id = lastId + 1 /\ t0.size = size
  OBVIOUS
<1> HIDE DEF t0, e0
<1>z. ASSUME NEW g \in File
      PROVE  /\ ~ (size[g] + Held(ins, g) > 0) => diff[g] = 0
             /\ kept[g] = size[g] => diff[g] <= 0
             /\ kept[g] = size[g] /\ Held(ins, g) = 0 => size[g] = 0 /\ diff[g] = 0
             /\ size[g] > 0 /\ Held(ins, g) = 0 => diff[g] > 0
  <2>1. /\ size[g] \in Nat /\ Held(ins, g) \in Nat /\ kept[g] <= Held(ins, g)
        /\ diff[g] = size[g] - Held(ins, g)
    BY Zenon, <1>x, <1>h, <1>k, <1>d
  <2> QED BY <2>1
<1>w. \A g \in File : Unused(g) => Held(ins, g) = 0
  BY Zenon, <1>t, <1>i, UnusedNumbers
<1>1. ASSUME NEW g \in File PROVE Arrives(g, t0, e0) \/ Stays(g, t0, e0)
  <2>1. CASE g = f
    <3>1. n > 0 /\ state[g] = "kInit" /\ state'[g] = "kPendingLSM" /\ size[g] = n
      BY Zenon, <1>x, <2>1
    <3>2. Unused(g)
      BY Zenon, <1>t, <3>1 DEF FileInv, FreshInv
    <3>3. mem'[g] = 0 /\ diff[g] > 0
      BY Zenon, <1>u, <1>w, <1>z, <3>1, <3>2 DEF Unused
    <3> QED BY Zenon, <3>1, <3>3, <1>e DEF Arrives
  <2>2. CASE g # f
    <3>1. state'[g] = state[g] /\ size[g] = kept[g]
      BY Zenon, <1>x, <2>2
    <3>2. diff[g] <= 0 /\ (Unused(g) => size[g] = 0 /\ diff[g] = 0)
      BY Zenon, <1>z, <1>w, <3>1
    <3>3. mem'[g] = mem[g] /\ (Unused(g) => mem[g] = 0)
      BY Zenon, <1>u DEF Unused
    <3> QED BY Zenon, <1>e, <3>1, <3>2, <3>3 DEF Stays
  <2> QED BY Zenon, <2>1, <2>2
<1>2. Installs(ins, t0, e0)
  <2>2. /\ e0.diff \in [File -> Int] /\ e0.flush \in BOOLEAN /\ e0.files \subseteq File
        /\ t0.size \in [File -> Nat] /\ ~ e0.flush
    BY Zenon, <1>e, <1>x, <1>d
  <2>3. \A g \in File : /\ e0.diff[g] = t0.size[g] - Held(ins, g)
                        /\ g \notin e0.files => e0.diff[g] = 0
    BY Zenon, <1>e, <1>z, <1>d
  <2>4. busy' \subseteq {t.id : t \in tables \ ins} /\ mem' \in [File -> Nat]
    BY Zenon, <1>t, <1>u DEF Types, FileTypes
  <2> QED BY Zenon, <1>u, <1>x, <1>e, <1>i, <1>1, <2>2, <2>3, <2>4 DEF Installs
<1> QED BY Zenon, <1>2, InstallsPreserves


-----------------------------------------------------------------------------
(* The completion events.                                                  *)

\* What handling an event leaves of the events.
LEMMA HandledEvents ==
  ASSUME Types, NEW e \in events, events' = events \ {e},
         UNCHANGED <<tableVars, entries, options, job, range>>,
         live' \in [File -> Nat], state' \in [File -> FileState],
         obsolete' \subseteq File
  PROVE  /\ Types'
         /\ \A g \in File :
              /\ Net(events', g) = Net(events, g) - e.diff[g]
              /\ Referenced(g)' = Referenced(g)
              /\ Unused(g) => Unused(g)'
         /\ e.flush => Later' = Later
         /\ ~ e.flush => \A g \in File : Net(Later', g) = Net(Later, g) - e.diff[g]
         /\ Later' \subseteq Later
         /\ Later' = {d \in events \ {e} : ~ d.flush}
<1>t. SoundEvents(events) /\ SoundEvents(Later)
  <2>1. SoundEvents(events) /\ Later \in SUBSET events
    BY Zenon DEF Types, EventTypes, Later
  <2> QED BY Zenon, <2>1, NetSplit
<1>v. UNCHANGED <<tables, busy, mem, lastId>>
  BY Zenon DEF tableVars
<1>1. SoundEvents(events') /\ \A g \in File : Net(events', g) = Net(events, g) - e.diff[g]
  BY Zenon, <1>t, NetRemove
<1>2. /\ Later' = {d \in events \ {e} : ~ d.flush} /\ Later' \subseteq Later
      /\ e.flush => Later' = Later
      /\ ~ e.flush => e \in Later /\ Later' = Later \ {e}
  BY Zenon DEF Later
<1>3. ~ e.flush => \A g \in File : Net(Later', g) = Net(Later, g) - e.diff[g]
  BY Zenon, <1>t, <1>2, NetRemove
<1>4. Types'
  <2>1. EventTypes'
    BY Zenon, <1>1, <1>v DEF Types, EventTypes
  <2>2. TableTypes'
    BY Zenon, TableTypesFrame DEF Types
  <2>3. FileTypes' /\ CallTypes'
    BY Zenon, <1>v DEF Types, FileTypes, CallTypes
  <2> QED BY Zenon, <2>1, <2>2, <2>3 DEF Types
<1>5. \A g \in File : Referenced(g)' = Referenced(g) /\ (Unused(g) => Unused(g)')
  BY Zenon, <1>v DEF Referenced, Unused
<1> QED BY Zenon, <1>1, <1>2, <1>3, <1>4, <1>5

\* A waiting file whose first event is handled.
LEMMA Settled ==
  ASSUME Types, NEW g \in File, PendingInv(g), state[g] = "kPendingLSM",
         NEW e \in events, e.diff[g] > 0, events' = events \ {e},
         UNCHANGED <<tableVars, options>>,
         live'[g] = e.diff[g] - live[g],
         state'[g] \notin New
  PROVE  FileInv(g)' /\ (~ Ranges => live'[g] >= Referenced(g))
<1> DEFINE rest == {d \in events \ {e} : ~ d.flush}
<1>1. /\ \A d \in rest : d.diff[g] <= 0
      /\ Net(rest, g) \in Int /\ Net(rest, g) <= 0
      /\ e.diff[g] - live[g] \in Nat
      /\ (e.diff[g] - live[g]) + Net(rest, g) = Net(events, g) - live[g]
  BY Zenon, SettleNumbers
<1>2. Later' = rest
  BY Zenon DEF Later
<1> HIDE DEF rest
<1>3. /\ mem[g] = 0
      /\ ~ Ranges => Net(events, g) - live[g] = Held(tables, g)
  BY Zenon DEF PendingInv
<1>4. Held(tables, g) \in Nat /\ Referenced(g) = mem[g] + Held(tables, g)
  BY Zenon, Numbers
<1>5. Referenced(g)' = Referenced(g) /\ Ranges' = Ranges
  BY Zenon DEF Referenced, Ranges, tableVars
<1>6. ~ Ranges => live'[g] + Net(rest, g) = Referenced(g)
  <2>1. ~ Ranges => Referenced(g) = Net(events, g) - live[g]
    BY <1>3, <1>4
  <2> QED BY Zenon, <2>1, <1>1
<1>7. ~ Ranges => live'[g] + Net(rest, g) >= Referenced(g) /\ live'[g] >= Referenced(g)
  BY <1>1, <1>4, <1>3, <1>6
<1>8. SizedInv(g)'
  BY Zenon, <1>1, <1>2, <1>5, <1>6, <1>7 DEF SizedInv
<1>9. FreshInv(g)' /\ PendingInv(g)'
  BY Zenon DEF FreshInv, PendingInv, New
<1> QED BY Zenon, <1>7, <1>8, <1>9 DEF FileInv

\* OnFlushCompleted preserves the invariant.
LEMMA OnFlushCompletedPreserves ==
  ASSUME IndInv, NEW e, OnFlushCompleted(e)
  PROVE  IndInv'
<1> DEFINE new == {f \in e.files : state[f] = "kPendingLSM"}
<1>u. /\ e \in events /\ e.flush /\ events' = events \ {e}
      /\ live' = [f \in File |-> IF f \in new THEN e.diff[f] - live[f] ELSE live[f]]
      /\ state' = [f \in File |-> IF f \in new THEN "kNormal" ELSE state[f]]
      /\ UNCHANGED <<tableVars, entries, obsolete, job, range, options>>
  BY Zenon DEF OnFlushCompleted
<1>t. Types /\ (\A f \in File : FileInv(f)) /\ JobInv /\ NoGCInv /\ DeadInv /\ RangeInv
  BY Zenon DEF IndInv
<1>e. /\ e.files \subseteq File
      /\ \A f \in File : /\ f \in e.files => e.diff[f] > 0
                         /\ f \notin e.files => e.diff[f] = 0
  BY Zenon, <1>t, <1>u DEF Types, EventTypes
<1>x. \A f \in File :
        \/ /\ state[f] = "kPendingLSM" /\ e.diff[f] > 0
           /\ live'[f] = e.diff[f] - live[f] /\ state'[f] = "kNormal"
        \/ /\ live'[f] = live[f] /\ state'[f] = state[f]
           /\ state[f] = "kPendingLSM" => e.diff[f] = 0
  BY Zenon, <1>u, <1>e
<1>y. live' \in [File -> Nat] /\ state' \in [File -> FileState] /\ obsolete' \subseteq File
  <2>1. ASSUME NEW f \in File PROVE live'[f] \in Nat
    <3>1. CASE state[f] = "kPendingLSM" /\ e.diff[f] > 0
      <4>1. PendingInv(f)
        BY Zenon, <1>t DEF FileInv
      <4>2. e.diff[f] - live[f] \in Nat
        BY Zenon, <1>t, <1>u, <3>1, <4>1, SettleNumbers
      <4>3. live[f] \in Nat
        BY Zenon, <1>t, Numbers
      <4> QED BY Zenon, <1>x, <4>2, <4>3
    <3>2. CASE ~ (state[f] = "kPendingLSM" /\ e.diff[f] > 0)
      BY Zenon, <1>x, <1>t, <3>2, Numbers
    <3> QED BY Zenon, <3>1, <3>2
  <2>2. live' = [f \in File |-> live'[f]]
    BY Zenon, <1>u
  <2>3. state' \in [File -> FileState] /\ obsolete' \subseteq File
    BY Zenon, <1>t, <1>u DEF Types, FileTypes, FileState
  <2> QED BY Zenon, <2>1, <2>2, <2>3
<1>h. /\ Types' /\ Later' = Later
      /\ \A g \in File :
              /\ Net(events', g) = Net(events, g) - e.diff[g]
              /\ Referenced(g)' = Referenced(g)
              /\ Unused(g) => Unused(g)'
  BY Zenon, <1>t, <1>u, <1>y, HandledEvents
<1> HIDE DEF new
<1>v. UNCHANGED <<tables, mem>> /\ Ranges' = Ranges /\ GC' = GC
  BY Zenon, <1>u DEF tableVars, Ranges, GC
<1>2. ASSUME NEW g \in File PROVE FileInv(g)'
  <2>0. FreshInv(g) /\ PendingInv(g) /\ SizedInv(g)
    BY Zenon, <1>t DEF FileInv
  <2>1. CASE state[g] = "kPendingLSM" /\ e.diff[g] > 0 /\ state'[g] = "kNormal"
             /\ live'[g] = e.diff[g] - live[g]
    <3>1. state'[g] \notin New
      BY Zenon, <2>1 DEF New
    <3> QED BY Zenon, <1>t, <1>u, <2>0, <2>1, <3>1, Settled
  <2>2. CASE /\ live'[g] = live[g] /\ state'[g] = state[g]
             /\ state[g] = "kPendingLSM" => e.diff[g] = 0
    <3>1. FreshInv(g)'
      BY Zenon, <2>0, <2>2, <1>h DEF FreshInv
    <3>2. PendingInv(g)'
      <4> SUFFICES ASSUME state[g] = "kPendingLSM" PROVE PendingInv(g)'
        BY Zenon, <2>2 DEF PendingInv
      <4>1. Net(events', g) = Net(events, g)
        <5>1. Net(events', g) = Net(events, g) - e.diff[g] /\ e.diff[g] = 0
          BY Zenon, <1>h, <2>2
        <5>2. Net(events, g) \in Int
          BY Zenon, <1>t, Numbers
        <5> QED BY <5>1, <5>2
      <4> QED BY Zenon, <1>u, <1>v, <2>0, <2>2, <4>1 DEF PendingInv
    <3>3. SizedInv(g)'
      BY Zenon, <2>0, <2>2, <1>h, <1>v DEF SizedInv, IsObsolete
    <3> QED BY Zenon, <3>1, <3>2, <3>3 DEF FileInv
  <2> QED BY Zenon, <1>x, <2>1, <2>2
<1>3. JobInv' /\ NoGCInv' /\ RangeInv' /\ DeadInv'
  <2>1. \A f \in File : state[f] \notin New => state'[f] \notin New
    BY Zenon, <1>x DEF New
  <2>2. \A f \in File : state[f] \notin {"kBeingGC", "kPendingGC"} =>
                          state'[f] \notin {"kBeingGC", "kPendingGC"}
    BY Zenon, <1>x
  <2>3. JobInv' /\ NoGCInv' /\ RangeInv'
    BY Zenon, <1>t, <1>u, <1>v, <1>h, <2>1, <2>2, JobFrame, NoGCFrame, RangeFrame
  <2>4. DeadInv'
    BY Zenon, <1>t, <1>u, <2>1, DeadFrame DEF DeadInv, Types, FileTypes
  <2> QED BY Zenon, <2>3, <2>4
<1> QED BY Zenon, <1>h, <1>2, <1>3 DEF IndInv


\* A waiting file that owes an event more, and a file whose size is known.
LEMMA Owes ==
  ASSUME Types, NEW g \in File, FileInv(g), state[g] = "kPendingLSM",
         NEW e \in events, e.diff[g] <= 0, events' = events \ {e},
         Net(events', g) = Net(events, g) - e.diff[g],
         UNCHANGED <<tableVars, options>>,
         live'[g] = live[g] - e.diff[g], state'[g] = state[g]
  PROVE  FileInv(g)' /\ live'[g] \in Nat
<1>1. /\ Net(events, g) \in Int /\ live[g] \in Nat /\ e.diff[g] \in Int
      /\ Held(tables, g) \in Nat
  BY Zenon, Numbers
<1>2. Net(events', g) - live'[g] = Net(events, g) - live[g] /\ live'[g] \in Nat
  BY <1>1
<1>3. PendingInv(g)'
  BY Zenon, <1>2 DEF FileInv, PendingInv, Ranges, tableVars
<1>4. FreshInv(g)' /\ SizedInv(g)'
  BY Zenon DEF FreshInv, SizedInv, New
<1> QED BY Zenon, <1>2, <1>3, <1>4 DEF FileInv

\* OnCompactionCompleted resizes a file: what was announced is now counted.
LEMMA Resized ==
  ASSUME Types, NEW g \in File, FileInv(g), state[g] \in {"kNormal", "kToMerge"},
         NEW e \in events, ~ e.flush, SoundEvents(Later'), Later' = Later \ {e},
         Net(Later', g) = Net(Later, g) - e.diff[g],
         UNCHANGED <<tableVars, options>>,
         live'[g] = UpdateLiveDataSize(live[g], e.diff[g]), state'[g] \notin New
  PROVE  /\ FileInv(g)' /\ live'[g] \in Nat
         /\ ~ Ranges /\ ~ GC => live'[g] >= Referenced(g)
<1>0. state[g] \notin New /\ ~ IsObsolete(g)
  BY Zenon DEF New, IsObsolete
<1>1. /\ Net(Later, g) \in Int /\ live[g] \in Nat /\ e.diff[g] \in Int
      /\ Referenced(g) \in Nat
  BY Zenon, Numbers
<1>2. live'[g] \in Nat /\ live'[g] >= live[g] + e.diff[g]
      /\ (live[g] + e.diff[g] >= 0 => live'[g] = live[g] + e.diff[g])
  <2>1. \A a \in Nat, d \in Int :
          /\ UpdateLiveDataSize(a, d) \in Nat /\ UpdateLiveDataSize(a, d) >= a + d
          /\ a + d >= 0 => UpdateLiveDataSize(a, d) = a + d
    BY ONLY UpdateDown, Zenon
  <2>2. live'[g] = UpdateLiveDataSize(live[g], e.diff[g])
    OBVIOUS
  <2> QED BY Zenon, <1>1, <2>1, <2>2
<1>3. Referenced(g)' = Referenced(g) /\ Ranges' = Ranges /\ GC' = GC
  BY Zenon DEF Referenced, Ranges, GC, tableVars
<1>4. ASSUME ~ Ranges
      PROVE  /\ \A d \in Later' : d.diff[g] <= 0
             /\ live'[g] + Net(Later', g) >= Referenced(g)
             /\ ~ GC => /\ live'[g] + Net(Later', g) = Referenced(g)
                        /\ live'[g] >= Referenced(g)
  <2>1. /\ \A d \in Later : d.diff[g] <= 0
        /\ live[g] + Net(Later, g) >= Referenced(g)
        /\ ~ GC => live[g] + Net(Later, g) = Referenced(g)
    BY Zenon, <1>0, <1>4 DEF FileInv, SizedInv
  <2>2. \A d \in Later' : d.diff[g] <= 0
    BY Zenon, <2>1
  <2>3. Net(Later', g) \in Int /\ Net(Later', g) <= 0
    BY Zenon, <2>2, NetNegative
  <2>4. live'[g] + Net(Later', g) >= Referenced(g)
    BY <1>1, <1>2, <2>1
  <2>5. ASSUME live[g] + Net(Later, g) = Referenced(g)
        PROVE  /\ live'[g] + Net(Later', g) = Referenced(g)
               /\ live'[g] >= Referenced(g)
    BY <1>1, <1>2, <2>3, <2>5
  <2> QED BY Zenon, <2>1, <2>2, <2>4, <2>5
<1>5. FreshInv(g)' /\ PendingInv(g)'
  BY Zenon DEF FreshInv, PendingInv, New
<1>6. SizedInv(g)'
  BY Zenon, <1>3, <1>4 DEF SizedInv
<1> QED BY Zenon, <1>2, <1>4, <1>5, <1>6 DEF FileInv

\* A file that the handler leaves alone.
LEMMA LeftAlone ==
  ASSUME Types, NoGCInv, NEW g \in File, FileInv(g),
         NEW e \in events, ~ e.flush, events' = events \ {e}, Later' = Later \ {e},
         Net(events', g) = Net(events, g) - e.diff[g],
         Net(Later', g) = Net(Later, g) - e.diff[g],
         UNCHANGED <<tableVars, options>>,
         live'[g] = live[g], state'[g] = state[g],
         g \in e.files => state[g] \notin {"kPendingLSM", "kNormal", "kToMerge"}
  PROVE  FileInv(g)'
<1>0. /\ Net(Later, g) \in Int /\ live[g] \in Nat /\ e.diff[g] \in Int
      /\ Referenced(g) \in Nat /\ Net(events, g) \in Int /\ state[g] \in FileState
  BY Zenon, Numbers DEF Types, FileTypes
<1>1. g \notin e.files => e.diff[g] = 0
  BY Zenon DEF Types, EventTypes
<1>2. /\ e.diff[g] = 0 => Net(Later', g) = Net(Later, g) /\ Net(events', g) = Net(events, g)
      /\ e.diff[g] <= 0 /\ live[g] + Net(Later, g) >= Referenced(g) =>
           live[g] + Net(Later', g) >= Referenced(g)
  BY <1>0
<1>3. /\ Referenced(g)' = Referenced(g) /\ Ranges' = Ranges /\ GC' = GC
      /\ IsObsolete(g)' = IsObsolete(g) /\ UNCHANGED <<tables, mem>>
  BY Zenon DEF Referenced, Ranges, GC, tableVars, IsObsolete
<1>f. FreshInv(g) /\ PendingInv(g) /\ SizedInv(g)
  BY Zenon DEF FileInv
<1>4. FreshInv(g)'
  BY Zenon, <1>3, <1>f DEF FreshInv, Unused
<1>5. PendingInv(g)'
  <2>1. state[g] = "kPendingLSM" => Net(events', g) = Net(events, g)
    BY Zenon, <1>1, <1>2
  <2> QED BY Zenon, <1>3, <1>f, <2>1 DEF PendingInv
<1>6. SizedInv(g)'
  <2> SUFFICES ASSUME ~ Ranges, state[g] \notin New PROVE SizedInv(g)'
    BY Zenon, <1>3 DEF SizedInv
  <2>1. /\ \A d \in Later : d.diff[g] <= 0
        /\ ~ IsObsolete(g) => /\ live[g] + Net(Later, g) >= Referenced(g)
                              /\ ~ GC => live[g] + Net(Later, g) = Referenced(g)
    BY Zenon, <1>f DEF SizedInv
  <2>2. e.diff[g] <= 0
    BY Zenon, <2>1 DEF Later
  <2>3. ~ IsObsolete(g) /\ ~ GC => e.diff[g] = 0
    BY Zenon, <1>0, <1>1 DEF NoGCInv, IsObsolete, FileState, New
  <2> QED BY Zenon, <1>2, <1>3, <2>1, <2>2, <2>3 DEF SizedInv
<1> QED BY Zenon, <1>4, <1>5, <1>6 DEF FileInv

\* OnCompactionCompleted preserves the invariant.
LEMMA OnCompactionCompletedPreserves ==
  ASSUME IndInv, NEW e, OnCompactionCompleted(e)
  PROVE  IndInv'
<1> DEFINE size  == [f \in File |-> NewSize(e, f)]
           dead  == NoLiveData(e)
           due   == {f \in Sized(e) \ dead :
                       LevelMerge /\ f \in last /\ Discardable(f, size[f])}
           runs  == Settling(e) \cup (IF e.last THEN Sized(e) \ (dead \cup due) ELSE {})
           merge == IF LevelMerge THEN due \cup MarkFileIfNeedMerge(runs) ELSE {}
<1>u. /\ e \in events /\ ~ e.flush /\ events' = events \ {e} /\ live' = size
      /\ state' = [f \in File |-> IF f \in merge THEN "kToMerge"
                                  ELSE IF f \in dead THEN "kObsolete"
                                  ELSE IF f \in Settling(e) THEN "kNormal"
                                  ELSE state[f]]
      /\ obsolete' = obsolete \cup dead
      /\ UNCHANGED <<tableVars, entries, job, range, options>>
  BY Zenon DEF OnCompactionCompleted
<1>t. Types /\ (\A f \in File : FileInv(f)) /\ JobInv /\ NoGCInv /\ DeadInv /\ RangeInv
  BY Zenon DEF IndInv
<1>e. e.files \subseteq File /\ \A f \in File : e.diff[f] \in Int
  <2>1. e.files \subseteq File
    BY Zenon, <1>t, <1>u DEF Types, EventTypes
  <2> QED BY Zenon, <1>t, <1>u, <2>1, Numbers
<1>d. /\ dead \subseteq Settling(e) \cup Sized(e)
      /\ \A f \in dead : LevelMerge /\ NewSize(e, f) = 0
  BY Zenon DEF NoLiveData
<1>m. merge \subseteq Settling(e) \cup Sized(e)
  <2>1. due \subseteq Sized(e) /\ runs \subseteq Settling(e) \cup Sized(e)
    BY Zenon
  <2>2. MarkFileIfNeedMerge(runs) \subseteq runs
    BY Zenon DEF MarkFileIfNeedMerge
  <2> QED BY Zenon, <2>1, <2>2
<1> HIDE DEF dead, due, runs, merge
<1>s. /\ Settling(e) \subseteq File /\ Sized(e) \subseteq File
      /\ \A f \in Settling(e) : state[f] = "kPendingLSM" /\ e.diff[f] > 0
      /\ \A f \in Sized(e) : state[f] \in {"kNormal", "kToMerge"}
  BY Zenon, <1>e DEF Settling, Sized
<1>l. \A f \in File : live'[f] = NewSize(e, f)
  BY Zenon, <1>u
<1>x. ASSUME NEW f \in File
      PROVE  \/ /\ f \in Settling(e)
                /\ live'[f] = e.diff[f] - live[f] /\ state'[f] \notin New
             \/ /\ f \in Sized(e)
                /\ live'[f] = UpdateLiveDataSize(live[f], e.diff[f]) /\ state'[f] \notin New
             \/ /\ f \in Owing(e) /\ live'[f] = live[f] - e.diff[f]
                /\ state'[f] = state[f]
             \/ /\ live'[f] = live[f] /\ state'[f] = state[f]
                /\ f \in e.files => state[f] \notin {"kPendingLSM", "kNormal", "kToMerge"}
  <2>0. state'[f] = IF f \in merge THEN "kToMerge"
                    ELSE IF f \in dead THEN "kObsolete"
                    ELSE IF f \in Settling(e) THEN "kNormal" ELSE state[f]
    BY Zenon, <1>u
  <2>1. CASE f \in Settling(e)
    BY Zenon, <1>l, <2>0, <2>1 DEF NewSize, New
  <2>2. CASE f \in Sized(e)
    <3>1. state[f] \notin New /\ f \notin Settling(e) /\ f \notin Owing(e)
      BY Zenon, <2>2 DEF Sized, Settling, Owing, New
    <3> QED BY Zenon, <1>l, <2>0, <2>2, <3>1 DEF NewSize, New
  <2>3. CASE f \notin Settling(e) \cup Sized(e)
    <3>1. state'[f] = state[f]
      BY Zenon, <1>d, <1>m, <2>0, <2>3
    <3>2. CASE f \in Owing(e)
      BY Zenon, <1>l, <2>3, <3>1, <3>2 DEF NewSize
    <3>3. CASE f \notin Owing(e)
      <4>1. live'[f] = live[f]
        BY Zenon, <1>l, <2>3, <3>3 DEF NewSize
      <4>2. e.diff[f] > 0 \/ e.diff[f] <= 0
        <5>1. e.diff[f] \in Int
          BY Zenon, <1>e
        <5> QED BY <5>1
      <4> QED BY Zenon, <2>3, <3>1, <3>3, <4>1, <4>2 DEF Settling, Sized, Owing
    <3> QED BY Zenon, <3>2, <3>3
  <2> QED BY Zenon, <2>1, <2>2, <2>3
<1>n. \A g \in File : Net(events', g) = Net(events, g) - e.diff[g]
  BY Zenon, <1>t, <1>u, NetRemove DEF Types, EventTypes
<1>r. /\ Later' = Later \ {e} /\ SoundEvents(Later')
      /\ \A g \in File : Net(Later', g) = Net(Later, g) - e.diff[g]
  <2>1. Later' = Later \ {e} /\ e \in Later /\ Later \in SUBSET events
    BY Zenon, <1>u DEF Later
  <2>2. SoundEvents(Later)
    BY Zenon, <1>t, <2>1, NetSplit DEF Types, EventTypes
  <2> QED BY Zenon, <2>1, <2>2, NetRemove

<1>2. ASSUME NEW g \in File
      PROVE  /\ FileInv(g)' /\ live'[g] \in Nat
             /\ ~ Ranges /\ ~ GC /\ g \in dead => live'[g] >= Referenced(g)
  <2>0. FileInv(g) /\ PendingInv(g)
    BY Zenon, <1>t DEF FileInv
  <2>1. CASE g \in Settling(e) /\ live'[g] = e.diff[g] - live[g] /\ state'[g] \notin New
    <3>1. state[g] = "kPendingLSM" /\ e.diff[g] > 0
      BY Zenon, <1>s, <2>1
    <3>2. e.diff[g] - live[g] \in Nat
      BY Zenon, <1>t, <1>u, <2>0, <3>1, SettleNumbers
    <3>3. FileInv(g)' /\ (~ Ranges => live'[g] >= Referenced(g))
      BY Zenon, <1>t, <1>u, <2>0, <2>1, <3>1, Settled
    <3> QED BY Zenon, <2>1, <3>2, <3>3
  <2>2. CASE /\ g \in Sized(e)
             /\ live'[g] = UpdateLiveDataSize(live[g], e.diff[g]) /\ state'[g] \notin New
    <3>1. state[g] \in {"kNormal", "kToMerge"}
      BY Zenon, <1>s, <2>2
    <3> QED BY Zenon, <1>t, <1>u, <1>r, <2>0, <2>2, <3>1, Resized
  <2>3. CASE g \in Owing(e) /\ live'[g] = live[g] - e.diff[g] /\ state'[g] = state[g]
    <3>1. state[g] = "kPendingLSM" /\ e.diff[g] <= 0 /\ ~ (e.diff[g] > 0)
      <4>1. state[g] = "kPendingLSM" /\ e.diff[g] <= 0
        BY Zenon, <2>3 DEF Owing
      <4>2. e.diff[g] \in Int
        BY Zenon, <1>e
      <4> QED BY <4>1, <4>2
    <3>2. FileInv(g)' /\ live'[g] \in Nat
      BY Zenon, <1>t, <1>u, <1>n, <2>0, <2>3, <3>1, Owes
    <3>3. g \notin dead
      BY Zenon, <1>d, <3>1 DEF Settling, Sized
    <3> QED BY Zenon, <3>2, <3>3
  <2>4. CASE /\ live'[g] = live[g] /\ state'[g] = state[g]
             /\ g \in e.files => state[g] \notin {"kPendingLSM", "kNormal", "kToMerge"}
    <3>1. FileInv(g)'
      BY Zenon, <1>t, <1>u, <1>n, <1>r, <2>0, <2>4, LeftAlone
    <3>2. g \notin dead
      BY Zenon, <1>d, <2>4 DEF Settling, Sized
    <3>3. live[g] \in Nat
      BY Zenon, <1>t, Numbers
    <3> QED BY Zenon, <2>4, <3>1, <3>2, <3>3
  <2> QED BY Zenon, <1>x, <2>1, <2>2, <2>3, <2>4
<1>y. live' \in [File -> Nat] /\ state' \in [File -> FileState] /\ obsolete' \subseteq File
  <2>1. live' = [f \in File |-> live'[f]]
    BY Zenon, <1>u
  <2>2. state' \in [File -> FileState]
    BY Zenon, <1>t, <1>u DEF Types, FileTypes, FileState
  <2>3. obsolete' \subseteq File
    BY Zenon, <1>t, <1>u, <1>d, <1>s DEF Types, FileTypes
  <2> QED BY Zenon, <1>2, <2>1, <2>2, <2>3
<1>h. /\ Types'
      /\ \A g \in File : Referenced(g)' = Referenced(g) /\ (Unused(g) => Unused(g)')
  BY Zenon, <1>t, <1>u, <1>y, HandledEvents
<1>3. \A f \in File : state[f] \notin New => state'[f] \notin New
  BY Zenon, <1>x
<1>4. JobInv' /\ NoGCInv' /\ RangeInv'
  <2>1. \A f \in File : state[f] \notin {"kBeingGC", "kPendingGC"} =>
                          state'[f] \notin {"kBeingGC", "kPendingGC"}
    BY Zenon, <1>u
  <2>2. UNCHANGED <<mem, job, options, range>>
    BY Zenon, <1>u DEF tableVars
  <2> QED BY Zenon, <1>t, <1>3, <1>h, <2>1, <2>2, JobFrame, NoGCFrame, RangeFrame
<1>5. DeadInv'
  <2>1. \A f \in obsolete : f \in File /\ state'[f] \notin New
    BY Zenon, <1>t, <1>3 DEF DeadInv, Types, FileTypes
  <2>2. \A f \in dead : f \in File /\ state'[f] \notin New
    <3>1. \A f \in dead : f \in File /\ f \in Settling(e) \cup Sized(e)
      BY Zenon, <1>d, <1>s
    <3>2. \A f \in dead : state'[f] \in {"kToMerge", "kObsolete"}
      BY Zenon, <1>u, <3>1
    <3> QED BY Zenon, <3>1, <3>2 DEF New
  <2>3. ASSUME NEW f \in dead, ~ Ranges, ~ GC PROVE Referenced(f) = 0
    <3>1. f \in File /\ live'[f] >= Referenced(f)
      BY Zenon, <1>2, <2>2, <2>3
    <3>2. live'[f] = 0
      BY Zenon, <1>d, <1>l, <2>2
    <3>3. Referenced(f) \in Nat
      BY Zenon, <1>t, <3>1, Numbers
    <3> QED BY <3>1, <3>2, <3>3
  <2>4. \A f \in obsolete' : state'[f] \notin New
    BY Zenon, <1>u, <2>1, <2>2
  <2>5. GC' = GC /\ Ranges' = Ranges /\ LevelMerge' = LevelMerge
    BY Zenon, <1>u DEF GC, Ranges, LevelMerge
  <2>6. ~ GC /\ ~ Ranges /\ LevelMerge => \A f \in obsolete' : Referenced(f)' = 0
    BY Zenon, <1>t, <1>u, <1>h, <2>1, <2>2, <2>3 DEF DeadInv, MergeDeletesDead, DeletedDead
  <2> QED BY Zenon, <2>4, <2>5, <2>6 DEF DeadInv, MergeDeletesDead, DeletedDead
<1> QED BY Zenon, <1>h, <1>2, <1>4, <1>5 DEF IndInv


-----------------------------------------------------------------------------
(* A restart, the initial states and the other steps.                      *)

\* InitializeGC preserves the invariant.
LEMMA InitializeGCPreserves ==
  ASSUME IndInv, NEW kept \in AtMost(mem), InitializeGC(kept)
  PROVE  IndInv'
<1> DEFINE t0 == [id |-> lastId + 1, l0 |-> TRUE, size |-> kept]
           all == tables \cup {t0}
<1>u. /\ lastId' = lastId + 1 /\ tables' = all /\ busy' = {} /\ mem' = Zero
      /\ state' = [f \in File |-> IF state[f] = "kInit" THEN "kInit"
                                  ELSE IF IsObsolete(f) THEN "kObsolete" ELSE "kNormal"]
      /\ live' = [f \in File |-> IF IsObsolete(f) THEN live[f] ELSE Held(all, f)]
      /\ events' = {} /\ job' = NoJob /\ range' = NoCall
      /\ UNCHANGED <<entries, obsolete, options>>
  BY Zenon DEF InitializeGC
<1>t. Types /\ (\A f \in File : FileInv(f)) /\ JobInv /\ NoGCInv /\ DeadInv /\ RangeInv
  BY Zenon DEF IndInv
<1>k. kept \in [File -> Nat] /\ \A g \in File : kept[g] <= mem[g]
  <2>1. kept \in [File -> 0 .. MaxSize] /\ \A g \in File : kept[g] <= mem[g]
    BY Zenon DEF AtMost
  <2> QED BY <2>1, LiveDataAssumption
<1>e. t0.id = lastId + 1 /\ t0.size = kept
  OBVIOUS
<1> HIDE DEF t0
<1>i. /\ Sound(tables) /\ lastId + 1 \in Nat /\ lastId + 1 # 0 /\ lastId + 1 <= lastId + 1
      /\ \A t \in tables : t.id # lastId + 1 /\ t.id <= lastId + 1 /\ t.id # 0
  <2>1. /\ Sound(tables) /\ lastId \in Nat
        /\ \A t \in tables : t.id \in Nat /\ t.id <= lastId /\ t.id # 0
    BY Zenon, <1>t DEF Types, TableTypes, Sound
  <2>2. \A i \in Nat : i <= lastId => i # lastId + 1 /\ i <= lastId + 1
    BY <2>1
  <2>3. lastId + 1 \in Nat /\ lastId + 1 # 0 /\ lastId + 1 <= lastId + 1
    BY <2>1
  <2> QED BY Zenon, <2>1, <2>2, <2>3
<1>h. Sound(all) /\ \A g \in File : Held(all, g) = Held(tables, g) + kept[g]
  <2>1. t0.id \in Nat /\ t0.size \in [File -> Nat] /\ \A u \in tables : u.id # t0.id
    BY Zenon, <1>e, <1>i, <1>k
  <2> QED BY Zenon, <1>e, <1>i, <2>1, HeldAdd
<1>g. \A g \in File : Held(all, g) \in Nat
  BY Zenon, <1>h, HeldSum
<1>j. \A t \in all : t.id <= lastId + 1 /\ t.id # 0
  BY Zenon, <1>e, <1>i
<1>w. \A g \in File : (\A t \in tables : t.size[g] = 0) /\ kept[g] = 0 =>
                         \A t \in all : t.size[g] = 0
  BY Zenon, <1>e
<1> HIDE DEF all
<1>z. \A f \in File : mem'[f] = 0 /\ Zero[f] = 0 /\ Zero[f] \in Int
  BY <1>u DEF Zero
<1>q. Zero \in [File -> Nat] /\ Zero \in [File -> Int]
  BY DEF Zero
<1>c. /\ NoJob \in Job /\ NoJob.pc = "idle" /\ NoJob.out = None
      /\ NoCall \in Call /\ NoCall.pc = "idle" /\ NoCall.diff = Zero
  BY <1>q DEF NoJob, Job, None, NoCall, Call
<1>n. ASSUME NEW f \in File PROVE Net({}, f) = 0 /\ SoundEvents({})
  <2>1. SoundEvents(events) /\ {} \in SUBSET events
    BY Zenon, <1>t DEF Types, EventTypes
  <2>2. SoundEvents({})
    BY Zenon, <2>1, NetSplit
  <2> QED BY Zenon, <2>2, NetZero
<1>s. SoundEvents({})
  <2>1. SoundEvents(events) /\ {} \in SUBSET events
    BY Zenon, <1>t DEF Types, EventTypes
  <2> QED BY Zenon, <2>1, NetSplit
<1>x. \A f \in File :
        \/ state[f] = "kInit" /\ state'[f] = "kInit" /\ live'[f] = Held(all, f)
        \/ state[f] = "kObsolete" /\ state'[f] = "kObsolete" /\ live'[f] = live[f]
        \/ /\ state[f] \notin {"kInit", "kObsolete"} /\ state'[f] = "kNormal"
           /\ live'[f] = Held(all, f)
  BY Zenon, <1>u DEF IsObsolete
<1>1. Types'
  <2>1. TableTypes'
    BY Zenon, <1>u, <1>h, <1>i, <1>j DEF TableTypes
  <2>2. EventTypes'
    BY Zenon, <1>u, <1>s DEF EventTypes
  <2>3. live' \in [File -> Nat]
    <3>1. \A f \in File : live[f] \in Nat
      BY Zenon, <1>t DEF Types, FileTypes
    <3> QED BY Zenon, <1>u, <1>g, <3>1
  <2>4. state' \in [File -> FileState]
    BY Zenon, <1>u DEF FileState
  <2>5. FileTypes'
    BY Zenon, <1>t, <1>u, <1>q, <2>3, <2>4 DEF Types, FileTypes
  <2> QED BY Zenon, <1>t, <1>u, <1>c, <2>1, <2>2, <2>5 DEF Types, CallTypes
<1>2. ASSUME NEW g \in File PROVE FileInv(g)'
  <2>0. /\ Held(all, g) \in Nat /\ Net({}, g) = 0 /\ mem'[g] = 0
        /\ kept[g] \in Nat /\ kept[g] <= mem[g]
        /\ Held(all, g) = Held(tables, g) + kept[g] /\ Held(tables, g) \in Nat
    BY Zenon, <1>g, <1>h, <1>k, <1>n, <1>t, <1>z, Numbers
  <2>1. FreshInv(g)'
    <3> SUFFICES ASSUME state'[g] = "kInit" PROVE Unused(g)' /\ live'[g] = 0
      BY Zenon DEF FreshInv
    <3>1. state[g] = "kInit" /\ live'[g] = Held(all, g)
      BY Zenon, <1>x
    <3>2. Unused(g)
      BY Zenon, <1>t, <3>1 DEF FileInv, FreshInv
    <3>3. mem[g] = 0 /\ Held(tables, g) = 0 /\ \A t \in tables : t.size[g] = 0
      BY Zenon, <1>t, <3>2, UnusedNumbers DEF Unused
    <3>4. kept[g] = 0 /\ Held(all, g) = 0
      BY <2>0, <3>3
    <3> QED BY Zenon, <1>u, <1>w, <2>0, <3>1, <3>3, <3>4 DEF Unused
  <2>2. PendingInv(g)'
    BY Zenon, <1>x DEF PendingInv
  <2>3. SizedInv(g)'
    <3> SUFFICES ASSUME state'[g] \notin New PROVE SizedInv(g)'
      BY Zenon DEF SizedInv
    <3>1. Later' = {}
      BY Zenon, <1>u DEF Later
    <3>2. Referenced(g)' = mem'[g] + Held(all, g)
      BY Zenon, <1>u DEF Referenced
    <3>3. state'[g] # "kObsolete" => live'[g] = Held(all, g)
      BY Zenon, <1>x DEF New
    <3>4. live'[g] = Held(all, g) => /\ live'[g] + Net({}, g) >= Referenced(g)'
                                     /\ live'[g] + Net({}, g) = Referenced(g)'
      BY <2>0, <3>2
    <3> QED BY Zenon, <3>1, <3>3, <3>4 DEF SizedInv, IsObsolete
  <2> QED BY Zenon, <2>1, <2>2, <2>3 DEF FileInv
<1>3. JobInv'
  <2>1. None \notin File
    BY LiveDataAssumption DEF None, File
  <2> QED BY Zenon, <1>u, <1>c, <2>1 DEF JobInv
<1>4. NoGCInv'
  BY Zenon, <1>u, <1>c, <1>x, <1>z DEF NoGCInv, GC
<1>5. RangeInv'
  <2>1. \A f \in File : Zero[f] <= 0
    BY DEF Zero
  <2> QED BY Zenon, <1>u, <1>c, <2>1 DEF RangeInv
<1>6. DeadInv'
  <2>1. \A f \in obsolete : f \in File /\ state[f] \notin New
    BY Zenon, <1>t DEF DeadInv, Types, FileTypes
  <2>2. \A f \in obsolete : state'[f] \notin New
    BY Zenon, <1>x, <2>1 DEF New
  <2>3. ASSUME NEW f \in obsolete, Referenced(f) = 0 PROVE Referenced(f)' = 0
    <3>1. f \in File
      BY Zenon, <2>1
    <3>2. Referenced(f)' = mem'[f] + Held(all, f)
      BY Zenon, <1>u DEF Referenced
    <3>3. /\ Held(all, f) = Held(tables, f) + kept[f] /\ mem'[f] = 0
          /\ kept[f] \in Nat /\ kept[f] <= mem[f]
          /\ Referenced(f) = mem[f] + Held(tables, f) /\ mem[f] \in Nat
          /\ Held(tables, f) \in Nat
      BY Zenon, <1>h, <1>k, <1>t, <1>z, <3>1, Numbers
    <3> QED BY <2>3, <3>2, <3>3
  <2> QED BY Zenon, <1>t, <1>u, <2>2, <2>3
          DEF DeadInv, MergeDeletesDead, DeletedDead, LevelMerge, GC, Ranges
<1> QED BY Zenon, <1>1, <1>2, <1>3, <1>4, <1>5, <1>6 DEF IndInv


\* PickCompaction preserves the invariant.
LEMMA PickCompactionPreserves ==
  ASSUME IndInv, NEW ids, PickCompaction(ids)
  PROVE  IndInv'
<1>u. /\ ids \subseteq {t.id : t \in tables} /\ busy' = ids
      /\ UNCHANGED <<tables, mem, lastId, state, live, entries, last, obsolete,
                     events, job, range, options>>
  BY Zenon DEF PickCompaction, fileVars
<1>t. Types /\ (\A f \in File : FileInv(f)) /\ JobInv /\ NoGCInv /\ DeadInv /\ RangeInv
  BY Zenon DEF IndInv
<1>1. Types'
  <2>1. TableTypes'
    BY Zenon, <1>t, <1>u DEF Types, TableTypes
  <2> QED BY Zenon, <1>t, <1>u, <2>1, EventTypesFrame DEF Types, FileTypes, CallTypes
<1>2. \A f \in File : FileInv(f)'
  BY Zenon, <1>t, <1>u, FileFrame
<1>3. JobInv' /\ NoGCInv' /\ RangeInv'
  BY Zenon, <1>t, <1>u, UnusedFrame, JobFrame, NoGCFrame, RangeFrame
<1>4. DeadInv'
  <2>1. \A f : Referenced(f)' = Referenced(f)
    BY Zenon, <1>u DEF Referenced
  <2> QED BY Zenon, <1>t, <1>u, <2>1
          DEF DeadInv, MergeDeletesDead, DeletedDead, LevelMerge, GC, Ranges
<1> QED BY Zenon, <1>1, <1>2, <1>3, <1>4 DEF IndInv

\* The invariant holds in an empty store.
LEMMA InitIndInv == Init => IndInv
<1> SUFFICES ASSUME Init PROVE IndInv
  OBVIOUS
<1>u. /\ tables = {} /\ busy = {} /\ mem = Zero /\ lastId = 0
      /\ state = [f \in File |-> "kInit"]
      /\ live = Zero /\ entries = Zero /\ obsolete = {}
      /\ events = {} /\ job = NoJob /\ range = NoCall /\ options \in Options
  BY Zenon DEF Init
<1>q. /\ Zero \in [File -> Nat] /\ Zero \in [File -> Int] /\ Zero \in [File -> Records]
      /\ \A f \in File : Zero[f] = 0 /\ Zero[f] <= 0
  BY LiveDataAssumption DEF Zero, Records
<1>c. /\ NoJob \in Job /\ NoJob.pc = "idle" /\ NoJob.out = None /\ None \notin File
      /\ NoCall \in Call /\ NoCall.pc = "idle" /\ NoCall.diff = Zero
  BY <1>q, LiveDataAssumption DEF NoJob, Job, None, NoCall, Call, File
<1>s. Sound({}) /\ SoundEvents({})
  <2>1. Cells({}) = {} /\ IsFiniteSet({})
    BY FS_EmptySet DEF Cells
  <2>2. \A f : HeldPairs({}, f) = {} /\ Gains({}, f) = {} /\ Losses({}, f) = {}
    BY Zenon DEF HeldPairs, Gains, Losses
  <2> QED BY Zenon, <2>1, <2>2 DEF Sound, SoundEvents
<1>1. Types
  <2>1. TableTypes
    BY <1>u, <1>s DEF TableTypes
  <2>2. EventTypes
    BY Zenon, <1>u, <1>s DEF EventTypes
  <2>3. FileTypes
    BY Zenon, <1>u, <1>q DEF FileTypes, FileState
  <2>4. CallTypes
    BY Zenon, <1>u, <1>c, LiveDataAssumption DEF CallTypes
  <2> QED BY Zenon, <2>1, <2>2, <2>3, <2>4 DEF Types
<1>2. ASSUME NEW f \in File PROVE FileInv(f)
  <2>1. state[f] = "kInit" /\ live[f] = 0 /\ Unused(f)
    BY Zenon, <1>u, <1>q DEF Unused
  <2> QED BY Zenon, <2>1 DEF FileInv, FreshInv, PendingInv, SizedInv, New
<1>3. JobInv /\ RangeInv
  BY Zenon, <1>u, <1>c, <1>q DEF JobInv, RangeInv
<1>4. NoGCInv
  BY Zenon, <1>u, <1>c, <1>q DEF NoGCInv
<1>5. DeadInv
  BY Zenon, <1>u DEF DeadInv, MergeDeletesDead, DeletedDead
<1> QED BY Zenon, <1>1, <1>2, <1>3, <1>4, <1>5 DEF IndInv

\* The invariant depends on the variables of the module alone.
LEMMA StutterIndInv ==
  ASSUME IndInv, UNCHANGED vars
  PROVE  IndInv'
<1>u. UNCHANGED <<tables, busy, mem, lastId, state, live, entries, last, obsolete,
                  events, job, range, options>>
  BY Zenon DEF vars, tableVars, fileVars
<1>t. Types /\ (\A f \in File : FileInv(f)) /\ JobInv /\ NoGCInv /\ DeadInv /\ RangeInv
  BY Zenon DEF IndInv
<1>1. Types'
  BY Zenon, <1>t, <1>u, EventTypesFrame DEF Types, TableTypes, FileTypes, CallTypes
<1>2. \A f \in File : FileInv(f)'
  BY Zenon, <1>t, <1>u, FileFrame
<1>3. JobInv' /\ NoGCInv' /\ RangeInv'
  BY Zenon, <1>t, <1>u, UnusedFrame, JobFrame, NoGCFrame, RangeFrame
<1>4. DeadInv'
  BY Zenon, <1>t, <1>u, DeadFrame DEF DeadInv, tableVars
<1> QED BY Zenon, <1>1, <1>2, <1>3, <1>4 DEF IndInv

\* Every step preserves the invariant.
LEMMA NextIndInv ==
  ASSUME IndInv, [Next]_vars
  PROVE  IndInv'
<1>1. ASSUME NEW n \in Records, NEW f \in File \cup {None}, NEW kept \in AtMost(mem),
             Flush(n, f, kept)
      PROVE  IndInv'
  BY Zenon, <1>1, FlushPreserves
<1>2. ASSUME NEW ids \in SUBSET Ids, PickCompaction(ids) PROVE IndInv'
  BY Zenon, <1>2, PickCompactionPreserves
<1>3. ASSUME NEW kept \in AtMost(Sizes({t \in tables : t.id \in busy})),
             NEW n \in Records, NEW f \in File \cup {None}, NEW toLast \in BOOLEAN,
             InstallCompaction(n, f, kept, toLast)
      PROVE  IndInv'
  BY Zenon, <1>3, InstallCompactionPreserves
<1>4. ASSUME NEW n \in Records, NEW f \in File, CompactionFails(n, f) PROVE IndInv'
  BY Zenon, <1>4, CompactionFailsPreserves
<1>5. ASSUME NEW e \in events, OnFlushCompleted(e) \/ OnCompactionCompleted(e)
      PROVE  IndInv'
  BY Zenon, <1>5, OnFlushCompletedPreserves, OnCompactionCompletedPreserves
<1>6. ASSUME NEW ids \in SUBSET Ids, CollectProperties(ids) \/ DeleteTables(ids)
      PROVE  IndInv'
  BY Zenon, <1>6, CollectPropertiesPreserves, DeleteTablesPreserves
<1>7. CASE SubtractProperties
  BY Zenon, <1>7, SubtractPropertiesPreserves
<1>8. ASSUME NEW f \in File, MarkFilesBeingGC(f) PROVE IndInv'
  BY Zenon, <1>8, MarkFilesBeingGCPreserves
<1>9. ASSUME NEW n \in Records, NEW g \in File, InstallOutputBlobFiles(n, g)
      PROVE  IndInv'
  BY Zenon, <1>9, InstallOutputBlobFilesPreserves
<1>10. ASSUME NEW k \in Records, RewriteValidKeyToLSM(k) PROVE IndInv'
  BY Zenon, <1>10, RewriteValidKeyToLSMPreserves
<1>11. ASSUME NEW ok \in BOOLEAN, ReleaseGcFiles(ok) PROVE IndInv'
  BY Zenon, <1>11, ReleaseGcFilesPreserves
<1>12. ASSUME NEW kept \in AtMost(mem), InitializeGC(kept) PROVE IndInv'
  BY Zenon, <1>12, InitializeGCPreserves
<1>13. CASE UNCHANGED vars
  BY Zenon, <1>13, StutterIndInv
<1> QED
  BY Zenon, <1>1, <1>2, <1>3, <1>4, <1>5, <1>6, <1>7, <1>8, <1>9, <1>10, <1>11,
     <1>12, <1>13 DEF Next

\* Every behaviour of flushes, compactions, their events, GC jobs,
\* DeleteFilesInRanges, failures and restarts satisfies the inductive invariant
\* that the results below follow from.
THEOREM AlwaysIndInv == Spec => []IndInv
BY InitIndInv, NextIndInv, PTL DEF Spec

-----------------------------------------------------------------------------
(* The results.                                                            *)

\* live_data_size_ (blob_format.h) is a uint64_t: in no order of the events of
\* flushes and compactions, with GC jobs, DeleteFilesInRanges, failed
\* compactions and restarts in between, does it fall below zero, nor does
\* the debt it stands for before the file of a flush is counted.
THEOREM LiveDataTyped == Spec => []TypeOK
<1>1. IndInv => TypeOK
  <2> SUFFICES ASSUME IndInv PROVE TypeOK
    OBVIOUS
  <2>t. TableTypes /\ EventTypes /\ FileTypes /\ CallTypes
    BY Zenon DEF IndInv, Types
  <2>1. \A t \in tables : t.id \in 1 .. lastId /\ t.size \in [File -> Nat]
    <3>1. /\ lastId \in Nat
          /\ \A t \in tables : /\ t.id \in Nat /\ t.id <= lastId /\ t.id # 0
                               /\ t.size \in [File -> Nat]
      BY Zenon, <2>t DEF TableTypes, Sound
    <3> QED BY <3>1
  <2>2. \A e \in events : e.id <= lastId /\ e.diff \in [File -> Int]
    BY Zenon, <2>t DEF EventTypes, SoundEvents
  <2>3. busy \subseteq {t.id : t \in tables}
    BY Zenon, <2>t DEF TableTypes
  <2>4. /\ job.pc \in {"idle", "run", "installed", "rewritten"}
        /\ range.pc \in {"idle", "collected", "deleted"} /\ options \subseteq Uses
    BY Zenon, <2>t DEF CallTypes, Job, Call
  <2> QED BY Zenon, <2>t, <2>1, <2>2, <2>3, <2>4 DEF TypeOK, FileTypes
<1> QED BY <1>1, AlwaysIndInv, PTL

\* What Announced counts.
LEMMA AnnouncedSum ==
  ASSUME NEW f
  PROVE  /\ state[f] = "kPendingLSM" => Announced(f) = Net(events, f)
         /\ state[f] # "kPendingLSM" => Announced(f) = Net(Later, f)
<1>1. state[f] = "kPendingLSM" => Counting(f) = events
  BY Zenon DEF Counting
<1>2. state[f] # "kPendingLSM" => Counting(f) = Later
  BY Zenon DEF Counting, Later
<1> QED BY Zenon, <1>1, <1>2 DEF Announced

\* OnFlushCompleted and OnCompactionCompleted keep an exact account, whatever
\* the order of the events: any number of tables, files and events.
THEOREM AccountExact == Spec => []Accounted
<1>1. IndInv => Accounted
  <2> SUFFICES ASSUME IndInv, ~ GC, ~ Ranges, NEW f \in File
               PROVE  /\ state[f] \in {"kNormal", "kToMerge"} =>
                           live[f] + Announced(f) = Referenced(f)
                      /\ state[f] = "kPendingLSM" =>
                           Announced(f) - live[f] = Referenced(f)
    BY Zenon DEF Accounted
  <2>1. PendingInv(f) /\ SizedInv(f)
    BY Zenon DEF IndInv, FileInv
  <2>2. ASSUME state[f] \in {"kNormal", "kToMerge"}
        PROVE  live[f] + Announced(f) = Referenced(f)
    <3>1. state[f] \notin New /\ ~ IsObsolete(f) /\ state[f] # "kPendingLSM"
      BY Zenon, <2>2 DEF New, IsObsolete
    <3> QED BY Zenon, <2>1, <3>1, AnnouncedSum DEF SizedInv
  <2>3. ASSUME state[f] = "kPendingLSM" PROVE Announced(f) - live[f] = Referenced(f)
    <3>1. mem[f] = 0 /\ Net(events, f) - live[f] = Held(tables, f)
      BY Zenon, <2>1, <2>3 DEF PendingInv
    <3>2. Referenced(f) = mem[f] + Held(tables, f) /\ Held(tables, f) \in Nat
      BY Zenon, Numbers DEF IndInv
    <3>3. Held(tables, f) = Referenced(f)
      BY <3>1, <3>2
    <3> QED BY Zenon, <2>3, <3>1, <3>3, AnnouncedSum
  <2> QED BY Zenon, <2>2, <2>3
<1> QED BY <1>1, AlwaysIndInv, PTL

\* GC jobs (MarkFilesBeingGC to ReleaseGcFiles) drop events, and the account
\* may stay too high; that it is ever too low is excluded.
THEOREM AccountNeverTooLow == Spec => []NeverTooLow
<1>1. IndInv => NeverTooLow
  <2> SUFFICES ASSUME IndInv, ~ Ranges, NEW f \in File,
                      state[f] \in {"kNormal", "kToMerge", "kBeingGC", "kPendingGC"}
               PROVE  live[f] + Announced(f) >= Referenced(f)
    BY Zenon DEF NeverTooLow
  <2>1. SizedInv(f)
    BY Zenon DEF IndInv, FileInv
  <2>2. state[f] \notin New /\ ~ IsObsolete(f) /\ state[f] # "kPendingLSM"
    BY Zenon DEF New, IsObsolete
  <2> QED BY Zenon, <2>1, <2>2, AnnouncedSum DEF SizedInv
<1> QED BY <1>1, AlwaysIndInv, PTL

\* The edit of OnCompactionCompleted deletes a blob file with level merge only
\* when no table and no write-back refers to it.
THEOREM LevelMergeSafe == Spec => []MergeDeletesDead
<1>1. IndInv => MergeDeletesDead
  BY Zenon DEF IndInv, DeadInv
<1> QED BY <1>1, AlwaysIndInv, PTL
=============================================================================

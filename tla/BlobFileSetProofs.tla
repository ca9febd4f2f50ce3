------------------------- MODULE BlobFileSetProofs -------------------------
(***************************************************************************)
(* Whatever fails and whenever a crash comes, the blob files that tables   *)
(* refer to are alive in every manifest that a crash may leave, and no     *)
(* number is given to two files: for any number of column families, files, *)
(* crashes and failed writes.                                              *)
(*                                                                         *)
(* The argument: a file is referred to after a record that adds it was     *)
(* synced, and no record, synced or not, deletes it before it is referred  *)
(* to no more.  The inductive invariant follows a file from the moment it  *)
(* gets its number (building) over its record (built) to its references.   *)
(***************************************************************************)
EXTENDS BlobFileSet, TLAPS

Sets == [CF -> SUBSET Nat]
Records == [add : Sets, del : Sets, next : Nat]

\* What the first k records add.
AddedTo(m, k, c) == UNION {m[i].add[c] : i \in 1 .. k}

\* The types of the variables that the proof looks at.
Typed ==
  /\ manifest \in Seq(Records)
  /\ synced \in 1 .. Len(manifest)
  /\ current \in Nat /\ next \in Nat
  /\ files \in Sets /\ obsolete \in Sets
  /\ building \in Sets /\ built \in Sets /\ inputs \in Sets /\ ref \in Sets
  /\ dropping \subseteq dropped

\* The next file number of a record is beyond the files it names, and does
\* not fall from record to record.
NumbersGrow ==
  /\ \A i \in 1 .. Len(manifest), c \in CF :
       \A f \in manifest[i].add[c] \cup manifest[i].del[c] : f < manifest[i].next
  /\ \A i, j \in 1 .. Len(manifest) : i < j => manifest[i].next <= manifest[j].next
  /\ manifest[Len(manifest)].next <= next

\* The number of a file was given to nothing else.
Unique ==
  /\ current < next
  /\ \A c \in CF : \A f \in building[c] : f < next /\ f # current
  /\ \A c \in CF : current \notin Added(manifest, c)
  /\ \A b, c \in CF : building[b] \cap Added(manifest, c) = {}
  /\ \A b, c \in CF : b # c => /\ building[b] \cap building[c] = {}
                              /\ Added(manifest, b) \cap Added(manifest, c) = {}

\* What the memory holds is in the manifest.
MemoryLogged ==
  \A c \in CF : /\ files[c] \subseteq Added(manifest, c)
                /\ obsolete[c] \subseteq Added(manifest, c) \cap Deleted(manifest, c)
                /\ inputs[c] \subseteq Added(manifest, c)
                /\ inputs[c] \cap built[c] = {}

\* A file that is referred to, or will be, is added by a synced record, and is
\* not deleted by any.
Kept ==
  /\ \A c \in CF : ref[c] \cup built[c] \subseteq AddedTo(manifest, synced, c)
  /\ \A c \in CF \ dropped :
       Deleted(manifest, c) \cap (ref[c] \cup built[c] \cup building[c]) = {}
  /\ \A c \in dropped \cap CF : ref[c] = {}

\* The inductive invariant.
ManifestInv == Typed /\ NumbersGrow /\ Unique /\ MemoryLogged /\ Kept

-----------------------------------------------------------------------------
(* Manifests.                                                              *)

\* What a prefix adds and deletes.
LEMMA Prefix ==
  ASSUME NEW m \in Seq(Records), NEW k \in 1 .. Len(m), NEW c \in CF
  PROVE  /\ SubSeq(m, 1, k) \in Seq(Records) /\ Len(SubSeq(m, 1, k)) = k
         /\ \A i \in 1 .. k : SubSeq(m, 1, k)[i] = m[i]
         /\ Added(SubSeq(m, 1, k), c) = AddedTo(m, k, c)
         /\ AddedTo(m, k, c) \subseteq Added(m, c)
         /\ Deleted(SubSeq(m, 1, k), c) \subseteq Deleted(m, c)
         /\ \A j \in 1 .. k : AddedTo(SubSeq(m, 1, k), j, c) = AddedTo(m, j, c)
         /\ \A j \in 1 .. k : AddedTo(m, j, c) \subseteq AddedTo(m, k, c)
<1>1. /\ SubSeq(m, 1, k) \in Seq(Records) /\ Len(SubSeq(m, 1, k)) = k
      /\ \A i \in 1 .. k : SubSeq(m, 1, k)[i] = m[i]
  OBVIOUS
<1> DEFINE p == SubSeq(m, 1, k)
<1> HIDE DEF p
<1>2. \A i \in 1 .. k : p[i] = m[i] /\ i \in 1 .. Len(m)
  BY <1>1 DEF p
<1>3. Added(p, c) = AddedTo(m, k, c)
  BY <1>1, <1>2 DEF Added, AddedTo, p
<1>4. AddedTo(m, k, c) \subseteq Added(m, c)
  BY <1>2 DEF Added, AddedTo
<1>5. Deleted(p, c) \subseteq Deleted(m, c)
  BY <1>1, <1>2 DEF Deleted, p
<1>6. \A j \in 1 .. k : AddedTo(p, j, c) = AddedTo(m, j, c)
  BY <1>2 DEF AddedTo
<1>7. \A j \in 1 .. k : AddedTo(m, j, c) \subseteq AddedTo(m, k, c)
  BY DEF AddedTo
<1> QED BY Zenon, <1>1, <1>3, <1>4, <1>5, <1>6, <1>7 DEF p

\* What one record more adds and deletes.
LEMMA OneMore ==
  ASSUME NEW m \in Seq(Records), NEW e \in Records, NEW c \in CF
  PROVE  /\ Append(m, e) \in Seq(Records) /\ Len(Append(m, e)) = Len(m) + 1
         /\ Len(m) \in Nat
         /\ \A i \in 1 .. Len(m) : Append(m, e)[i] = m[i]
         /\ Append(m, e)[Len(m) + 1] = e
         /\ Added(Append(m, e), c) = Added(m, c) \cup e.add[c]
         /\ Deleted(Append(m, e), c) = Deleted(m, c) \cup e.del[c]
         /\ AddedTo(Append(m, e), Len(m) + 1, c) = Added(Append(m, e), c)
         /\ \A k \in 1 .. Len(m) : AddedTo(Append(m, e), k, c) = AddedTo(m, k, c)
<1> DEFINE p == Append(m, e)
<1>1. /\ p \in Seq(Records) /\ Len(p) = Len(m) + 1 /\ Len(m) \in Nat
      /\ \A i \in 1 .. Len(m) : p[i] = m[i]
      /\ p[Len(m) + 1] = e
  OBVIOUS
<1> HIDE DEF p
<1> DEFINE n == Len(m)
<1>2. n \in Nat /\ 1 .. Len(p) = (1 .. n) \cup {n + 1}
  BY <1>1
<1> HIDE DEF n
<1>3. Added(p, c) = Added(m, c) \cup e.add[c]
  BY <1>1, <1>2 DEF Added, n
<1>4. Deleted(p, c) = Deleted(m, c) \cup e.del[c]
  BY <1>1, <1>2 DEF Deleted, n
<1>5. AddedTo(p, Len(m) + 1, c) = Added(p, c)
  BY <1>1 DEF Added, AddedTo
<1>6. \A k \in 1 .. Len(m) : AddedTo(p, k, c) = AddedTo(m, k, c)
  BY <1>1 DEF AddedTo
<1> QED BY Zenon, <1>1, <1>3, <1>4, <1>5, <1>6 DEF p

-----------------------------------------------------------------------------
(* LogAndApply.                                                            *)

\* What LogAndApply does to the manifest and the memory, whether the write of
\* the record fails or not.
Logged(cf, add, del, ok) ==
  /\ manifest' \in Seq(Records) /\ synced' \in 1 .. Len(manifest')
  /\ \A c \in CF : Added(manifest, c) \subseteq Added(manifest', c)
  /\ \A c \in CF : \A f \in Added(manifest', c) :
       f \in Added(manifest, c) \/ (c = cf /\ f \in add)
  /\ \A c \in CF : \A f \in Deleted(manifest', c) :
       f \in Deleted(manifest, c) \/ (c = cf /\ f \in del)
  /\ \A c \in CF : AddedTo(manifest, synced, c) \subseteq AddedTo(manifest', synced', c)
  /\ ok => add \subseteq AddedTo(manifest', synced', cf)
  /\ files' \in Sets /\ obsolete' \in Sets
  /\ \A c \in CF : /\ files'[c] \subseteq Added(manifest', c)
                   /\ obsolete'[c] \subseteq Added(manifest', c) \cap Deleted(manifest', c)

\* A record more keeps the numbers in order.
LEMMA EditGrows ==
  ASSUME Typed, NumbersGrow, next' = next,
         NEW cf \in CF, NEW add \in SUBSET Nat, NEW del \in SUBSET Nat,
         \A f \in add \cup del : f < next,
         manifest' \in {manifest, Append(manifest, Edit(cf, add, del))}
  PROVE  NumbersGrow'
<1> DEFINE e == Edit(cf, add, del)
<1>1. e \in Records /\ e.next = next
      /\ \A c \in CF : \A f \in e.add[c] \cup e.del[c] : f < next
  BY DEF Edit, Records, Sets, Typed
<1> HIDE DEF e
<1> DEFINE n == Len(manifest)
<1>2. n \in Nat /\ n >= 1 /\ manifest \in Seq(Records) /\ next \in Nat
  BY DEF Typed
<1>3. CASE manifest' = manifest
  BY <1>3 DEF NumbersGrow
<1>4. CASE manifest' = Append(manifest, e)
  <2>1. /\ Len(manifest') = n + 1
        /\ \A i \in 1 .. n : manifest'[i] = manifest[i]
        /\ manifest'[n + 1] = e
    BY <1>1, <1>2, <1>4
  <2>2. \A i \in 1 .. n : manifest[i].next \in Nat
    <3> TAKE i \in 1 .. n
    <3>1. manifest[i] \in Records
      BY <1>2
    <3> QED BY <3>1 DEF Records
  <2> HIDE DEF n
  <2>3. \A i \in 1 .. n : manifest[i].next <= next
    <3>1. manifest[n].next <= next
      BY DEF NumbersGrow, n
    <3>2. \A i \in 1 .. n : i # n => manifest[i].next <= manifest[n].next
      BY <1>2 DEF NumbersGrow, n
    <3> QED BY <1>2, <2>2, <3>1, <3>2
  <2>4. \A i \in 1 .. n + 1, c \in CF :
          \A f \in manifest'[i].add[c] \cup manifest'[i].del[c] : f < manifest'[i].next
    <3> TAKE i \in 1 .. n + 1, c \in CF
    <3>1. CASE i = n + 1
      BY Zenon, <1>1, <2>1, <3>1
    <3>2. CASE i # n + 1
      <4>1. i \in 1 .. n
        BY <1>2, <3>2
      <4> QED BY Zenon, <2>1, <4>1 DEF NumbersGrow, n
    <3> QED BY <3>1, <3>2
  <2>5. \A i, j \in 1 .. n + 1 : i < j => manifest'[i].next <= manifest'[j].next
    <3> SUFFICES ASSUME NEW i \in 1 .. n + 1, NEW j \in 1 .. n + 1, i < j
                 PROVE  manifest'[i].next <= manifest'[j].next
      OBVIOUS
    <3>1. i \in 1 .. n /\ manifest'[i] = manifest[i]
      BY <1>2, <2>1
    <3>2. CASE j = n + 1
      BY Zenon, <1>1, <2>1, <2>3, <3>1, <3>2
    <3>3. CASE j # n + 1
      <4>1. j \in 1 .. n /\ manifest'[j] = manifest[j]
        BY <1>2, <2>1, <3>3
      <4> QED BY Zenon, <3>1, <4>1 DEF NumbersGrow, n
    <3> QED BY <3>2, <3>3
  <2>6. manifest'[n + 1].next <= next'
    BY <1>1, <1>2, <2>1
  <2> QED BY Zenon, <2>1, <2>4, <2>5, <2>6 DEF NumbersGrow
<1> QED BY Zenon, <1>3, <1>4 DEF e

\* LogAndApply does what Logged says.
LEMMA LogStep ==
  ASSUME ManifestInv, NEW cf \in CF, NEW add \in SUBSET Nat, NEW del \in SUBSET Nat,
         NEW ok \in BOOLEAN, LogAndApply(cf, add, del, ok)
  PROVE  /\ Logged(cf, add, del, ok)
         /\ manifest' \in {manifest, Append(manifest, Edit(cf, add, del))}
<1> DEFINE e == Edit(cf, add, del)
<1>t. Typed /\ MemoryLogged
  BY DEF ManifestInv
<1>1. /\ e \in Records
      /\ e.add[cf] = add /\ e.del[cf] = del
      /\ \A c \in CF : /\ \A f \in e.add[c] : c = cf /\ f \in add
                       /\ \A f \in e.del[c] : c = cf /\ f \in del
  BY <1>t DEF Edit, Records, Sets, Typed
<1> HIDE DEF e
<1>2. /\ manifest \in Seq(Records) /\ synced \in 1 .. Len(manifest)
      /\ files \in Sets /\ obsolete \in Sets /\ Len(manifest) \in Nat
  BY <1>t DEF Typed
<1>3. manifest' \in {manifest, Append(manifest, e)}
  BY Zenon DEF LogAndApply, logVars, e
<1>4. CASE manifest' = manifest /\ ~ ok
  <2>1. synced' = synced /\ files' = files /\ obsolete' = obsolete
    BY Zenon, <1>4 DEF LogAndApply, logVars
  <2> QED BY Zenon, <1>t, <1>2, <1>3, <1>4, <2>1 DEF Logged, MemoryLogged, e
<1>5. CASE manifest' = Append(manifest, e)
  <2>1. /\ manifest' \in Seq(Records) /\ Len(manifest') = Len(manifest) + 1
        /\ \A c \in CF :
             /\ Added(manifest', c) = Added(manifest, c) \cup e.add[c]
             /\ Deleted(manifest', c) = Deleted(manifest, c) \cup e.del[c]
             /\ AddedTo(manifest', Len(manifest) + 1, c) = Added(manifest', c)
             /\ \A k \in 1 .. Len(manifest) :
                  AddedTo(manifest', k, c) = AddedTo(manifest, k, c)
    <3>1. ASSUME NEW c \in CF
          PROVE  /\ Append(manifest, e) \in Seq(Records)
                 /\ Len(Append(manifest, e)) = Len(manifest) + 1
                 /\ Added(Append(manifest, e), c) = Added(manifest, c) \cup e.add[c]
                 /\ Deleted(Append(manifest, e), c) = Deleted(manifest, c) \cup e.del[c]
                 /\ AddedTo(Append(manifest, e), Len(manifest) + 1, c)
                      = Added(Append(manifest, e), c)
                 /\ \A k \in 1 .. Len(manifest) :
                      AddedTo(Append(manifest, e), k, c) = AddedTo(manifest, k, c)
      BY <1>1, <1>2, OneMore
    <3> QED BY Zenon, <1>5, <3>1
  <2>2. CASE ~ ok
    <3>1. synced' = synced /\ files' = files /\ obsolete' = obsolete
      BY Zenon, <2>2 DEF LogAndApply, logVars
    <3>2. synced' \in 1 .. Len(manifest')
      BY <1>2, <2>1, <3>1
    <3> QED BY SMTT(30), <1>t, <1>1, <1>2, <1>3, <2>1, <2>2, <3>1, <3>2
              DEF Logged, MemoryLogged, e
  <2>3. CASE ok
    <3>1. synced' = Len(manifest) + 1 /\ Seal(cf, add, del) /\ Apply(cf, add, del)
      BY Zenon, <2>3 DEF LogAndApply
    <3>2. synced' \in 1 .. Len(manifest')
      BY <1>2, <2>1, <3>1
    <3>3. \A c \in CF : AddedTo(manifest, synced, c) \subseteq AddedTo(manifest', synced', c)
      <4>1. \A c \in CF : AddedTo(manifest, synced, c) \subseteq Added(manifest, c)
        BY Zenon, <1>2, Prefix
      <4> QED BY SMTT(30), <2>1, <3>1, <4>1
    <3>4. add \subseteq AddedTo(manifest', synced', cf)
      <4>1. AddedTo(manifest', synced', cf) = Added(manifest, cf) \cup e.add[cf]
        BY Zenon, <2>1, <3>1
      <4> QED BY Zenon, <1>1, <4>1
    <3>5. files' \in Sets /\ obsolete' \in Sets
      BY ZenonT(30), <1>2, <3>1 DEF Apply, Sets
    <3>6. \A c \in CF :
            /\ files'[c] \subseteq Added(manifest', c)
            /\ obsolete'[c] \subseteq Added(manifest', c) \cap Deleted(manifest', c)
      <4> TAKE c \in CF
      <4>1. /\ files[c] \subseteq Added(manifest, c)
            /\ obsolete[c] \subseteq Added(manifest, c) \cap Deleted(manifest, c)
        BY Zenon, <1>t DEF MemoryLogged
      <4>2. CASE storage[cf] = "erased"
        BY Zenon, <2>1, <3>1, <4>1, <4>2 DEF Apply
      <4>3. CASE storage[cf] # "erased" /\ c = cf
        <5>1. del \subseteq files[cf]
          BY Zenon, <3>1, <4>3 DEF Seal
        <5>2. files'[c] = (files[c] \cup add) \ del /\ obsolete'[c] = obsolete[c] \cup del
          BY <1>2, <3>1, <4>3 DEF Apply, Sets
        <5>3. /\ Added(manifest', c) = Added(manifest, c) \cup add
              /\ Deleted(manifest', c) = Deleted(manifest, c) \cup del
          BY Zenon, <1>1, <2>1, <4>3
        <5> QED BY Zenon, <4>1, <4>3, <5>1, <5>2, <5>3
      <4>4. CASE storage[cf] # "erased" /\ c # cf
        <5>1. files'[c] = files[c] /\ obsolete'[c] = obsolete[c]
          BY <1>2, <3>1, <4>4 DEF Apply, Sets
        <5> QED BY Zenon, <2>1, <4>1, <5>1
      <4> QED BY Zenon, <4>2, <4>3, <4>4
    <3>7. \A c \in CF : Added(manifest, c) \subseteq Added(manifest', c)
      BY Zenon, <2>1
    <3>8. \A c \in CF :
            /\ \A f \in Added(manifest', c) :
                 f \in Added(manifest, c) \/ (c = cf /\ f \in add)
            /\ \A f \in Deleted(manifest', c) :
                 f \in Deleted(manifest, c) \/ (c = cf /\ f \in del)
      BY Zenon, <1>1, <2>1
    <3> QED BY Zenon, <1>3, <2>1, <3>2, <3>3, <3>4, <3>5, <3>6, <3>7, <3>8
              DEF Logged, e
  <2> QED BY Zenon, <2>2, <2>3
<1>6. ok => manifest' = Append(manifest, e)
  BY Zenon DEF LogAndApply, e
<1> QED BY Zenon, <1>3, <1>4, <1>5, <1>6

\* The numbers in the manifest are below the next one.
LEMMA LoggedBelow ==
  ASSUME Typed, NumbersGrow, NEW c \in CF, NEW f \in Added(manifest, c) \cup Deleted(manifest, c)
  PROVE  f \in Nat /\ f < manifest[Len(manifest)].next /\ f < next
<1> DEFINE n == Len(manifest)
<1>1. n \in Nat /\ n >= 1 /\ manifest \in Seq(Records) /\ next \in Nat
  BY DEF Typed
<1>2. \A i \in 1 .. n : manifest[i] \in Records
  BY <1>1
<1> HIDE DEF n
<1>3. PICK i \in 1 .. n : f \in manifest[i].add[c] \cup manifest[i].del[c]
  BY DEF Added, Deleted, n
<1>4. f \in Nat /\ manifest[i].next \in Nat /\ manifest[n].next \in Nat
  BY <1>1, <1>2, <1>3 DEF Records, Sets
<1>5. f < manifest[i].next
  BY Zenon, <1>3 DEF NumbersGrow, n
<1>6. manifest[n].next <= next
  BY DEF NumbersGrow, n
<1>7. i # n => manifest[i].next <= manifest[n].next
  BY <1>1, <1>3 DEF NumbersGrow, n
<1> QED BY <1>1, <1>4, <1>5, <1>6, <1>7 DEF n

\* What a step does to the other variables when it logs an edit: the added
\* files were being built, and the deleted ones are not referred to, nor will
\* they be.
EditStep(cf, add, del, ok) ==
  /\ add \subseteq building[cf] /\ \A f \in del : f < next
  /\ next' = next /\ current' = current
  /\ dropped' = dropped /\ dropping' \subseteq dropping
  /\ building' \in Sets /\ built' \in Sets /\ inputs' \in Sets /\ ref' \in Sets
  /\ \A c \in CF : building'[c] \subseteq building[c]
  /\ \A c \in CF : \A f \in built'[c] : f \in built[c] \/ (c = cf /\ ok /\ f \in add)
  /\ \A c \in CF : inputs'[c] \subseteq inputs[c] /\ ref'[c] \subseteq ref[c]
  /\ add \cap building'[cf] = {}
  /\ cf \notin dropped =>
       del \cap (ref'[cf] \cup built'[cf] \cup building'[cf]) = {}

\* Such a step keeps the invariant.
LEMMA LogActionInv ==
  ASSUME ManifestInv, NEW cf \in CF, NEW add \in SUBSET Nat, NEW del \in SUBSET Nat,
         NEW ok \in BOOLEAN, LogAndApply(cf, add, del, ok),
         EditStep(cf, add, del, ok)
  PROVE  ManifestInv'
<1> USE DEF EditStep
<1>1. Typed /\ NumbersGrow /\ Unique /\ MemoryLogged /\ Kept
  BY DEF ManifestInv
<1>2. /\ Logged(cf, add, del, ok)
      /\ manifest' \in {manifest, Append(manifest, Edit(cf, add, del))}
  BY Zenon, LogStep
<1>3. Typed'
  <2>1. current \in Nat /\ next \in Nat /\ dropping \subseteq dropped
    BY Zenon, <1>1 DEF Typed
  <2> QED BY Zenon, <1>2, <2>1 DEF Typed, Logged
<1>4. NumbersGrow'
  <2>1. \A f \in add \cup del : f < next
    BY Zenon, <1>1 DEF Unique
  <2> QED BY Zenon, <1>1, <1>2, <2>1, EditGrows
<1>5. Unique'
  <2>1. current' < next'
    BY Zenon, <1>1 DEF Unique
  <2>2. \A c \in CF : \A f \in building'[c] : f < next' /\ f # current'
    BY Zenon, <1>1 DEF Unique
  <2>3. \A c \in CF : current' \notin Added(manifest', c)
    BY Zenon, <1>1, <1>2 DEF Unique, Logged
  <2>4. \A b, c \in CF : building'[b] \cap Added(manifest', c) = {}
    <3> SUFFICES ASSUME NEW b \in CF, NEW c \in CF,
                        NEW f \in building'[b], f \in Added(manifest', c)
                 PROVE  FALSE
      BY Zenon
    <3>1. f \in building[b] /\ f \notin Added(manifest, c)
      BY Zenon, <1>1 DEF Unique
    <3>2. c = cf /\ f \in add
      BY Zenon, <1>2, <3>1 DEF Logged
    <3>3. b = cf
      BY Zenon, <1>1, <3>1, <3>2 DEF Unique
    <3> QED BY Zenon, <3>2, <3>3
  <2>5. \A b, c \in CF : b # c => building'[b] \cap building'[c] = {}
    BY Zenon, <1>1 DEF Unique
  <2>6. \A b, c \in CF : b # c => Added(manifest', b) \cap Added(manifest', c) = {}
    <3>1. \A c \in CF : add \cap Added(manifest, c) = {}
      BY Zenon, <1>1 DEF Unique
    <3> SUFFICES ASSUME NEW b \in CF, NEW c \in CF, b # c,
                        NEW f \in Added(manifest', b), f \in Added(manifest', c)
                 PROVE  FALSE
      BY Zenon
    <3>2. f \in Added(manifest, b) \/ (b = cf /\ f \in add)
      BY Zenon, <1>2 DEF Logged
    <3>3. f \in Added(manifest, c) \/ (c = cf /\ f \in add)
      BY Zenon, <1>2 DEF Logged
    <3>4. ~ (f \in Added(manifest, b) /\ f \in Added(manifest, c))
      BY Zenon, <1>1 DEF Unique
    <3> QED BY Zenon, <3>1, <3>2, <3>3, <3>4
  <2> QED BY Zenon, <2>1, <2>2, <2>3, <2>4, <2>5, <2>6 DEF Unique
<1>6. MemoryLogged'
  <2> SUFFICES ASSUME NEW c \in CF
               PROVE  /\ files'[c] \subseteq Added(manifest', c)
                      /\ obsolete'[c] \subseteq Added(manifest', c) \cap Deleted(manifest', c)
                      /\ inputs'[c] \subseteq Added(manifest', c)
                      /\ inputs'[c] \cap built'[c] = {}
    BY Zenon DEF MemoryLogged
  <2>1. inputs'[c] \subseteq Added(manifest, c) /\ inputs'[c] \cap built[c] = {}
    BY Zenon, <1>1 DEF MemoryLogged
  <2>2. Added(manifest, c) \subseteq Added(manifest', c)
    BY Zenon, <1>2 DEF Logged
  <2>3. \A f \in built'[c] : f \in built[c] \/ f \notin Added(manifest, c)
    BY Zenon, <1>1 DEF Unique
  <2> QED BY Zenon, <1>2, <2>1, <2>2, <2>3 DEF Logged
<1>7. Kept'
  <2>1. \A c \in CF : ref'[c] \cup built'[c] \subseteq AddedTo(manifest', synced', c)
    <3> SUFFICES ASSUME NEW c \in CF, NEW f \in ref'[c] \cup built'[c]
                 PROVE  f \in AddedTo(manifest', synced', c)
      BY Zenon
    <3>1. CASE f \in ref[c] \cup built[c]
      BY Zenon, <1>1, <1>2, <3>1 DEF Kept, Logged
    <3>2. CASE c = cf /\ ok /\ f \in add
      BY Zenon, <1>2, <3>2 DEF Logged
    <3> QED BY Zenon, <3>1, <3>2
  <2>2. \A c \in CF \ dropped' :
          Deleted(manifest', c) \cap (ref'[c] \cup built'[c] \cup building'[c]) = {}
    <3> SUFFICES ASSUME NEW c \in CF, c \notin dropped, NEW f \in Deleted(manifest', c),
                        f \in ref'[c] \cup built'[c] \cup building'[c]
                 PROVE  FALSE
      BY Zenon
    <3>1. f \in ref[c] \cup built[c] \cup building[c]
      BY Zenon
    <3>2. f \notin Deleted(manifest, c)
      BY Zenon, <1>1, <3>1 DEF Kept
    <3>3. c = cf /\ f \in del
      BY Zenon, <1>2, <3>2 DEF Logged
    <3> QED BY Zenon, <3>3
  <2>3. \A c \in dropped' \cap CF : ref'[c] = {}
    BY Zenon, <1>1 DEF Kept
  <2> QED BY Zenon, <2>1, <2>2, <2>3 DEF Kept
<1> QED BY Zenon, <1>3, <1>4, <1>5, <1>6, <1>7 DEF ManifestInv

-----------------------------------------------------------------------------
(* Steps that log an edit.                                                 *)

\* A new blob file is logged, by BatchFinishFiles or for the device.
LEMMA FinishInv ==
  ASSUME ManifestInv, NEW cf \in CF, NEW f, NEW ok \in BOOLEAN,
         Finish(cf, f, ok), LogAndApply(cf, {f}, {}, ok)
  PROVE  ManifestInv'
<1>1. building \in Sets /\ built \in Sets /\ inputs \in Sets /\ ref \in Sets
  BY DEF ManifestInv, Typed
<1>2. /\ f \in building[cf] /\ f \in Nat
      /\ building' = [building EXCEPT ![cf] = @ \ {f}]
      /\ built' = IF ok THEN [built EXCEPT ![cf] = @ \cup {f}] ELSE built
      /\ UNCHANGED <<current, next, dropped, dropping, inputs, ref>>
  BY <1>1 DEF Finish, Sets, cfVars
<1>3. building' \in Sets /\ built' \in Sets
  BY <1>1, <1>2 DEF Sets
<1>4. \A c \in CF : building'[c] \subseteq building[c] /\ {f} \cap building'[cf] = {}
  BY <1>1, <1>2 DEF Sets
<1>5. \A c \in CF : \A g \in built'[c] : g \in built[c] \/ (c = cf /\ ok /\ g \in {f})
  BY <1>1, <1>2 DEF Sets
<1>6. {f} \in SUBSET Nat /\ {} \in SUBSET Nat /\ {f} \subseteq building[cf]
  BY <1>2
<1>7. EditStep(cf, {f}, {}, ok)
  BY Zenon, <1>1, <1>2, <1>3, <1>4, <1>5, <1>6 DEF EditStep
<1> QED BY Zenon, <1>6, <1>7, LogActionInv

\* Files in memory, and inputs, have numbers below the next one.
LEMMA FilesBelow ==
  ASSUME ManifestInv, NEW c \in CF
  PROVE  /\ files[c] \cup inputs[c] \in SUBSET Nat
         /\ \A f \in files[c] \cup inputs[c] : f < next /\ f \in Added(manifest, c)
<1>1. \A f \in files[c] \cup inputs[c] : f \in Added(manifest, c)
  BY Zenon DEF ManifestInv, MemoryLogged
<1> QED BY Zenon, <1>1, LoggedBelow DEF ManifestInv

\* A GC job deletes its inputs.
LEMMA DeleteInputInv ==
  ASSUME ManifestInv, NEW cf \in CF, NEW ok \in BOOLEAN,
         DeleteInputBlobFiles(cf, ok)
  PROVE  ManifestInv'
<1>1. building \in Sets /\ built \in Sets /\ inputs \in Sets /\ ref \in Sets
  BY DEF ManifestInv, Typed
<1>2. /\ inputs[cf] \cap ref[cf] = {}
      /\ LogAndApply(cf, {}, inputs[cf], ok)
      /\ inputs' = [inputs EXCEPT ![cf] = {}]
      /\ UNCHANGED <<current, next, dropped, dropping, building, built, ref>>
  BY Zenon DEF DeleteInputBlobFiles, cfVars
<1>3. inputs' \in Sets /\ \A c \in CF : inputs'[c] \subseteq inputs[c]
  BY <1>1, <1>2 DEF Sets
<1>4. inputs[cf] \in SUBSET Nat /\ \A f \in inputs[cf] : f < next
  BY Zenon, FilesBelow
<1>5. inputs[cf] \cap (ref[cf] \cup built[cf] \cup building[cf]) = {}
  BY Zenon, <1>2 DEF ManifestInv, MemoryLogged, Unique
<1>e. EditStep(cf, {}, inputs[cf], ok)
  BY <1>1, <1>2, <1>3, <1>4, <1>5 DEF EditStep
<1>n. {} \in SUBSET Nat
  OBVIOUS
<1> QED BY Zenon, <1>2, <1>4, <1>e, <1>n, LogActionInv

\* The user deletes files by range.
LEMMA DeleteRangesInv ==
  ASSUME ManifestInv, NEW cf \in CF, NEW ok \in BOOLEAN, NEW del,
         DeleteBlobFilesInRanges(cf, del, ok)
  PROVE  ManifestInv'
<1>1. building \in Sets /\ built \in Sets /\ inputs \in Sets /\ ref \in Sets
  BY DEF ManifestInv, Typed
<1>2. /\ del \subseteq files[cf]
      /\ LogAndApply(cf, {}, del, ok)
      /\ inputs' = IF ok THEN [inputs EXCEPT ![cf] = @ \ del] ELSE inputs
      /\ built' = [built EXCEPT ![cf] = @ \ del]
      /\ ref' = [ref EXCEPT ![cf] = @ \ del]
      /\ UNCHANGED <<current, next, dropped, dropping, building>>
  BY Zenon DEF DeleteBlobFilesInRanges, cfVars
<1>3. /\ inputs' \in Sets /\ built' \in Sets /\ ref' \in Sets
      /\ \A c \in CF : /\ inputs'[c] \subseteq inputs[c] /\ ref'[c] \subseteq ref[c]
                       /\ built'[c] \subseteq built[c]
      /\ del \cap (ref'[cf] \cup built'[cf]) = {}
  BY <1>1, <1>2 DEF Sets
<1>4. del \in SUBSET Nat /\ \A f \in del : f < next /\ f \in Added(manifest, cf)
  BY Zenon, <1>2, FilesBelow
<1>5. del \cap (ref'[cf] \cup built'[cf] \cup building'[cf]) = {}
  BY Zenon, <1>2, <1>3, <1>4 DEF ManifestInv, Unique
<1>e. EditStep(cf, {}, del, ok)
  BY <1>1, <1>2, <1>3, <1>4, <1>5 DEF EditStep
<1>n. {} \in SUBSET Nat
  OBVIOUS
<1> QED BY Zenon, <1>2, <1>4, <1>e, <1>n, LogActionInv

\* A level merge deletes files of cf in an edit of the default column family.
LEMMA LevelMergeInv ==
  ASSUME ManifestInv, NEW cf \in CF, NEW ok \in BOOLEAN, NEW del,
         LevelMergeDelete(cf, del, ok)
  PROVE  ManifestInv'
<1>1. building \in Sets /\ built \in Sets /\ inputs \in Sets /\ ref \in Sets
  BY DEF ManifestInv, Typed
<1>2. /\ del \subseteq files[cf] \ (ref[cf] \cup built[cf] \cup merged)
      /\ LogAndApply(DefaultCF, {}, del, ok)
      /\ inputs' = IF ok THEN [inputs EXCEPT ![DefaultCF] = @ \ del] ELSE inputs
      /\ UNCHANGED <<current, next, dropped, dropping, building, built, ref>>
  BY Zenon DEF LevelMergeDelete, cfVars
<1>3. /\ DefaultCF \in CF
      /\ inputs' \in Sets /\ \A c \in CF : inputs'[c] \subseteq inputs[c]
  BY <1>1, <1>2, BlobFileSetAssumption DEF Sets
<1>4. del \in SUBSET Nat /\ \A f \in del : f < next /\ f \in Added(manifest, cf)
  BY Zenon, <1>2, FilesBelow
<1>5. \A c \in CF : ref[c] \cup built[c] \subseteq Added(manifest, c)
  <2>1. \A c \in CF : AddedTo(manifest, synced, c) \subseteq Added(manifest, c)
    BY Zenon, Prefix DEF ManifestInv, Typed
  <2> QED BY Zenon, <2>1 DEF ManifestInv, Kept
<1>6. del \cap (ref[DefaultCF] \cup built[DefaultCF]) = {}
  <2>1. CASE cf = DefaultCF
    BY Zenon, <1>2, <2>1
  <2>2. CASE cf # DefaultCF
    <3>1. Added(manifest, cf) \cap Added(manifest, DefaultCF) = {}
      BY Zenon, <1>3, <2>2 DEF ManifestInv, Unique
    <3> QED BY Zenon, <1>3, <1>4, <1>5, <3>1
  <2> QED BY Zenon, <2>1, <2>2
<1>7. del \cap building[DefaultCF] = {}
  BY Zenon, <1>3, <1>4 DEF ManifestInv, Unique
<1>8. del \cap (ref'[DefaultCF] \cup built'[DefaultCF] \cup building'[DefaultCF]) = {}
  BY Zenon, <1>2, <1>6, <1>7
<1>e. EditStep(DefaultCF, {}, del, ok)
  BY <1>1, <1>2, <1>3, <1>4, <1>8 DEF EditStep
<1>n. {} \in SUBSET Nat
  OBVIOUS
<1> QED BY Zenon, <1>2, <1>3, <1>4, <1>e, <1>n, LogActionInv

\* The files of a dropped column family are deleted.
LEMMA DropColumnFamiliesInv ==
  ASSUME ManifestInv, NEW cf \in CF, NEW ok \in BOOLEAN, DropColumnFamilies(cf, ok)
  PROVE  ManifestInv'
<1>1. building \in Sets /\ built \in Sets /\ inputs \in Sets /\ ref \in Sets
  BY DEF ManifestInv, Typed
<1>2. /\ cf \in dropping /\ dropping' = dropping \ {cf}
      /\ LogAndApply(cf, {}, files[cf], ok)
      /\ UNCHANGED <<current, next, dropped, building, built, inputs, ref>>
  BY Zenon DEF DropColumnFamilies, jobVars
<1>3. cf \in dropped /\ dropping' \subseteq dropping
  BY Zenon, <1>2 DEF ManifestInv, Typed
<1>4. files[cf] \in SUBSET Nat /\ \A f \in files[cf] : f < next
  BY Zenon, FilesBelow
<1>e. EditStep(cf, {}, files[cf], ok)
  BY <1>1, <1>2, <1>3, <1>4 DEF EditStep
<1>n. {} \in SUBSET Nat
  OBVIOUS
<1> QED BY Zenon, <1>2, <1>4, <1>e, <1>n, LogActionInv

-----------------------------------------------------------------------------
(* Steps that leave the manifest alone.                                    *)

\* A file gets the next number.
LEMMA NewFileInv ==
  ASSUME ManifestInv, NEW cf \in CF, NewFile(cf)
  PROVE  ManifestInv'
<1>1. Typed /\ NumbersGrow /\ Unique /\ MemoryLogged /\ Kept
  BY DEF ManifestInv
<1>2. /\ UNCHANGED <<manifest, synced, current, files, obsolete, dropped,
                     dropping, built, inputs, ref>>
      /\ next' = next + 1
      /\ building' = [building EXCEPT ![cf] = @ \cup {next}]
      /\ cf \notin dropped
  BY Zenon DEF NewFile, logVars, memVars, cfVars
<1>3. next \in Nat /\ current \in Nat /\ next + 1 \in Nat /\ next < next + 1
  BY <1>1 DEF Typed
<1>4. building' \in Sets
      /\ \A c \in CF : \A f \in building'[c] : f \in building[c] \/ (c = cf /\ f = next)
  BY <1>1, <1>2, <1>3 DEF Typed, Sets
<1>5. \A c \in CF : next \notin Added(manifest, c) /\ next \notin Deleted(manifest, c)
                    /\ next \notin building[c]
  <2>1. ~ (next < next)
    BY <1>3
  <2> QED BY Zenon, <1>1, <2>1, LoggedBelow DEF Unique
<1>6. Typed'
  BY Zenon, <1>1, <1>2, <1>3, <1>4 DEF Typed
<1>7. NumbersGrow'
  <2>1. manifest[Len(manifest)].next \in Nat /\ manifest[Len(manifest)].next <= next
    <3>1. manifest \in Seq(Records) /\ Len(manifest) \in 1 .. Len(manifest)
      BY <1>1 DEF Typed
    <3>2. manifest[Len(manifest)] \in Records
      BY <3>1
    <3> QED BY <1>1, <3>2 DEF NumbersGrow, Records
  <2>2. manifest[Len(manifest)].next <= next + 1
    BY <1>3, <2>1
  <2> QED BY Zenon, <1>1, <1>2, <2>2 DEF NumbersGrow
<1>8. Unique'
  <2>1. current < next + 1 /\ next # current
    BY <1>1, <1>3 DEF Unique
  <2>2. \A c \in CF : \A f \in building[c] : f \in Nat /\ f < next + 1
    <3> TAKE c \in CF
    <3> TAKE f \in building[c]
    <3>1. f \in Nat
      BY <1>1 DEF Typed, Sets
    <3>2. f < next
      BY Zenon, <1>1 DEF Unique
    <3> QED BY <1>3, <3>1, <3>2
  <2>3. \A c \in CF : \A f \in building'[c] : f < next + 1 /\ f # current
    BY Zenon, <1>1, <1>3, <1>4, <2>1, <2>2 DEF Unique
  <2>4. \A b, c \in CF : building'[b] \cap Added(manifest, c) = {}
    <3> SUFFICES ASSUME NEW b \in CF, NEW c \in CF,
                        NEW f \in building'[b], f \in Added(manifest, c)
                 PROVE  FALSE
      BY Zenon
    <3>1. f \in building[b]
      BY Zenon, <1>4, <1>5
    <3> QED BY Zenon, <1>1, <3>1 DEF Unique
  <2>5. \A b, c \in CF : b # c => building'[b] \cap building'[c] = {}
    <3> SUFFICES ASSUME NEW b \in CF, NEW c \in CF, b # c,
                        NEW f \in building'[b], f \in building'[c]
                 PROVE  FALSE
      BY Zenon
    <3>1. f \in building[b] \/ (b = cf /\ f = next)
      BY Zenon, <1>4
    <3>2. f \in building[c] \/ (c = cf /\ f = next)
      BY Zenon, <1>4
    <3>3. ~ (f \in building[b] /\ f \in building[c])
      BY Zenon, <1>1 DEF Unique
    <3> QED BY Zenon, <1>5, <3>1, <3>2, <3>3
  <2> QED BY Zenon, <1>1, <1>2, <2>1, <2>3, <2>4, <2>5 DEF Unique
<1>9. MemoryLogged'
  BY Zenon, <1>1, <1>2 DEF MemoryLogged
<1>10. Kept'
  <2>1. \A c \in CF \ dropped :
          Deleted(manifest, c) \cap (ref[c] \cup built[c] \cup building'[c]) = {}
    BY SMTT(30), <1>1, <1>4, <1>5 DEF Kept
  <2> QED BY Zenon, <1>1, <1>2, <2>1 DEF Kept
<1> QED BY Zenon, <1>6, <1>7, <1>8, <1>9, <1>10 DEF ManifestInv

\* What a step may do that neither logs nor numbers a file: files go from
\* building to nowhere and from built to referred, and all sets may shrink.
QuietStep ==
  /\ manifest' = manifest /\ synced' = synced /\ current' = current /\ next' = next
  /\ files' \in Sets /\ obsolete' \in Sets /\ building' \in Sets
  /\ built' \in Sets /\ inputs' \in Sets /\ ref' \in Sets
  /\ \A c \in CF : /\ files'[c] \subseteq files[c]
                   /\ obsolete'[c] \subseteq obsolete[c]
                   /\ building'[c] \subseteq building[c]
                   /\ built'[c] \subseteq built[c]
                   /\ inputs'[c] \subseteq inputs[c] \cup (files[c] \ built[c])
                   /\ ref'[c] \subseteq ref[c] \cup built[c]
  /\ dropping' \subseteq dropped' /\ dropped \subseteq dropped'
  /\ \A c \in dropped \cap CF : ref'[c] \subseteq ref[c]
  /\ \A c \in (dropped' \ dropped) \cap CF : ref'[c] = {}

\* Such a step keeps the invariant.
LEMMA QuietInv ==
  ASSUME ManifestInv, QuietStep
  PROVE  ManifestInv'
<1>1. Typed /\ NumbersGrow /\ Unique /\ MemoryLogged /\ Kept
  BY DEF ManifestInv
<1>2. Typed'
  BY Zenon, <1>1 DEF Typed, QuietStep
<1>3. NumbersGrow'
  BY Zenon, <1>1 DEF NumbersGrow, QuietStep
<1>4. Unique'
  <2>1. /\ \A c \in CF : \A f \in building'[c] : f < next /\ f # current
        /\ \A b, c \in CF : building'[b] \cap Added(manifest, c) = {}
        /\ \A b, c \in CF : b # c => building'[b] \cap building'[c] = {}
    BY Zenon, <1>1 DEF Unique, QuietStep
  <2> QED BY Zenon, <1>1, <2>1 DEF Unique, QuietStep
<1>5. MemoryLogged'
  <2> SUFFICES ASSUME NEW c \in CF
               PROVE  /\ files'[c] \subseteq Added(manifest, c)
                      /\ obsolete'[c] \subseteq Added(manifest, c) \cap Deleted(manifest, c)
                      /\ inputs'[c] \subseteq Added(manifest, c)
                      /\ inputs'[c] \cap built'[c] = {}
    BY Zenon DEF MemoryLogged, QuietStep
  <2>1. /\ files[c] \subseteq Added(manifest, c)
        /\ obsolete[c] \subseteq Added(manifest, c) \cap Deleted(manifest, c)
        /\ inputs[c] \subseteq Added(manifest, c)
        /\ inputs[c] \cap built[c] = {}
    BY Zenon, <1>1 DEF MemoryLogged
  <2>2. /\ files'[c] \subseteq files[c] /\ obsolete'[c] \subseteq obsolete[c]
        /\ built'[c] \subseteq built[c]
        /\ inputs'[c] \subseteq inputs[c] \cup (files[c] \ built[c])
    BY Zenon DEF QuietStep
  <2> QED BY Zenon, <2>1, <2>2
<1>6. Kept'
  <2>1. \A c \in CF : ref'[c] \cup built'[c] \subseteq AddedTo(manifest, synced, c)
    BY Zenon, <1>1 DEF Kept, QuietStep
  <2>2. \A c \in CF \ dropped' :
          Deleted(manifest, c) \cap (ref'[c] \cup built'[c] \cup building'[c]) = {}
    <3> SUFFICES ASSUME NEW c \in CF, c \notin dropped', NEW f \in Deleted(manifest, c),
                        f \in ref'[c] \cup built'[c] \cup building'[c]
                 PROVE  FALSE
      BY Zenon
    <3>1. c \notin dropped /\ f \in ref[c] \cup built[c] \cup building[c]
      BY Zenon DEF QuietStep
    <3> QED BY Zenon, <1>1, <3>1 DEF Kept
  <2>3. \A c \in dropped' \cap CF : ref'[c] = {}
    <3> TAKE c \in dropped' \cap CF
    <3>1. CASE c \in dropped
      BY Zenon, <1>1, <3>1 DEF Kept, QuietStep
    <3>2. CASE c \notin dropped
      BY Zenon, <3>2 DEF QuietStep
    <3> QED BY Zenon, <3>1, <3>2
  <2> QED BY Zenon, <2>1, <2>2, <2>3 DEF Kept, QuietStep
<1> QED BY Zenon, <1>2, <1>3, <1>4, <1>5, <1>6 DEF ManifestInv

\* The steps of this kind.
LEMMA QuietSteps ==
  ASSUME ManifestInv,
         \/ \E cf \in CF, f \in Number : SyncFails(cf, f)
         \/ \E cf \in CF, f \in Number : Reference(cf, f)
         \/ \E cf \in CF, f \in Number : Unreference(cf, f)
         \/ \E cf \in CF : \E picked \in SUBSET files[cf] : PickBlobGC(cf, picked)
         \/ \E cf \in CF : DropInBaseDB(cf)
         \/ \E cf \in CF : MaybeDestroyColumnFamily(cf)
         \/ PurgeObsoleteFiles
         \/ RecoverFails
         \/ PurgeInactiveFiles
         \/ UNCHANGED vars
  PROVE  QuietStep
<1>1. Typed
  BY DEF ManifestInv
<1>2. ASSUME NEW cf \in CF, NEW f \in Number, SyncFails(cf, f)
      PROVE  QuietStep
  BY <1>1, <1>2 DEF SyncFails, Finish, QuietStep, Typed, Sets, cfVars
<1>3. ASSUME NEW cf \in CF, NEW f \in Number, Reference(cf, f)
      PROVE  QuietStep
  BY Zenon, <1>1, <1>3 DEF Reference, QuietStep, Typed, Sets, logVars, memVars, cfVars
<1>4. ASSUME NEW cf \in CF, NEW f \in Number, Unreference(cf, f)
      PROVE  QuietStep
  BY <1>1, <1>4 DEF Unreference, QuietStep, Typed, Sets, logVars, memVars, cfVars,
                    jobVars
<1>5. ASSUME NEW cf \in CF, NEW picked \in SUBSET files[cf], PickBlobGC(cf, picked)
      PROVE  QuietStep
  BY Zenon, <1>1, <1>5 DEF PickBlobGC, QuietStep, Typed, Sets, logVars, memVars, cfVars
<1>6. ASSUME NEW cf \in CF, DropInBaseDB(cf)
      PROVE  QuietStep
  BY <1>1, <1>6 DEF DropInBaseDB, QuietStep, Typed, Sets, logVars, memVars, jobVars
<1>7. ASSUME NEW cf \in CF, MaybeDestroyColumnFamily(cf)
      PROVE  QuietStep
  BY <1>1, <1>7 DEF MaybeDestroyColumnFamily, QuietStep, Typed, Sets, logVars,
                    cfVars, jobVars
<1>8. CASE PurgeObsoleteFiles
  BY Zenon, <1>1, <1>8 DEF PurgeObsoleteFiles, QuietStep, Typed, Sets, logVars, cfVars,
                    jobVars
<1>9. CASE RecoverFails \/ PurgeInactiveFiles \/ UNCHANGED vars
  BY Zenon, <1>1, <1>9 DEF RecoverFails, PurgeInactiveFiles, QuietStep, Typed, Sets,
                    vars, logVars, memVars, cfVars, jobVars
<1> QED BY Zenon, <1>2, <1>3, <1>4, <1>5, <1>6, <1>7, <1>8, <1>9

-----------------------------------------------------------------------------
(* Crash and recovery.                                                     *)

\* Any number of records behind the last sync may be lost.
LEMMA CrashInv ==
  ASSUME ManifestInv, Crash
  PROVE  ManifestInv'
<1>1. Typed /\ NumbersGrow /\ Unique /\ MemoryLogged /\ Kept
  BY DEF ManifestInv
<1>2. /\ files' = Nothing /\ obsolete' = Nothing /\ building' = Nothing
      /\ built' = Nothing /\ inputs' = Nothing /\ dropping' = {}
      /\ UNCHANGED <<synced, current, next, dropped, ref>>
  BY Zenon DEF Crash
<1>3. PICK k \in synced .. Len(manifest) : manifest' = SubSeq(manifest, 1, k)
  BY Zenon DEF Crash
<1>4. /\ manifest \in Seq(Records) /\ synced \in 1 .. Len(manifest) /\ next \in Nat
      /\ k \in 1 .. Len(manifest) /\ synced \in 1 .. k /\ Len(manifest) \in Nat
  BY <1>1, <1>3 DEF Typed
<1>5. Nothing \in Sets /\ \A c \in CF : Nothing[c] = {}
  BY DEF Nothing, Sets
<1>6. /\ manifest' \in Seq(Records) /\ Len(manifest') = k
      /\ \A i \in 1 .. k : manifest'[i] = manifest[i]
  BY <1>3, <1>4
<1>7. \A c \in CF : /\ Added(manifest', c) \subseteq Added(manifest, c)
                    /\ Deleted(manifest', c) \subseteq Deleted(manifest, c)
                    /\ AddedTo(manifest', synced, c) = AddedTo(manifest, synced, c)
  <2> TAKE c \in CF
  <2>1. /\ Added(SubSeq(manifest, 1, k), c) = AddedTo(manifest, k, c)
        /\ AddedTo(manifest, k, c) \subseteq Added(manifest, c)
        /\ Deleted(SubSeq(manifest, 1, k), c) \subseteq Deleted(manifest, c)
        /\ \A j \in 1 .. k :
             AddedTo(SubSeq(manifest, 1, k), j, c) = AddedTo(manifest, j, c)
    BY Zenon, <1>4, Prefix
  <2> QED BY Zenon, <1>3, <1>4, <2>1
<1>8. Typed'
  BY Zenon, <1>1, <1>2, <1>4, <1>5, <1>6 DEF Typed
<1>9. NumbersGrow'
  <2>1. \A i \in 1 .. k : i \in 1 .. Len(manifest) /\ manifest[i].next \in Nat
    <3> TAKE i \in 1 .. k
    <3>1. i \in 1 .. Len(manifest)
      BY <1>4
    <3>2. manifest[i] \in Records
      BY <1>4, <3>1
    <3> QED BY <3>1, <3>2 DEF Records
  <2>2. /\ \A i \in 1 .. k, c \in CF :
             \A f \in manifest[i].add[c] \cup manifest[i].del[c] : f < manifest[i].next
        /\ \A i, j \in 1 .. k : i < j => manifest[i].next <= manifest[j].next
    BY Zenon, <1>1, <2>1 DEF NumbersGrow
  <2>3. manifest[k].next <= next
    <3>1. k # Len(manifest) => manifest[k].next <= manifest[Len(manifest)].next
      BY <1>1, <1>4 DEF NumbersGrow
    <3>2. manifest[Len(manifest)] \in Records
      BY <1>4
    <3>3. manifest[Len(manifest)].next <= next /\ manifest[Len(manifest)].next \in Nat
      BY <1>1, <3>2 DEF NumbersGrow, Records
    <3>4. manifest[k].next \in Nat
      BY <1>4, <2>1
    <3> QED BY <1>4, <3>1, <3>3, <3>4
  <2>4. k \in 1 .. k
    BY <1>4
  <2> QED BY Zenon, <1>2, <1>6, <2>2, <2>3, <2>4 DEF NumbersGrow
<1>10. Unique'
  BY Zenon, <1>1, <1>2, <1>5, <1>7 DEF Unique
<1>11. MemoryLogged'
  BY Zenon, <1>2, <1>5 DEF MemoryLogged
<1>12. Kept'
  BY Zenon, <1>1, <1>2, <1>5, <1>7 DEF Kept
<1> QED BY Zenon, <1>8, <1>9, <1>10, <1>11, <1>12 DEF ManifestInv

\* The new manifest holds what the replay finds alive.
LEMMA RecoverInv ==
  ASSUME ManifestInv, Recover
  PROVE  ManifestInv' /\ \A c \in CF : ref'[c] \subseteq files'[c]
<1>1. Typed /\ NumbersGrow /\ Unique /\ MemoryLogged /\ Kept
  BY DEF ManifestInv
<1> DEFINE alive  == [c \in CF |-> IF c \in CF \ dropped THEN Alive(manifest, c) ELSE {}]
           number == NextFileNumber(manifest)
           s      == Snapshot(alive, number + 1)
<1>2. /\ current' = number /\ next' = number + 1 /\ manifest' = <<s>> /\ synced' = 1
      /\ files' = alive /\ obsolete' = Nothing /\ dropping' = {}
      /\ building' = Nothing /\ built' = Nothing /\ inputs' = Nothing
      /\ UNCHANGED <<dropped, ref>>
  BY Zenon DEF Recover
<1>3. Nothing \in Sets /\ \A c \in CF : Nothing[c] = {}
  BY DEF Nothing, Sets
<1>4. number \in Nat /\ number + 1 \in Nat /\ number < number + 1
  <2>1. manifest \in Seq(Records) /\ Len(manifest) \in 1 .. Len(manifest)
    BY <1>1 DEF Typed
  <2>2. manifest[Len(manifest)] \in Records
    BY <2>1
  <2>3. number \in Nat
    BY <2>2 DEF NextFileNumber, Records
  <2> QED BY <2>3
<1>5. \A c \in CF : /\ alive[c] \subseteq Added(manifest, c)
                    /\ c \in dropped => alive[c] = {}
                    /\ c \notin dropped => alive[c] = Alive(manifest, c)
  BY Zenon DEF Alive
<1>6. \A c \in CF : \A f \in alive[c] : f \in Nat /\ f < number
  BY Zenon, <1>1, <1>5, LoggedBelow DEF NextFileNumber
<1>7. alive \in Sets
  BY <1>6 DEF Sets
<1> HIDE DEF alive, number
<1>8. s \in Records /\ s.add = alive /\ s.next = number + 1 /\ \A c \in CF : s.del[c] = {}
  BY <1>3, <1>4, <1>7 DEF Snapshot, Records, Sets
<1> HIDE DEF s
<1>9. /\ manifest' \in Seq(Records) /\ Len(manifest') = 1 /\ manifest'[1] = s
      /\ 1 .. Len(manifest') = {1}
  BY <1>2, <1>8
<1>10. \A c \in CF : /\ Added(manifest', c) = alive[c] /\ Deleted(manifest', c) = {}
                     /\ AddedTo(manifest', synced', c) = alive[c]
  <2>1. synced' = 1 /\ 1 .. 1 = {1}
    BY <1>2
  <2> QED BY <1>8, <1>9, <2>1 DEF Added, Deleted, AddedTo
<1>11. \A c \in CF : ref[c] \subseteq alive[c]
  <2> TAKE c \in CF
  <2>1. CASE c \in dropped
    BY Zenon, <1>1, <2>1 DEF Kept
  <2>2. CASE c \notin dropped
    <3>1. AddedTo(manifest, synced, c) \subseteq Added(manifest, c)
      BY Zenon, <1>1, Prefix DEF Typed
    <3>2. ref[c] \subseteq Added(manifest, c) /\ Deleted(manifest, c) \cap ref[c] = {}
      BY Zenon, <1>1, <2>2, <3>1 DEF Kept
    <3> QED BY Zenon, <1>5, <2>2, <3>2 DEF Alive
  <2> QED BY Zenon, <2>1, <2>2
<1>12. Typed'
  <2>1. synced' \in 1 .. Len(manifest')
    BY Zenon, <1>2, <1>9
  <2>2. ref' \in Sets /\ dropping' \subseteq dropped'
    BY Zenon, <1>1, <1>2 DEF Typed
  <2> QED BY Zenon, <1>2, <1>3, <1>4, <1>7, <1>9, <2>1, <2>2 DEF Typed
<1>13. NumbersGrow'
  <2>1. \A c \in CF : \A f \in s.add[c] \cup s.del[c] : f < s.next
    BY <1>4, <1>6, <1>8
  <2>2. \A i, j \in {1} : ~ (i < j)
    OBVIOUS
  <2>3. s.next <= next'
    BY <1>2, <1>4, <1>8
  <2> QED BY Zenon, <1>9, <2>1, <2>2, <2>3 DEF NumbersGrow
<1>14. Unique'
  <2>1. ~ (number < number)
    BY <1>4
  <2>2. \A c \in CF : number \notin alive[c]
    BY Zenon, <1>6, <2>1
  <2>3. \A b, c \in CF : b # c => alive[b] \cap alive[c] = {}
    BY Zenon, <1>1, <1>5 DEF Unique
  <2> QED BY Zenon, <1>2, <1>3, <1>4, <1>10, <2>2, <2>3 DEF Unique
<1>15. MemoryLogged'
  BY Zenon, <1>2, <1>3, <1>10 DEF MemoryLogged
<1>16. Kept'
  <2>1. \A c \in CF : ref'[c] \cup built'[c] \subseteq AddedTo(manifest', synced', c)
    BY Zenon, <1>2, <1>3, <1>10, <1>11
  <2>2. \A c \in CF : Deleted(manifest', c) = {}
    BY Zenon, <1>10
  <2>3. \A c \in dropped' \cap CF : ref'[c] = {}
    BY Zenon, <1>1, <1>2 DEF Kept
  <2> QED BY Zenon, <2>1, <2>2, <2>3 DEF Kept
<1> QED BY Zenon, <1>2, <1>11, <1>12, <1>13, <1>14, <1>15, <1>16 DEF ManifestInv

-----------------------------------------------------------------------------
(* The theorems.                                                           *)

\* The invariant holds in the initial state.
LEMMA InitInv == Init => ManifestInv
<1> SUFFICES ASSUME Init PROVE ManifestInv
  OBVIOUS
<1> DEFINE s == Snapshot(Nothing, 2)
<1>1. Nothing \in Sets /\ \A c \in CF : Nothing[c] = {}
  BY DEF Nothing, Sets
<1>2. s \in Records /\ s.add = Nothing /\ s.del = Nothing /\ s.next = 2
  BY <1>1 DEF Snapshot, Records, Nothing
<1> HIDE DEF s
<1>3. /\ manifest \in Seq(Records) /\ Len(manifest) = 1 /\ manifest[1] = s
      /\ 1 .. Len(manifest) = {1} /\ synced \in 1 .. Len(manifest)
  BY <1>2 DEF Init, s
<1>4. \A c \in CF : Added(manifest, c) = {} /\ Deleted(manifest, c) = {}
  BY <1>1, <1>2, <1>3 DEF Added, Deleted
<1>5. Typed
  BY <1>1, <1>3 DEF Init, Typed
<1>6. NumbersGrow
  BY <1>1, <1>2, <1>3 DEF Init, NumbersGrow
<1>7. Unique /\ MemoryLogged
  BY <1>1, <1>4 DEF Init, Unique, MemoryLogged
<1>8. Kept
  BY Zenon, <1>1, <1>4 DEF Init, Kept
<1> QED BY Zenon, <1>5, <1>6, <1>7, <1>8 DEF ManifestInv

\* Every step keeps it.
LEMMA NextInv == ManifestInv /\ [Next]_vars => ManifestInv'
<1> SUFFICES ASSUME ManifestInv, [Next]_vars PROVE ManifestInv'
  OBVIOUS
<1>1. ASSUME NEW cf \in CF, NEW f \in Number, NEW ok \in BOOLEAN,
             \/ BatchFinishFiles(cf, f, ok)
             \/ InstallHardwareOutputBlobFiles(cf, f, ok)
      PROVE  ManifestInv'
  BY Zenon, <1>1, FinishInv DEF BatchFinishFiles, InstallHardwareOutputBlobFiles
<1>2. ASSUME NEW cf \in CF, NEW ok \in BOOLEAN,
             \/ DeleteInputBlobFiles(cf, ok)
             \/ \E del \in SUBSET files[cf] : DeleteBlobFilesInRanges(cf, del, ok)
             \/ \E del \in SUBSET files[cf] : LevelMergeDelete(cf, del, ok)
             \/ DropColumnFamilies(cf, ok)
      PROVE  ManifestInv'
  BY Zenon, <1>2, DeleteInputInv, DeleteRangesInv, LevelMergeInv,
     DropColumnFamiliesInv
<1>3. ASSUME NEW cf \in CF, NewFile(cf)
      PROVE  ManifestInv'
  BY Zenon, <1>3, NewFileInv
<1>4. CASE Crash \/ Recover
  BY Zenon, <1>4, CrashInv, RecoverInv
<1>5. QuietStep => ManifestInv'
  BY Zenon, QuietInv
<1> QED BY Zenon, <1>1, <1>2, <1>3, <1>4, <1>5, QuietSteps DEF Next

\* ManifestInv holds in every reachable state, for any number of column
\* families, files, crashes and failed writes.
THEOREM ManifestInvariant == Spec => []ManifestInv
  BY InitInv, NextInv, PTL DEF Spec

\* Whatever fails, and whenever a crash comes, the files that tables refer to
\* are alive in what is left of the manifest (BlobFileSet::LogAndApply and
\* Recover), with level merge and the device or without.
THEOREM ReferencedIsAlive == Spec => []ReferencedAlive
<1>1. ManifestInv => ReferencedAlive
  <2> SUFFICES ASSUME ManifestInv, NEW k \in synced .. Len(manifest), NEW c \in CF
               PROVE  ref[c] \subseteq Alive(SubSeq(manifest, 1, k), c)
    BY Zenon DEF ReferencedAlive, CrashManifests
  <2>1. /\ manifest \in Seq(Records) /\ k \in 1 .. Len(manifest)
        /\ synced \in 1 .. k
    BY DEF ManifestInv, Typed
  <2>2. /\ Added(SubSeq(manifest, 1, k), c) = AddedTo(manifest, k, c)
        /\ AddedTo(manifest, synced, c) \subseteq AddedTo(manifest, k, c)
        /\ Deleted(SubSeq(manifest, 1, k), c) \subseteq Deleted(manifest, c)
    BY Zenon, <2>1, Prefix
  <2>3. CASE c \in dropped
    BY Zenon, <2>3 DEF ManifestInv, Kept
  <2>4. CASE c \notin dropped
    BY Zenon, <2>2, <2>4 DEF ManifestInv, Kept, Alive
  <2> QED BY Zenon, <2>3, <2>4
<1> QED BY <1>1, ManifestInvariant, PTL

\* No file gets a number that another file, or the manifest, has
\* (BlobFileSet::NewFileNumber after a Recover).
THEOREM NumberIsFresh == Spec => []FreshNumber
<1>1. ManifestInv => FreshNumber
  <2> SUFFICES ASSUME ManifestInv, NEW c \in CF,
                      NEW f \in Added(manifest, c) \cup obsolete[c] \cup building[c]
                                \cup built[c] \cup ref[c]
               PROVE  f < next /\ f # current
    BY Zenon DEF FreshNumber
  <2>1. AddedTo(manifest, synced, c) \subseteq Added(manifest, c)
    BY Zenon, Prefix DEF ManifestInv, Typed
  <2>2. f \in building[c] \/ f \in Added(manifest, c)
    BY Zenon, <2>1 DEF ManifestInv, MemoryLogged, Kept
  <2>3. CASE f \in building[c]
    BY Zenon, <2>3 DEF ManifestInv, Unique
  <2>4. CASE f \in Added(manifest, c)
    BY Zenon, <2>4, LoggedBelow DEF ManifestInv, Unique
  <2> QED BY Zenon, <2>2, <2>3, <2>4
<1> QED BY <1>1, ManifestInvariant, PTL

-----------------------------------------------------------------------------
(* The files themselves, when none comes from the device.                  *)

\* The files that tables refer to, or will, are durable; the purge at start
\* finds them in memory.
DurableInv ==
  /\ \A c \in CF \ dropped : ref[c] \cup built[c] \subseteq durable
  /\ pc = "purge" => \A c \in CF : ref[c] \subseteq files[c] /\ built[c] = {}

\* What most steps do: files become neither referred to nor built, and stay
\* durable.
DurableStep ==
  /\ \A c \in CF \ dropped' : ref'[c] \cup built'[c] \subseteq ref[c] \cup built[c]
  /\ dropped \subseteq dropped' /\ durable \subseteq durable'
  /\ pc' # "purge"

\* Such a step keeps DurableInv.
LEMMA DurableStepInv ==
  ASSUME DurableInv, DurableStep
  PROVE  DurableInv'
<1>1. \A c \in CF \ dropped' : ref'[c] \cup built'[c] \subseteq durable'
  <2> TAKE c \in CF \ dropped'
  <2>1. c \in CF \ dropped /\ ref'[c] \cup built'[c] \subseteq ref[c] \cup built[c]
    BY Zenon DEF DurableStep
  <2>2. ref[c] \cup built[c] \subseteq durable
    BY Zenon, <2>1 DEF DurableInv
  <2> QED BY Zenon, <2>1, <2>2 DEF DurableStep
<1> QED BY Zenon, <1>1 DEF DurableInv, DurableStep

\* The steps of this kind.
LEMMA DurableSteps ==
  ASSUME ManifestInv,
         \/ \E cf \in CF : NewFile(cf)
         \/ \E cf \in CF, f \in Number : SyncFails(cf, f)
         \/ \E cf \in CF, f \in Number : Reference(cf, f)
         \/ \E cf \in CF, f \in Number : Unreference(cf, f)
         \/ \E cf \in CF : \E picked \in SUBSET files[cf] : PickBlobGC(cf, picked)
         \/ \E cf \in CF, ok \in BOOLEAN : DeleteInputBlobFiles(cf, ok)
         \/ \E cf \in CF, ok \in BOOLEAN : \E del \in SUBSET files[cf] :
              DeleteBlobFilesInRanges(cf, del, ok)
         \/ \E cf \in CF, ok \in BOOLEAN : \E del \in SUBSET files[cf] :
              LevelMergeDelete(cf, del, ok)
         \/ \E cf \in CF : DropInBaseDB(cf)
         \/ \E cf \in CF, ok \in BOOLEAN : DropColumnFamilies(cf, ok)
         \/ \E cf \in CF : MaybeDestroyColumnFamily(cf)
         \/ Crash
         \/ RecoverFails
  PROVE  DurableStep
<1>1. built \in Sets /\ ref \in Sets
  BY Zenon DEF ManifestInv, Typed
<1>2. Nothing \in Sets /\ \A c \in CF : Nothing[c] = {}
  BY Zenon DEF Nothing, Sets
<1>3. ASSUME NEW cf \in CF,
             \/ NewFile(cf)
             \/ \E f \in Number : SyncFails(cf, f)
             \/ \E picked \in SUBSET files[cf] : PickBlobGC(cf, picked)
             \/ MaybeDestroyColumnFamily(cf)
             \/ \E ok \in BOOLEAN : DeleteInputBlobFiles(cf, ok)
             \/ \E ok \in BOOLEAN : \E del \in SUBSET files[cf] :
                  LevelMergeDelete(cf, del, ok)
             \/ \E ok \in BOOLEAN : DropColumnFamilies(cf, ok)
             \/ RecoverFails
      PROVE  DurableStep
  <2>1. UNCHANGED <<built, ref, dropped, durable>> /\ pc' # "purge"
    BY Zenon, <1>3 DEF NewFile, SyncFails, Finish, PickBlobGC, MaybeDestroyColumnFamily,
                DeleteInputBlobFiles, LevelMergeDelete, DropColumnFamilies,
                RecoverFails, cfVars, jobVars
  <2> QED BY Zenon, <2>1 DEF DurableStep
<1>4. ASSUME NEW cf \in CF, NEW f \in Number, Reference(cf, f) \/ Unreference(cf, f)
      PROVE  DurableStep
  BY SMTT(30), <1>1, <1>4 DEF Reference, Unreference, DurableStep, Sets, cfVars, jobVars
<1>5. ASSUME NEW cf \in CF, NEW ok \in BOOLEAN, NEW del \in SUBSET files[cf],
             DeleteBlobFilesInRanges(cf, del, ok)
      PROVE  DurableStep
  BY Zenon, <1>1, <1>5 DEF DeleteBlobFilesInRanges, DurableStep, Sets, cfVars
<1>6. ASSUME NEW cf \in CF, DropInBaseDB(cf)
      PROVE  DurableStep
  BY Zenon, <1>1, <1>6 DEF DropInBaseDB, DurableStep, Sets, jobVars
<1>7. CASE Crash
  BY Zenon, <1>1, <1>2, <1>7 DEF Crash, DurableStep
<1>8. CASE RecoverFails
  BY Zenon, <1>8 DEF RecoverFails, DurableStep, cfVars, jobVars
<1> QED BY Zenon, <1>3, <1>4, <1>5, <1>6, <1>7, <1>8

\* BatchFinishFiles syncs the file.
LEMMA BatchFinishDurable ==
  ASSUME ManifestInv, DurableInv, NEW cf \in CF, NEW f \in Number,
         NEW ok \in BOOLEAN, BatchFinishFiles(cf, f, ok)
  PROVE  DurableInv'
<1>1. built \in Sets /\ ref \in Sets
  BY DEF ManifestInv, Typed
<1>2. /\ built' = IF ok THEN [built EXCEPT ![cf] = @ \cup {f}] ELSE built
      /\ durable' = durable \cup {f} /\ pc = "up"
      /\ UNCHANGED <<ref, dropped, pc>>
  BY Zenon DEF BatchFinishFiles, Finish, cfVars
<1>3. \A c \in CF : built'[c] \subseteq built[c] \cup {f}
  BY <1>1, <1>2 DEF Sets
<1>4. \A c \in CF \ dropped : ref[c] \cup built[c] \subseteq durable
  BY Zenon DEF DurableInv
<1>5. \A c \in CF \ dropped' : ref'[c] \cup built'[c] \subseteq durable'
  BY Zenon, <1>2, <1>3, <1>4
<1>6. pc' # "purge"
  BY <1>2
<1> QED BY Zenon, <1>5, <1>6 DEF DurableInv

\* What a purge unlinks is obsolete, and no table refers to it.
LEMMA PurgeDurable ==
  ASSUME ManifestInv, DurableInv, PurgeObsoleteFiles
  PROVE  DurableInv'
<1>1. /\ UNCHANGED <<ref, built, dropped, pc>> /\ pc = "up"
      /\ \A f \in durable : (\A c \in CF : f \notin obsolete[c]) => f \in durable'
  BY Zenon DEF PurgeObsoleteFiles, cfVars, jobVars
<1>2. \A c \in CF : AddedTo(manifest, synced, c) \subseteq Added(manifest, c)
  BY Zenon, Prefix DEF ManifestInv, Typed
<1>3. ASSUME NEW c \in CF \ dropped, NEW f \in ref[c] \cup built[c]
      PROVE  f \in durable'
  <2>1. f \in durable
    BY Zenon DEF DurableInv
  <2>2. f \in Added(manifest, c) /\ f \notin Deleted(manifest, c)
    BY Zenon, <1>2 DEF ManifestInv, Kept
  <2>3. ASSUME NEW d \in CF
        PROVE  f \notin obsolete[d]
    <3>1. f \in obsolete[d] => f \in Added(manifest, d) /\ f \in Deleted(manifest, d)
      BY Zenon DEF ManifestInv, MemoryLogged
    <3>2. f \in Added(manifest, d) => d = c
      BY Zenon, <2>2 DEF ManifestInv, Unique
    <3> QED BY Zenon, <2>2, <3>1, <3>2
  <2> QED BY Zenon, <1>1, <2>1, <2>3
<1>4. pc' # "purge"
  BY <1>1
<1> QED BY Zenon, <1>1, <1>3, <1>4 DEF DurableInv

\* Recover and its purge keep the files that are alive.
LEMMA RecoverDurable ==
  ASSUME ManifestInv, DurableInv, Recover \/ PurgeInactiveFiles
  PROVE  DurableInv'
<1>1. CASE Recover
  <2>1. \A c \in CF : built'[c] = {}
    BY <1>1 DEF Recover, Nothing
  <2>2. UNCHANGED <<ref, dropped, durable>>
    BY Zenon, <1>1 DEF Recover
  <2>3. \A c \in CF : ref'[c] \subseteq files'[c]
    BY Zenon, <1>1, RecoverInv
  <2>4. \A c \in CF \ dropped' : ref'[c] \cup built'[c] \subseteq durable'
    BY Zenon, <2>1, <2>2 DEF DurableInv
  <2> QED BY Zenon, <2>1, <2>3, <2>4 DEF DurableInv
<1>2. CASE PurgeInactiveFiles
  <2>1. /\ pc = "purge" /\ pc' = "up" /\ UNCHANGED <<ref, built, dropped>>
        /\ \A c \in CF : files[c] \cap durable \subseteq durable'
    BY Zenon, <1>2 DEF PurgeInactiveFiles, cfVars, jobVars
  <2>2. \A c \in CF \ dropped' : ref'[c] \cup built'[c] \subseteq durable'
    BY Zenon, <2>1 DEF DurableInv
  <2>3. pc' # "purge"
    BY <2>1
  <2> QED BY Zenon, <2>2, <2>3 DEF DurableInv
<1> QED BY Zenon, <1>1, <1>2

\* Without the device, a blob file that tables refer to survives a crash: it
\* was synced before it was logged (FileManager::BatchFinishFiles), and no
\* purge takes it before it is referred to no more.
THEOREM ReferencedIsDurable ==
  ASSUME ~ Device
  PROVE  Spec => []ReferencedDurable
<1>1. Init => DurableInv
  BY DEF Init, DurableInv, Nothing
<1>2. ManifestInv /\ DurableInv /\ [Next]_vars => DurableInv'
  <2> SUFFICES ASSUME ManifestInv, DurableInv, [Next]_vars
               PROVE  DurableInv'
    OBVIOUS
  <2>1. CASE UNCHANGED vars
    BY Zenon, <2>1 DEF DurableInv, vars, memVars, cfVars, jobVars
  <2>2. ASSUME NEW cf \in CF, NEW f \in Number, NEW ok \in BOOLEAN,
               BatchFinishFiles(cf, f, ok)
        PROVE  DurableInv'
    BY Zenon, <2>2, BatchFinishDurable
  <2>3. \A cf \in CF, f \in Number, ok \in BOOLEAN :
          ~ InstallHardwareOutputBlobFiles(cf, f, ok)
    BY Zenon DEF InstallHardwareOutputBlobFiles
  <2>4. CASE PurgeObsoleteFiles \/ Recover \/ PurgeInactiveFiles
    BY Zenon, <2>4, PurgeDurable, RecoverDurable
  <2>5. DurableStep => DurableInv'
    BY Zenon, DurableStepInv
  <2> QED BY Zenon, <2>1, <2>2, <2>3, <2>4, <2>5, DurableSteps DEF Next
<1>3. ManifestInv /\ DurableInv => ReferencedDurable
  BY Zenon DEF ManifestInv, Kept, DurableInv, ReferencedDurable
<1> QED BY <1>1, <1>2, <1>3, ManifestInvariant, PTL DEF Spec

-----------------------------------------------------------------------------
(* The replay of the manifest, when no write of it has failed.             *)

\* A manifest that can be replayed, and so can its prefixes: a deletion comes
\* after the addition.
Sound(m) ==
  /\ AddEdits(m)
  /\ \A i \in 1 .. Len(m), c \in CF : \A f \in m[i].del[c] :
       \E j \in 1 .. i : f \in m[j].add[c]

\* The inductive invariant on top of ManifestInv: what may be deleted next has
\* not been deleted yet.
ReplayInv ==
  /\ faults \in Nat
  /\ storage \in [CF -> {"open", "destroyed", "erased"}]
  /\ \A c \in dropped \cap CF : inputs[c] = {}
  /\ \A c \in CF : storage[c] = "erased" => files[c] = {}
  /\ faults = 0 =>
       /\ Sound(manifest)
       /\ \A c \in CF : (files[c] \cup inputs[c]) \cap Deleted(manifest, c) = {}

\* A prefix of a sound manifest is sound.
LEMMA SoundPrefix ==
  ASSUME NEW m \in Seq(Records), NEW k \in 1 .. Len(m), Sound(m)
  PROVE  Sound(SubSeq(m, 1, k))
<1> DEFINE p == SubSeq(m, 1, k)
<1>1. /\ Len(p) = k /\ k \in Nat /\ \A i \in 1 .. k : p[i] = m[i] /\ i \in 1 .. Len(m)
  OBVIOUS
<1> HIDE DEF p
<1>2. AddEdits(p)
  BY SMTT(30), <1>1 DEF AddEdits, Sound
<1>3. ASSUME NEW i \in 1 .. Len(p), NEW c \in CF, NEW f \in p[i].del[c]
      PROVE  \E j \in 1 .. i : f \in p[j].add[c]
  <2>1. i \in 1 .. k /\ i \in 1 .. Len(m) /\ f \in m[i].del[c]
    BY Zenon, <1>1, <1>3
  <2>2. PICK j \in 1 .. i : f \in m[j].add[c]
    BY Zenon, <2>1 DEF Sound
  <2>3. j \in 1 .. k
    BY <1>1, <2>1
  <2> QED BY Zenon, <1>1, <2>2, <2>3
<1> QED BY Zenon, <1>2, <1>3 DEF Sound, p

\* A sound manifest can be replayed.
LEMMA SoundReplay ==
  ASSUME NEW m \in Seq(Records), Sound(m), NEW opened \in SUBSET CF
  PROVE  CanReplay(m, opened)
<1>1. ASSUME NEW c \in opened, NEW f \in Deleted(m, c)
      PROVE  f \in Added(m, c)
  <2>1. PICK i \in 1 .. Len(m) : f \in m[i].del[c]
    BY DEF Deleted
  <2>2. PICK j \in 1 .. i : f \in m[j].add[c]
    BY Zenon, <2>1 DEF Sound
  <2>3. j \in 1 .. Len(m)
    BY <2>1, <2>2
  <2> QED BY <2>2, <2>3 DEF Added
<1> QED BY Zenon, <1>1 DEF CanReplay, Sound

\* One record more.
LEMMA SoundAppend ==
  ASSUME NEW m \in Seq(Records), NEW e \in Records, Sound(m),
         \A i \in 1 .. Len(m) : m[i].next <= e.next,
         \A c \in CF : /\ e.add[c] \cap Added(m, c) = {}
                       /\ e.del[c] \cap Deleted(m, c) = {}
                       /\ e.del[c] \subseteq Added(m, c)
  PROVE  Sound(Append(m, e))
<1> DEFINE p == Append(m, e)
           n == Len(m)
<1>1. /\ n \in Nat /\ Len(p) = n + 1
      /\ \A i \in 1 .. n : p[i] = m[i]
      /\ p[n + 1] = e
  OBVIOUS
<1>2. \A i \in 1 .. n, c \in CF :
        m[i].add[c] \subseteq Added(m, c) /\ m[i].del[c] \subseteq Deleted(m, c)
  BY DEF Added, Deleted
<1>3. \A c \in CF : \A f \in Added(m, c) : \E j \in 1 .. n : f \in m[j].add[c]
  BY DEF Added
<1>s. /\ \A i \in 1 .. n, c \in CF : \A f \in m[i].del[c] : \E j \in 1 .. i : f \in m[j].add[c]
      /\ \A i, j \in 1 .. n : i < j =>
           /\ \A c \in CF : /\ m[i].add[c] \cap m[j].add[c] = {}
                            /\ m[i].del[c] \cap m[j].del[c] = {}
           /\ m[i].next <= m[j].next
      /\ \A i \in 1 .. n : m[i].next <= e.next
  BY Zenon DEF Sound, AddEdits
<1> HIDE DEF p, n
<1>4. AddEdits(p)
  <2> SUFFICES ASSUME NEW i \in 1 .. Len(p), NEW j \in 1 .. Len(p), i < j
               PROVE  /\ \A c \in CF : /\ p[i].add[c] \cap p[j].add[c] = {}
                                       /\ p[i].del[c] \cap p[j].del[c] = {}
                      /\ p[i].next <= p[j].next
    BY Zenon DEF AddEdits
  <2>1. i \in 1 .. n
    BY <1>1
  <2>2. CASE j = n + 1
    BY SMTT(30), <1>1, <1>2, <1>s, <2>1, <2>2
  <2>3. CASE j # n + 1
    <3>1. j \in 1 .. n
      BY <1>1, <2>3
    <3> QED BY SMTT(30), <1>1, <1>s, <2>1, <3>1
  <2> QED BY Zenon, <2>2, <2>3
<1>5. ASSUME NEW i \in 1 .. Len(p), NEW c \in CF, NEW f \in p[i].del[c]
      PROVE  \E j \in 1 .. i : f \in p[j].add[c]
  <2>1. CASE i = n + 1
    <3>1. f \in Added(m, c)
      BY Zenon, <1>1, <2>1
    <3>2. PICK j \in 1 .. n : f \in m[j].add[c]
      BY Zenon, <1>3, <3>1
    <3>3. j \in 1 .. i
      BY <1>1, <2>1
    <3> QED BY Zenon, <1>1, <3>2, <3>3
  <2>2. CASE i # n + 1
    <3>1. i \in 1 .. n
      BY <1>1, <2>2
    <3>2. PICK j \in 1 .. i : f \in m[j].add[c]
      BY SMTT(30), <1>1, <1>s, <3>1
    <3>3. j \in 1 .. n
      BY <1>1, <3>1
    <3> QED BY Zenon, <1>1, <3>2, <3>3
  <2> QED BY Zenon, <2>1, <2>2
<1> QED BY Zenon, <1>4, <1>5 DEF Sound, p

\* What a step does besides logging an edit: the deleted files were added, and
\* not deleted before, and are not an input of a GC job any more.
ReplayStep(cf, add, del, ok) ==
  /\ add \subseteq building[cf] /\ del \subseteq Added(manifest, cf)
  /\ faults = 0 => del \cap Deleted(manifest, cf) = {}
  /\ next' = next /\ storage' = storage /\ dropped' = dropped
  /\ \A c \in CF : inputs'[c] \subseteq inputs[c]
  /\ ok => inputs'[cf] \cap del = {}

\* Such a step keeps the manifest sound.
LEMMA LogReplay ==
  ASSUME ManifestInv, ReplayInv, NEW cf \in CF, NEW add \in SUBSET Nat,
         NEW del \in SUBSET Nat, NEW ok \in BOOLEAN,
         LogAndApply(cf, add, del, ok), ReplayStep(cf, add, del, ok)
  PROVE  ReplayInv'
<1>1. /\ faults \in Nat /\ storage \in [CF -> {"open", "destroyed", "erased"}]
      /\ \A c \in dropped \cap CF : inputs[c] = {}
      /\ \A c \in CF : storage[c] = "erased" => files[c] = {}
  BY Zenon DEF ReplayInv
<1>2. /\ storage' = storage /\ dropped' = dropped
      /\ \A c \in CF : inputs'[c] \subseteq inputs[c]
  BY Zenon DEF ReplayStep
<1>3. \A c \in dropped' \cap CF : inputs'[c] = {}
  BY Zenon, <1>1, <1>2
<1>4. CASE ~ ok /\ ~ Seal(cf, add, del)
  <2>1. UNCHANGED <<manifest, faults, files>>
    BY Zenon, <1>4 DEF LogAndApply, logVars
  <2>2. faults' = 0 =>
          /\ Sound(manifest')
          /\ \A c \in CF : (files'[c] \cup inputs'[c]) \cap Deleted(manifest', c) = {}
    BY Zenon, <1>2, <2>1 DEF ReplayInv
  <2> QED BY Zenon, <1>1, <1>2, <1>3, <2>1, <2>2 DEF ReplayInv
<1>5. CASE ~ ok /\ Seal(cf, add, del)
  <2>1. faults' = faults + 1 /\ files' = files
    BY Zenon, <1>5 DEF LogAndApply
  <2>2. faults' \in Nat /\ faults' # 0
    BY <1>1, <2>1
  <2> QED BY Zenon, <1>1, <1>2, <1>3, <2>1, <2>2 DEF ReplayInv
<1>6. CASE ok
  <2> DEFINE e == Edit(cf, add, del)
  <2>1. /\ manifest' = Append(manifest, e) /\ faults' = faults
        /\ Seal(cf, add, del) /\ Apply(cf, add, del)
    BY Zenon, <1>6 DEF LogAndApply
  <2>2. /\ manifest \in Seq(Records) /\ files \in Sets /\ Typed /\ next \in Nat
    BY DEF ManifestInv, Typed
  <2>3. /\ e \in Records /\ e.next = next
        /\ e.add[cf] = add /\ e.del[cf] = del
        /\ \A c \in CF : /\ \A f \in e.add[c] : c = cf /\ f \in add
                         /\ \A f \in e.del[c] : c = cf /\ f \in del
    BY <2>2 DEF Edit, Records, Sets
  <2> HIDE DEF e
  <2>4. \A c \in CF : storage'[c] = "erased" => files'[c] = {}
    BY <1>1, <1>2, <2>1, <2>2 DEF Apply, Sets
  <2>5. ASSUME faults = 0
        PROVE  Sound(manifest')
    <3>1. \A i \in 1 .. Len(manifest) : manifest[i].next <= e.next
      <4>1. /\ Len(manifest) \in Nat /\ Len(manifest) \in 1 .. Len(manifest)
            /\ \A i \in 1 .. Len(manifest) : manifest[i] \in Records
        BY <2>2 DEF Typed
      <4>2. /\ \A i \in 1 .. Len(manifest) : manifest[i].next \in Nat
            /\ manifest[Len(manifest)].next <= next
        BY <4>1 DEF ManifestInv, NumbersGrow, Records
      <4>3. \A i \in 1 .. Len(manifest) :
              i # Len(manifest) => manifest[i].next <= manifest[Len(manifest)].next
        BY <4>1 DEF ManifestInv, NumbersGrow
      <4> QED BY SMTT(30), <2>2, <2>3, <4>1, <4>2, <4>3
    <3>2. \A c \in CF : e.add[c] \cap Added(manifest, c) = {}
      BY Zenon, <2>3 DEF ManifestInv, Unique, ReplayStep
    <3>3. \A c \in CF : /\ e.del[c] \cap Deleted(manifest, c) = {}
                        /\ e.del[c] \subseteq Added(manifest, c)
      BY Zenon, <2>3, <2>5 DEF ReplayStep
    <3>4. Sound(manifest)
      BY Zenon, <2>5 DEF ReplayInv
    <3> QED BY Zenon, <2>1, <2>2, <2>3, <3>1, <3>2, <3>3, <3>4, SoundAppend
  <2>6. ASSUME faults = 0, NEW c \in CF
        PROVE  (files'[c] \cup inputs'[c]) \cap Deleted(manifest', c) = {}
    <3>1. Deleted(manifest', c) = Deleted(manifest, c) \cup e.del[c]
      BY SMTT(30), <2>1, <2>2, <2>3, OneMore
    <3>2. (files[c] \cup inputs[c]) \cap Deleted(manifest, c) = {} /\ Sound(manifest)
      BY Zenon, <2>6 DEF ReplayInv
    <3>3. Deleted(manifest, c) \subseteq Added(manifest, c)
      <4>1. CanReplay(manifest, CF)
        BY Zenon, <2>2, <3>2, SoundReplay
      <4> QED BY Zenon, <4>1 DEF CanReplay
    <3>4. add \cap Deleted(manifest, cf) = {} /\ add \cap del = {}
      <4>1. add \cap Added(manifest, cf) = {} /\ del \subseteq Added(manifest, cf)
        BY Zenon DEF ManifestInv, Unique, ReplayStep
      <4>2. Deleted(manifest, cf) \subseteq Added(manifest, cf)
        <5>1. CanReplay(manifest, CF)
          BY Zenon, <2>2, <3>2, SoundReplay
        <5> QED BY Zenon, <5>1 DEF CanReplay
      <4> QED BY Zenon, <4>1, <4>2
    <3>5. inputs'[c] \cap Deleted(manifest', c) = {}
      <4>1. c = cf => inputs'[c] \cap del = {}
        BY Zenon, <1>6 DEF ReplayStep
      <4> QED BY Zenon, <1>2, <2>3, <3>1, <3>2, <4>1
    <3>6. files'[c] \cap Deleted(manifest', c) = {}
      <4>1. CASE storage[cf] = "erased"
        <5>1. files' = files /\ (c = cf => files[c] = {})
          BY Zenon, <1>1, <2>1, <4>1 DEF Apply
        <5> QED BY Zenon, <2>3, <3>1, <3>2, <5>1
      <4>2. CASE storage[cf] # "erased" /\ c = cf
        <5>1. files'[c] = (files[c] \cup add) \ del
          BY <2>1, <2>2, <4>2 DEF Apply, Sets
        <5> QED BY Zenon, <2>3, <3>1, <3>2, <3>4, <4>2, <5>1
      <4>3. CASE storage[cf] # "erased" /\ c # cf
        <5>1. files'[c] = files[c]
          BY <2>1, <2>2, <4>3 DEF Apply, Sets
        <5> QED BY Zenon, <2>3, <3>1, <3>2, <4>3, <5>1
      <4> QED BY Zenon, <4>1, <4>2, <4>3
    <3> QED BY ZenonT(40), <3>5, <3>6
  <2> QED BY Zenon, <1>1, <1>2, <1>3, <2>1, <2>4, <2>5, <2>6 DEF ReplayInv
<1> QED BY Zenon, <1>4, <1>5, <1>6

\* The steps that log an edit, without level merge.
LEMMA LogStepsReplay ==
  ASSUME ManifestInv, ReplayInv, NEW cf \in CF, NEW ok \in BOOLEAN,
         \/ \E f \in Number : \/ BatchFinishFiles(cf, f, ok)
                              \/ InstallHardwareOutputBlobFiles(cf, f, ok)
         \/ DeleteInputBlobFiles(cf, ok)
         \/ \E del \in SUBSET files[cf] : DeleteBlobFilesInRanges(cf, del, ok)
         \/ DropColumnFamilies(cf, ok)
  PROVE  ReplayInv'
<1>1. inputs \in Sets /\ building \in Sets /\ {} \in SUBSET Nat
  BY DEF ManifestInv, Typed
<1>2. /\ files[cf] \cup inputs[cf] \in SUBSET Nat
      /\ files[cf] \cup inputs[cf] \subseteq Added(manifest, cf)
      /\ faults = 0 => (files[cf] \cup inputs[cf]) \cap Deleted(manifest, cf) = {}
  BY Zenon, FilesBelow DEF ReplayInv
<1>3. ASSUME NEW f \in Number,
             \/ BatchFinishFiles(cf, f, ok)
             \/ InstallHardwareOutputBlobFiles(cf, f, ok)
      PROVE  ReplayInv'
  <2>1. /\ LogAndApply(cf, {f}, {}, ok) /\ f \in building[cf]
        /\ UNCHANGED <<next, storage, dropped, inputs>>
    BY Zenon, <1>3 DEF BatchFinishFiles, InstallHardwareOutputBlobFiles, Finish,
                       cfVars
  <2>2. {f} \in SUBSET Nat
    BY Zenon, <1>1, <2>1 DEF Sets
  <2>3. ReplayStep(cf, {f}, {}, ok)
    BY Zenon, <2>1 DEF ReplayStep
  <2> QED BY Zenon, <1>1, <2>1, <2>2, <2>3, LogReplay
<1>4. CASE DeleteInputBlobFiles(cf, ok)
  <2>1. /\ LogAndApply(cf, {}, inputs[cf], ok)
        /\ inputs' = [inputs EXCEPT ![cf] = {}]
        /\ UNCHANGED <<next, storage, dropped>>
    BY Zenon, <1>4 DEF DeleteInputBlobFiles, cfVars
  <2>2. \A c \in CF : inputs'[c] \subseteq inputs[c] /\ inputs'[cf] = {}
    BY Zenon, <1>1, <2>1 DEF Sets
  <2>3. ReplayStep(cf, {}, inputs[cf], ok)
    BY Zenon, <1>2, <2>1, <2>2 DEF ReplayStep
  <2>4. inputs[cf] \in SUBSET Nat
    BY Zenon, <1>2
  <2> QED BY Zenon, <1>1, <2>1, <2>3, <2>4, LogReplay
<1>5. ASSUME NEW del \in SUBSET files[cf], DeleteBlobFilesInRanges(cf, del, ok)
      PROVE  ReplayInv'
  <2>1. /\ LogAndApply(cf, {}, del, ok)
        /\ inputs' = IF ok THEN [inputs EXCEPT ![cf] = @ \ del] ELSE inputs
        /\ UNCHANGED <<next, storage, dropped>>
    BY Zenon, <1>5 DEF DeleteBlobFilesInRanges, cfVars
  <2>2. /\ \A c \in CF : inputs'[c] \subseteq inputs[c]
        /\ ok => inputs'[cf] \cap del = {}
    BY Zenon, <1>1, <2>1 DEF Sets
  <2>3. ReplayStep(cf, {}, del, ok)
    BY Zenon, <1>2, <2>1, <2>2 DEF ReplayStep
  <2>4. del \in SUBSET Nat
    BY Zenon, <1>2
  <2> QED BY Zenon, <1>1, <2>1, <2>3, <2>4, LogReplay
<1>6. CASE DropColumnFamilies(cf, ok)
  <2>1. /\ LogAndApply(cf, {}, files[cf], ok) /\ cf \in dropping
        /\ UNCHANGED <<next, storage, dropped, inputs>>
    BY Zenon, <1>6 DEF DropColumnFamilies, jobVars
  <2>2. inputs[cf] = {}
    BY Zenon, <2>1 DEF ManifestInv, Typed, ReplayInv
  <2>3. ReplayStep(cf, {}, files[cf], ok)
    BY Zenon, <1>2, <2>1, <2>2 DEF ReplayStep
  <2>4. files[cf] \in SUBSET Nat
    BY Zenon, <1>2
  <2> QED BY Zenon, <1>1, <2>1, <2>3, <2>4, LogReplay
<1> QED BY Zenon, <1>3, <1>4, <1>5, <1>6

\* The steps that leave the manifest alone.
LEMMA QuietReplay ==
  ASSUME ManifestInv, ReplayInv,
         \/ \E cf \in CF : NewFile(cf)
         \/ \E cf \in CF, f \in Number : SyncFails(cf, f)
         \/ \E cf \in CF, f \in Number : Reference(cf, f)
         \/ \E cf \in CF, f \in Number : Unreference(cf, f)
         \/ \E cf \in CF : \E picked \in SUBSET files[cf] : PickBlobGC(cf, picked)
         \/ \E cf \in CF : DropInBaseDB(cf)
         \/ \E cf \in CF : MaybeDestroyColumnFamily(cf)
         \/ PurgeObsoleteFiles
         \/ RecoverFails
         \/ PurgeInactiveFiles
         \/ UNCHANGED vars
  PROVE  ReplayInv'
<1> DEFINE Quiet == /\ manifest' = manifest
                    /\ faults' \in Nat /\ (faults' = 0 => faults = 0)
                    /\ storage' \in [CF -> {"open", "destroyed", "erased"}]
                    /\ \A c \in dropped' \cap CF : inputs'[c] = {}
                    /\ \A c \in CF : storage'[c] = "erased" => files'[c] = {}
                    /\ \A c \in CF : /\ files'[c] \subseteq files[c]
                                     /\ inputs'[c] \subseteq inputs[c] \cup files[c]
<1>1. /\ faults \in Nat /\ storage \in [CF -> {"open", "destroyed", "erased"}]
      /\ \A c \in dropped \cap CF : inputs[c] = {}
      /\ \A c \in CF : storage[c] = "erased" => files[c] = {}
      /\ files \in Sets /\ inputs \in Sets
  BY Zenon DEF ReplayInv, ManifestInv, Typed
<1>2. Quiet => ReplayInv'
  <2> HAVE Quiet
  <2>1. faults' = 0 =>
          /\ Sound(manifest')
          /\ \A c \in CF : (files'[c] \cup inputs'[c]) \cap Deleted(manifest', c) = {}
    BY Zenon DEF ReplayInv
  <2> QED BY Zenon, <2>1 DEF ReplayInv
<1>3. ASSUME NEW cf \in CF, NewFile(cf)
      PROVE  Quiet
  BY Zenon, <1>1, <1>3 DEF NewFile, logVars, memVars, cfVars
<1>4. ASSUME NEW cf \in CF, NEW f \in Number, SyncFails(cf, f)
      PROVE  Quiet
  BY SMTT(30), <1>1, <1>4 DEF SyncFails, Finish, cfVars
<1>5. ASSUME NEW cf \in CF, NEW f \in Number, Reference(cf, f) \/ Unreference(cf, f)
      PROVE  Quiet
  BY Zenon, <1>1, <1>5 DEF Reference, Unreference, logVars, memVars, cfVars, jobVars
<1>6. ASSUME NEW cf \in CF, NEW picked \in SUBSET files[cf], PickBlobGC(cf, picked)
      PROVE  Quiet
  BY Zenon, <1>1, <1>6 DEF PickBlobGC, logVars, memVars, cfVars, Sets
<1>7. ASSUME NEW cf \in CF, DropInBaseDB(cf)
      PROVE  Quiet
  BY Zenon, <1>1, <1>7 DEF DropInBaseDB, logVars, memVars, jobVars
<1>8. ASSUME NEW cf \in CF, MaybeDestroyColumnFamily(cf)
      PROVE  Quiet
  BY Zenon, <1>1, <1>8 DEF MaybeDestroyColumnFamily, logVars, cfVars, jobVars, Sets
<1>9. CASE PurgeObsoleteFiles
  <2>1. UNCHANGED <<manifest, faults, dropped, inputs>>
    BY Zenon, <1>9 DEF PurgeObsoleteFiles, logVars, cfVars, jobVars
  <2>2. PICK purged \in SUBSET CF :
          /\ storage' = [c \in CF |-> IF c \in purged /\ Removed(storage[c], {})
                                      THEN "erased" ELSE storage[c]]
          /\ files' = [c \in CF |-> IF c \in purged /\ Removed(storage[c], {})
                                    THEN {} ELSE files[c]]
    <3> DEFINE P == {c \in CF : c \notin obsolete_columns /\ storage[c] # "erased"}
    <3>1. P \in SUBSET CF
      BY Zenon
    <3> QED BY Zenon, <1>9, <3>1 DEF PurgeObsoleteFiles
  <2>3. /\ storage' \in [CF -> {"open", "destroyed", "erased"}]
        /\ \A c \in CF : /\ storage'[c] = "erased" => files'[c] = {}
                         /\ files'[c] \subseteq files[c]
    BY Zenon, <1>1, <2>2
  <2>4. Quiet
    BY Zenon, <1>1, <2>1, <2>3
  <2> QED BY Zenon, <1>2, <2>4
<1>10. CASE RecoverFails \/ PurgeInactiveFiles \/ UNCHANGED vars
  <2>1. UNCHANGED <<manifest, faults, storage, dropped, inputs, files>>
    BY Zenon, <1>10 DEF RecoverFails, PurgeInactiveFiles, vars, logVars, memVars,
                        cfVars, jobVars
  <2>2. Quiet
    BY Zenon, <1>1, <2>1
  <2> QED BY Zenon, <1>2, <2>2
<1> HIDE DEF Quiet
<1> QED BY Zenon, <1>2, <1>3, <1>4, <1>5, <1>6, <1>7, <1>8, <1>9, <1>10

\* A crash leaves a prefix, and Recover a manifest without deletions.
LEMMA CrashReplay ==
  ASSUME ManifestInv, ReplayInv, Crash \/ Recover
  PROVE  ReplayInv'
<1>1. /\ faults \in Nat /\ storage \in [CF -> {"open", "destroyed", "erased"}]
      /\ manifest \in Seq(Records) /\ synced \in 1 .. Len(manifest)
  BY Zenon DEF ReplayInv, ManifestInv, Typed
<1>2. \A c \in CF : Nothing[c] = {}
  BY DEF Nothing
<1>3. CASE Crash
  <2>1. /\ files' = Nothing /\ inputs' = Nothing
        /\ UNCHANGED <<faults, storage, dropped>>
    BY Zenon, <1>3 DEF Crash
  <2>2. PICK k \in synced .. Len(manifest) : manifest' = SubSeq(manifest, 1, k)
    BY Zenon, <1>3 DEF Crash
  <2>3. k \in 1 .. Len(manifest)
    BY <1>1, <2>2
  <2>4. faults' = 0 => Sound(manifest')
    BY Zenon, <1>1, <2>1, <2>2, <2>3, SoundPrefix DEF ReplayInv
  <2> QED BY Zenon, <1>1, <1>2, <2>1, <2>4 DEF ReplayInv
<1>4. CASE Recover
  <2>1. /\ inputs' = Nothing /\ faults' = faults
        /\ files' = [c \in CF |-> IF c \in CF \ dropped THEN Alive(manifest, c) ELSE {}]
        /\ storage' = [c \in CF |-> IF c \in CF \ dropped THEN "open" ELSE "erased"]
        /\ \E a, n : manifest' = <<Snapshot(a, n)>>
    BY Zenon, <1>4 DEF Recover
  <2>2. PICK a, n : manifest' = <<Snapshot(a, n)>>
    BY <2>1
  <2>3. /\ 1 .. Len(manifest') = {1}
        /\ \A c \in CF : manifest'[1].del[c] = {}
    BY <2>2 DEF Snapshot
  <2>4. \A c \in CF : Deleted(manifest', c) = {}
    BY <2>3 DEF Deleted
  <2>5. Sound(manifest')
    <3>1. \A i, j \in {1} : ~ (i < j)
      OBVIOUS
    <3> QED BY Zenon, <2>3, <3>1 DEF Sound, AddEdits
  <2>6. /\ storage' \in [CF -> {"open", "destroyed", "erased"}]
        /\ \A c \in CF : storage'[c] = "erased" => files'[c] = {}
    BY <2>1
  <2> QED BY Zenon, <1>1, <1>2, <2>1, <2>4, <2>5, <2>6 DEF ReplayInv
<1> QED BY Zenon, <1>3, <1>4

\* ReplayInv holds at the start.
LEMMA InitReplay == Init => ReplayInv
<1> SUFFICES ASSUME Init PROVE ReplayInv
  OBVIOUS
<1>1. /\ 1 .. Len(manifest) = {1}
      /\ \A c \in CF : manifest[1].del[c] = {} /\ files[c] = {} /\ inputs[c] = {}
  BY SMTT(30) DEF Init, Snapshot, Nothing
<1>2. \A i, j \in {1} : ~ (i < j)
  OBVIOUS
<1>3. Sound(manifest)
  BY Zenon, <1>1, <1>2 DEF Sound, AddEdits
<1>4. faults \in Nat /\ storage \in [CF -> {"open", "destroyed", "erased"}]
      /\ dropped = {}
  BY DEF Init
<1> QED BY Zenon, <1>1, <1>3, <1>4 DEF ReplayInv

\* Without level merge every step preserves it.
LEMMA NextReplay ==
  ASSUME ~ LevelMerge
  PROVE  ManifestInv /\ ReplayInv /\ [Next]_vars => ReplayInv'
<1> SUFFICES ASSUME ManifestInv, ReplayInv, [Next]_vars
             PROVE  ReplayInv'
  OBVIOUS
<1>1. \A cf, del, ok : ~ LevelMergeDelete(cf, del, ok)
  BY Zenon DEF LevelMergeDelete
<1> QED BY Zenon, <1>1, LogStepsReplay, QuietReplay, CrashReplay DEF Next

\* As long as the writes of the manifest succeed, and without level merge, what
\* a crash leaves of it can be replayed: no interleaving of flushes, GC, range
\* deletions and drops makes EditCollector refuse an edit.
THEOREM ManifestReplays == Spec => []Replayable
<1>1. CASE LevelMerge
  <2>1. Replayable
    BY <1>1 DEF Replayable
  <2> QED BY <2>1, PTL
<1>2. CASE ~ LevelMerge
  <2>1. ManifestInv /\ ReplayInv /\ [Next]_vars => ReplayInv'
    BY Zenon, <1>2, NextReplay
  <2>2. ManifestInv /\ ReplayInv => Replayable
    <3> SUFFICES ASSUME ManifestInv, ReplayInv, faults = 0,
                        NEW k \in synced .. Len(manifest)
                 PROVE  CanReplay(SubSeq(manifest, 1, k), CF \ dropped)
      BY Zenon DEF Replayable, CrashManifests
    <3>1. manifest \in Seq(Records) /\ k \in 1 .. Len(manifest)
      BY DEF ManifestInv, Typed
    <3>2. SubSeq(manifest, 1, k) \in Seq(Records)
      BY <3>1
    <3>3. Sound(SubSeq(manifest, 1, k))
      BY Zenon, <3>1, SoundPrefix DEF ReplayInv
    <3>4. CF \ dropped \in SUBSET CF
      BY Zenon
    <3> QED BY Zenon, <3>2, <3>3, <3>4, SoundReplay
  <2> QED BY <2>1, <2>2, InitReplay, ManifestInvariant, PTL DEF Spec
<1> QED BY <1>1, <1>2

-----------------------------------------------------------------------------
(* What the replay finds, when no write of the manifest has failed.        *)

\* The whole manifest is synced, and while the process runs its replay gives
\* the files in memory.  The storage of a column family goes after its handle.
AgreeInv ==
  /\ \A c \in handles \cap CF : storage[c] = "open"
  /\ faults = 0 =>
       /\ synced = Len(manifest)
       /\ pc \in {"up", "purge"} =>
            \A c \in CF : storage[c] # "erased" => Alive(manifest, c) = files[c]

\* The steps that log an edit.
LEMMA LogAgree ==
  ASSUME ManifestInv, ReplayInv, AgreeInv, NEW cf \in CF, NEW add \in SUBSET Nat,
         NEW del \in SUBSET Nat, NEW ok \in BOOLEAN,
         LogAndApply(cf, add, del, ok), add \subseteq building[cf], pc = "up",
         pc' \in {"up", "down"}, UNCHANGED <<storage, handles>>
  PROVE  AgreeInv'
<1>1. CASE ~ ok /\ ~ Seal(cf, add, del)
  <2>1. UNCHANGED <<manifest, synced, faults, files>>
    BY Zenon, <1>1 DEF LogAndApply, logVars
  <2> QED BY Zenon, <2>1 DEF AgreeInv
<1>2. CASE ~ ok /\ Seal(cf, add, del)
  <2>1. faults' = faults + 1 /\ faults \in Nat
    BY Zenon, <1>2 DEF LogAndApply, ReplayInv
  <2>2. faults' # 0
    BY <2>1
  <2> QED BY Zenon, <2>2 DEF AgreeInv
<1>3. CASE ok
  <2> DEFINE e == Edit(cf, add, del)
  <2>1. /\ manifest' = Append(manifest, e) /\ synced' = Len(manifest) + 1
        /\ faults' = faults /\ Apply(cf, add, del)
    BY Zenon, <1>3 DEF LogAndApply
  <2>2. manifest \in Seq(Records) /\ files \in Sets /\ next \in Nat
    BY Zenon DEF ManifestInv, Typed
  <2>3. /\ e \in Records /\ e.add[cf] = add /\ e.del[cf] = del
        /\ \A c \in CF : c # cf => e.add[c] = {} /\ e.del[c] = {}
    BY <2>2 DEF Edit, Records, Sets
  <2> HIDE DEF e
  <2>4. synced' = Len(manifest')
    BY Zenon, <2>1, <2>2, <2>3, OneMore
  <2>5. ASSUME faults = 0, NEW c \in CF, storage[c] # "erased"
        PROVE  Alive(manifest', c) = files'[c]
    <3>1. /\ Added(manifest', c) = Added(manifest, c) \cup e.add[c]
          /\ Deleted(manifest', c) = Deleted(manifest, c) \cup e.del[c]
      <4>1. /\ Added(Append(manifest, e), c) = Added(manifest, c) \cup e.add[c]
            /\ Deleted(Append(manifest, e), c) = Deleted(manifest, c) \cup e.del[c]
        BY SMT, <2>2, <2>3, OneMore
      <4> QED BY Zenon, <2>1, <4>1
    <3>2. Added(manifest, c) \ Deleted(manifest, c) = files[c]
      BY Zenon, <2>5 DEF AgreeInv, Alive
    <3>3. CASE c # cf
      <4>1. files'[c] = files[c]
        BY Zenon, <2>1, <2>2, <3>3 DEF Apply, Sets
      <4> QED BY Zenon, <2>3, <3>1, <3>2, <3>3, <4>1 DEF Alive
    <3>4. CASE c = cf
      <4>1. files'[c] = (files[c] \cup add) \ del
        BY Zenon, <2>1, <2>2, <2>5, <3>4 DEF Apply, Sets
      <4>2. add \cap Added(manifest, c) = {}
        BY Zenon, <3>4 DEF ManifestInv, Unique
      <4>3. Deleted(manifest, c) \subseteq Added(manifest, c)
        <5>1. CanReplay(manifest, CF)
          BY Zenon, <2>2, <2>5, SoundReplay DEF ReplayInv
        <5> QED BY Zenon, <5>1 DEF CanReplay
      <4> QED BY Zenon, <2>3, <3>1, <3>2, <3>4, <4>1, <4>2, <4>3 DEF Alive
    <3> QED BY Zenon, <3>3, <3>4
  <2> QED BY Zenon, <2>1, <2>4, <2>5 DEF AgreeInv
<1> QED BY Zenon, <1>1, <1>2, <1>3


\* ... and which these are.
LEMMA LogStepsAgree ==
  ASSUME ManifestInv, ReplayInv, AgreeInv, NEW cf \in CF, NEW ok \in BOOLEAN,
         \/ \E f \in Number : \/ BatchFinishFiles(cf, f, ok)
                              \/ InstallHardwareOutputBlobFiles(cf, f, ok)
         \/ DeleteInputBlobFiles(cf, ok)
         \/ \E del \in SUBSET files[cf] : DeleteBlobFilesInRanges(cf, del, ok)
         \/ DropColumnFamilies(cf, ok)
  PROVE  AgreeInv'
<1>1. /\ building \in Sets /\ {} \in SUBSET Nat /\ {} \subseteq building[cf]
      /\ files[cf] \in SUBSET Nat /\ inputs[cf] \in SUBSET Nat
  BY Zenon DEF ManifestInv, Typed, Sets
<1>2. ASSUME NEW f \in Number,
             \/ BatchFinishFiles(cf, f, ok)
             \/ InstallHardwareOutputBlobFiles(cf, f, ok)
      PROVE  AgreeInv'
  <2>1. /\ LogAndApply(cf, {f}, {}, ok) /\ f \in building[cf]
        /\ UNCHANGED <<storage, handles>> /\ pc = "up" /\ pc' \in {"up", "down"}
    BY Zenon, <1>2 DEF BatchFinishFiles, InstallHardwareOutputBlobFiles, Finish
  <2>2. {f} \in SUBSET Nat /\ {f} \subseteq building[cf]
    BY Zenon, <1>1, <2>1 DEF Sets
  <2> QED BY Zenon, <1>1, <2>1, <2>2, LogAgree
<1>3. CASE DeleteInputBlobFiles(cf, ok)
  <2>1. /\ LogAndApply(cf, {}, inputs[cf], ok)
        /\ UNCHANGED <<storage, handles>> /\ pc = "up" /\ pc' \in {"up", "down"}
    BY Zenon, <1>3 DEF DeleteInputBlobFiles
  <2> QED BY Zenon, <1>1, <2>1, LogAgree
<1>4. ASSUME NEW del \in SUBSET files[cf], DeleteBlobFilesInRanges(cf, del, ok)
      PROVE  AgreeInv'
  <2>1. /\ LogAndApply(cf, {}, del, ok)
        /\ UNCHANGED <<storage, handles>> /\ pc = "up" /\ pc' \in {"up", "down"}
    BY Zenon, <1>4 DEF DeleteBlobFilesInRanges
  <2>2. del \in SUBSET Nat
    BY Zenon, <1>1
  <2> QED BY Zenon, <1>1, <2>1, <2>2, LogAgree
<1>5. CASE DropColumnFamilies(cf, ok)
  <2>1. /\ LogAndApply(cf, {}, files[cf], ok)
        /\ UNCHANGED <<storage, handles>> /\ pc = "up" /\ pc' \in {"up", "down"}
    BY Zenon, <1>5 DEF DropColumnFamilies
  <2> QED BY Zenon, <1>1, <2>1, LogAgree
<1> QED BY Zenon, <1>2, <1>3, <1>4, <1>5

\* The steps that leave the manifest alone.
LEMMA QuietAgree ==
  ASSUME ManifestInv, ReplayInv, AgreeInv,
         \/ \E cf \in CF : NewFile(cf)
         \/ \E cf \in CF, f \in Number : SyncFails(cf, f)
         \/ \E cf \in CF, f \in Number : Reference(cf, f)
         \/ \E cf \in CF, f \in Number : Unreference(cf, f)
         \/ \E cf \in CF : \E picked \in SUBSET files[cf] : PickBlobGC(cf, picked)
         \/ \E cf \in CF : DropInBaseDB(cf)
         \/ \E cf \in CF : MaybeDestroyColumnFamily(cf)
         \/ PurgeObsoleteFiles
         \/ RecoverFails
         \/ PurgeInactiveFiles
         \/ UNCHANGED vars
  PROVE  AgreeInv'
<1> DEFINE Quiet == /\ UNCHANGED <<manifest, synced>>
                    /\ faults' = 0 => faults = 0
                    /\ pc' \in {"up", "purge"} => pc \in {"up", "purge"}
                    /\ \A c \in CF : storage'[c] # "erased" =>
                         storage[c] # "erased" /\ files'[c] = files[c]
                    /\ \A c \in handles' \cap CF : storage'[c] = "open"
<1>1. /\ faults \in Nat /\ storage \in [CF -> {"open", "destroyed", "erased"}]
      /\ files \in Sets /\ \A c \in handles \cap CF : storage[c] = "open"
  BY Zenon DEF ReplayInv, ManifestInv, Typed, AgreeInv
<1>2. Quiet => AgreeInv'
  BY Zenon DEF AgreeInv
<1>3. ASSUME NEW cf \in CF, NewFile(cf)
      PROVE  Quiet
  BY Zenon, <1>1, <1>3 DEF NewFile, logVars, memVars
<1>4. ASSUME NEW cf \in CF, NEW f \in Number, SyncFails(cf, f)
      PROVE  Quiet
  <2>1. faults' = faults + 1
    BY Zenon, <1>4 DEF SyncFails
  <2>2. faults' # 0
    BY <1>1, <2>1
  <2> QED BY Zenon, <1>1, <1>4, <2>2 DEF SyncFails, Finish
<1>5. ASSUME NEW cf \in CF, NEW f \in Number, Reference(cf, f) \/ Unreference(cf, f)
      PROVE  Quiet
  BY Zenon, <1>1, <1>5 DEF Reference, Unreference, logVars, memVars
<1>6. ASSUME NEW cf \in CF, NEW picked \in SUBSET files[cf], PickBlobGC(cf, picked)
      PROVE  Quiet
  BY Zenon, <1>1, <1>6 DEF PickBlobGC, logVars, memVars
<1>7. ASSUME NEW cf \in CF, DropInBaseDB(cf)
      PROVE  Quiet
  BY Zenon, <1>1, <1>7 DEF DropInBaseDB, logVars, memVars
<1>8. ASSUME NEW cf \in CF, MaybeDestroyColumnFamily(cf)
      PROVE  Quiet
  <2>1. UNCHANGED <<manifest, synced, faults, pc>> /\ pc = "up" /\ cf \in handles
        /\ handles' = handles \ {cf}
    BY Zenon, <1>8 DEF MaybeDestroyColumnFamily, logVars
  <2>2. PICK gone \in BOOLEAN :
          /\ storage' = [storage EXCEPT ![cf] = IF gone THEN "erased" ELSE "destroyed"]
          /\ files' = [files EXCEPT ![cf] = IF gone THEN {} ELSE @]
    BY Zenon, <1>8 DEF MaybeDestroyColumnFamily
  <2>3. ASSUME NEW c \in CF, storage'[c] # "erased"
        PROVE  storage[c] # "erased" /\ files'[c] = files[c]
    BY Zenon, <1>1, <2>1, <2>2, <2>3 DEF Sets
  <2>4. \A c \in handles' \cap CF : storage'[c] = "open"
    BY Zenon, <1>1, <2>1, <2>2
  <2> QED BY Zenon, <2>1, <2>3, <2>4
<1>9. CASE PurgeObsoleteFiles
  <2>1. UNCHANGED <<manifest, synced, faults, pc, handles>>
    BY Zenon, <1>9 DEF PurgeObsoleteFiles, logVars
  <2>2. PICK purged \in SUBSET CF :
          /\ storage' = [c \in CF |-> IF c \in purged /\ Removed(storage[c], {})
                                      THEN "erased" ELSE storage[c]]
          /\ files' = [c \in CF |-> IF c \in purged /\ Removed(storage[c], {})
                                    THEN {} ELSE files[c]]
    <3> DEFINE P == {c \in CF : c \notin obsolete_columns /\ storage[c] # "erased"}
    <3>1. P \in SUBSET CF
      BY Zenon
    <3> QED BY Zenon, <1>9, <3>1 DEF PurgeObsoleteFiles
  <2>3. \A c \in CF : storage'[c] # "erased" =>
          storage[c] # "erased" /\ files'[c] = files[c]
    BY Zenon, <2>2
  <2>4. \A c \in handles' \cap CF : storage'[c] = "open"
    BY Zenon, <1>1, <2>1, <2>2 DEF Removed
  <2> QED BY Zenon, <1>2, <2>1, <2>3, <2>4
<1>10. CASE RecoverFails \/ PurgeInactiveFiles \/ UNCHANGED vars
  <2>1. /\ UNCHANGED <<manifest, synced, faults, storage, files, handles>>
        /\ pc' = pc \/ pc' = "failed" \/ pc = "purge"
    BY Zenon, <1>10 DEF RecoverFails, PurgeInactiveFiles, vars, logVars, memVars
  <2>2. Quiet
    BY Zenon, <1>1, <2>1
  <2> QED BY Zenon, <1>2, <2>2
<1> HIDE DEF Quiet
<1> QED BY Zenon, <1>2, <1>3, <1>4, <1>5, <1>6, <1>7, <1>8, <1>9, <1>10


\* A crash loses no record, and Recover starts from the files it found.
LEMMA CrashAgree ==
  ASSUME ManifestInv, ReplayInv, AgreeInv, Crash \/ Recover
  PROVE  AgreeInv'
<1>1. manifest \in Seq(Records) /\ synced \in 1 .. Len(manifest)
  BY Zenon DEF ManifestInv, Typed
<1>2. CASE Crash
  <2>1. UNCHANGED <<faults, storage, handles, synced>> /\ pc' = "down"
    BY Zenon, <1>2 DEF Crash
  <2>2. PICK k \in synced .. Len(manifest) : manifest' = SubSeq(manifest, 1, k)
    BY Zenon, <1>2 DEF Crash
  <2>3. k \in 1 .. Len(manifest) /\ (synced = Len(manifest) => k = synced)
    BY <1>1, <2>2
  <2>4. Len(SubSeq(manifest, 1, k)) = k
    BY <1>1, <2>3
  <2>5. faults = 0 => synced' = Len(manifest')
    BY Zenon, <2>1, <2>2, <2>3, <2>4 DEF AgreeInv
  <2> QED BY Zenon, <2>1, <2>5 DEF AgreeInv
<1>3. CASE Recover
  <2>1. PICK alive, n :
          /\ alive = [c \in CF |-> IF c \in CF \ dropped THEN Alive(manifest, c) ELSE {}]
          /\ manifest' = <<Snapshot(alive, n)>>
          /\ files' = alive
    BY Zenon, <1>3 DEF Recover
  <2>2. /\ storage' = [c \in CF |-> IF c \in CF \ dropped THEN "open" ELSE "erased"]
        /\ handles' = CF \ dropped /\ synced' = 1
    BY Zenon, <1>3 DEF Recover
  <2>3. /\ Len(<<Snapshot(alive, n)>>) = 1
        /\ <<Snapshot(alive, n)>>[1] = Snapshot(alive, n)
        /\ 1 .. 1 = {1}
    OBVIOUS
  <2>4. /\ Snapshot(alive, n).add = alive
        /\ \A c \in CF : Snapshot(alive, n).del[c] = {}
    BY DEF Snapshot
  <2>5. ASSUME NEW c \in CF PROVE Alive(manifest', c) = files'[c]
    <3>1. /\ Len(manifest') = 1 /\ manifest'[1].add[c] = alive[c]
          /\ manifest'[1].del[c] = {}
      BY Zenon, <2>1, <2>3, <2>4
    <3>2. Added(manifest', c) = alive[c]
      BY Zenon, <2>3, <3>1 DEF Added
    <3>3. Deleted(manifest', c) = {}
      BY Zenon, <2>3, <3>1 DEF Deleted
    <3> QED BY Zenon, <2>1, <3>2, <3>3 DEF Alive
  <2>6. \A c \in handles' \cap CF : storage'[c] = "open"
    BY Zenon, <2>2
  <2>7. synced' = Len(manifest')
    BY Zenon, <2>1, <2>2, <2>3
  <2> QED BY Zenon, <2>5, <2>6, <2>7 DEF AgreeInv
<1> QED BY Zenon, <1>2, <1>3

\* AgreeInv holds at the start.
LEMMA InitAgree == Init => AgreeInv
<1> SUFFICES ASSUME Init PROVE AgreeInv
  BY Zenon
<1>1. /\ manifest = <<Snapshot(Nothing, 2)>> /\ synced = 1 /\ files = Nothing
      /\ storage = [c \in CF |-> "open"]
  BY Zenon DEF Init
<1>2. /\ Len(manifest) = 1 /\ manifest[1] = Snapshot(Nothing, 2) /\ 1 .. 1 = {1}
  BY <1>1
<1>3. \A c \in CF : /\ Snapshot(Nothing, 2).add[c] = {}
                    /\ Snapshot(Nothing, 2).del[c] = {} /\ Nothing[c] = {}
  BY DEF Snapshot, Nothing
<1>4. ASSUME NEW c \in CF PROVE Alive(manifest, c) = files[c]
  <2>1. Len(manifest) = 1 /\ manifest[1].add[c] = {}
    BY Zenon, <1>2, <1>3
  <2>2. Added(manifest, c) = {}
    BY Zenon, <1>2, <2>1 DEF Added
  <2> QED BY Zenon, <1>1, <1>3, <2>2 DEF Alive
<1> QED BY Zenon, <1>1, <1>2, <1>4 DEF AgreeInv

\* As long as the writes of the manifest succeed, and without level merge, the
\* replay by Recover of what a crash leaves finds exactly the blob files that
\* are in memory and not obsolete, whatever flushes, GC jobs, range deletions
\* and drops have been going on.
THEOREM ReplayFindsFiles == Spec => []ReplayAgrees
<1>1. CASE LevelMerge
  <2>1. ReplayAgrees
    BY <1>1 DEF ReplayAgrees
  <2> QED BY <2>1, PTL
<1>2. CASE ~ LevelMerge
  <2>1. ManifestInv /\ ReplayInv /\ [Next]_vars => ReplayInv'
    BY Zenon, <1>2, NextReplay
  <2>2. ManifestInv /\ ReplayInv /\ AgreeInv /\ [Next]_vars => AgreeInv'
    <3> SUFFICES ASSUME ManifestInv, ReplayInv, AgreeInv, [Next]_vars
                 PROVE  AgreeInv'
      BY Zenon
    <3>1. \A cf, del, ok : ~ LevelMergeDelete(cf, del, ok)
      BY Zenon, <1>2 DEF LevelMergeDelete
    <3> QED BY Zenon, <3>1, LogStepsAgree, QuietAgree, CrashAgree DEF Next
  <2>3. ManifestInv /\ AgreeInv => ReplayAgrees
    <3> SUFFICES ASSUME ManifestInv, AgreeInv, faults = 0, pc = "up",
                        NEW k \in synced .. Len(manifest), NEW cf \in CF,
                        storage[cf] # "erased"
                 PROVE  Alive(SubSeq(manifest, 1, k), cf) = files[cf]
      BY Zenon DEF ReplayAgrees, CrashManifests
    <3>1. manifest \in Seq(Records) /\ synced = Len(manifest)
      BY Zenon DEF ManifestInv, Typed, AgreeInv
    <3>2. k = Len(manifest)
      BY <3>1
    <3>3. SubSeq(manifest, 1, Len(manifest)) = manifest
      BY <3>1
    <3> QED BY Zenon, <3>2, <3>3 DEF AgreeInv
  <2> QED BY <2>1, <2>2, <2>3, InitReplay, InitAgree, ManifestInvariant, PTL DEF Spec
<1> QED BY <1>1, <1>2
=============================================================================

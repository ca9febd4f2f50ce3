------------------------- MODULE TitanDBRefinement -------------------------
(***************************************************************************)
(* TitanDB implements SnapshotKV: flush, compaction, garbage collection    *)
(* and purge change nothing that a user can read.                          *)
(***************************************************************************)
EXTENDS TitanDBInv

NotFound == 0
Lost     == -2      \* the value behind a blob index that leads nowhere
Missing  == -1

\* What a Get of k at sequence number n returns, if the files in usable can
\* be read.
ReadAt(n, k, usable) ==
  IF \E i \in 1 .. n : Visible(i, n) /\ lsm[i].key = k
  THEN LET e == lsm[CHOOSE i \in 1 .. n : Visible(i, n) /\ lsm[i].key = k]
       IN  IF e.type = "kTypeBlobIndex" /\ ~(Found(e) /\ e.file \in usable)
           THEN Lost ELSE e.val
  ELSE NotFound

\* The contents a user finds now, or after a crash that keeps n entries:
\* the files the manifest holds alive are there.
ContentsAt(n) == [k \in Key |-> ReadAt(n, k, {f \in File : Alive(f)})]

\* The contents a reader finds through its snapshot.
SnapshotContents(r) ==
  [k \in Key |-> IF snap[r] = NoSnap \/ late[r] THEN Missing
                 ELSE ReadAt(snap[r], k, {f \in File : Present(f)})]

KV == INSTANCE SnapshotKV WITH
        Value   <- 1 .. MaxPut,
        writes  <- puts,
        crashes <- crashes,
        db      <- ContentsAt(seq),
        durable <- {ContentsAt(n) : n \in synced .. seq},
        view    <- [r \in Reader |-> SnapshotContents(r)]

\* Every step of the store is a step of the map with snapshots, or changes
\* nothing in it: a write-back of GC never undoes or hides a user's write, a
\* held snapshot never changes, and a crash goes back to contents that the
\* user wrote.
ImplementsKV == KV!KVSpec
=============================================================================

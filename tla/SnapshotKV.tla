---------------------------- MODULE SnapshotKV -----------------------------
(***************************************************************************)
(* What the store promises its users: a map from keys to values, snapshots *)
(* that do not change while they are held, and a crash that goes back to   *)
(* one of the states since the last one known to be durable.  There are no *)
(* files, no tables and no garbage collection here.                        *)
(***************************************************************************)
EXTENDS Integers

CONSTANTS Key, Reader,
          Value         \* neither NotFound nor NoValue is one of them

NotFound == 0       \* what a Get returns for a key without a value
NoValue  == -1      \* stands for every key of a reader without a snapshot

VARIABLES
  writes,    \* number of calls of Put and Delete
  crashes,   \* number of crashes
  db,        \* the contents
  durable,   \* the contents a crash may leave
  view       \* reader -> the contents of its snapshot

kvVars == <<writes, crashes, db, durable, view>>

NoView == [k \in Key |-> NoValue]

KVInit ==
  /\ writes = 0
  /\ crashes = 0
  /\ db = [k \in Key |-> NotFound]
  /\ durable = {db}
  /\ view = [r \in Reader |-> NoView]

\* Only a call of the user changes the contents.
KVWrite(k, v) ==
  /\ writes' = writes + 1
  /\ db' = [db EXCEPT ![k] = v]
  /\ durable' = durable \cup {db'}
  /\ UNCHANGED <<crashes, view>>

\* Some of the older contents are no longer in danger of coming back.
KVSync ==
  /\ durable' \subseteq durable
  /\ db \in durable'
  /\ UNCHANGED <<writes, crashes, db, view>>

KVGetSnapshot(r) ==
  /\ view[r] = NoView
  /\ view' = [view EXCEPT ![r] = db]
  /\ UNCHANGED <<writes, crashes, db, durable>>

KVReleaseSnapshot(r) ==
  /\ view' = [view EXCEPT ![r] = NoView]
  /\ UNCHANGED <<writes, crashes, db, durable>>

KVCrash ==
  /\ crashes' = crashes + 1
  /\ db' \in durable
  /\ durable' \subseteq durable
  /\ db' \in durable'
  /\ view' = [r \in Reader |-> NoView]
  /\ UNCHANGED writes

KVNext ==
  \/ \E k \in Key, v \in Value \cup {NotFound} : KVWrite(k, v)
  \/ KVSync
  \/ \E r \in Reader : KVGetSnapshot(r) \/ KVReleaseSnapshot(r)
  \/ KVCrash

KVSpec == KVInit /\ [][KVNext]_kvVars
=============================================================================

SPECIFICATION FairSpec
CONSTANTS Key = {1}
 Reader = {r1}
 Worker = {w1}
 Job = {"flush", "compaction"}
 RunMode = {"kNormal"}
 Faults = FALSE
 MaxSeq = 4
 MaxPut = 2
 MaxFile = 2
 MaxCrash = 1
INVARIANTS SnapshotReadable ObsoleteInvisible CrashConsistent
PROPERTIES ImplementsKV PurgeProgress
CHECK_DEADLOCK FALSE

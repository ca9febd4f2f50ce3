---------------------------- MODULE GCScheduler ----------------------------
(***************************************************************************)
(* The scheduling of garbage collection: gc_queue_ and its counters, the   *)
(* GC thread pool, and the callers that wait for GC jobs on bg_cv_:        *)
(* DropColumnFamilies and Close.                                           *)
(*                                                                         *)
(* Everything here is guarded by mutex_, so an action is one hold of it,   *)
(* from the acquisition to the next release or wait.                       *)
(***************************************************************************)
EXTENDS Integers, Sequences, FiniteSets

CONSTANTS
  CF,         \* column families
  Thread,     \* threads of the GC pool: max_background_gc of them
  Dropper,    \* callers of DropColumnFamilies
  Closing,    \* whether Close is called
  Faults,     \* what may fail in a drop: "base" (the drop in the base DB),
              \* "manifest" (the write of the blob manifest)
  MaxAdd      \* bound on requests for GC that come from compactions

ASSUME SchedulerAssumption ==
  /\ IsFiniteSet(CF) /\ IsFiniteSet(Thread) /\ IsFiniteSet(Dropper)
  /\ Closing \in BOOLEAN
  /\ Faults \subseteq {"base", "manifest"}
  /\ MaxAdd \in Nat

VARIABLES
  gc_queue,      \* gc_queue_
  unscheduled,   \* unscheduled_gc_
  scheduled,     \* bg_gc_scheduled_
  running,       \* bg_gc_running_
  drop_requests, \* drop_cf_requests_
  shutdown,      \* shuting_down_
  pool,          \* number of jobs in the queue of the thread pool
  exit_all,      \* exit_all_threads_ of the thread pool
  base,          \* column families of the base DB
  obsolete_columns, \* obsolete_columns_
  handles,       \* column families whose handle is not destroyed
  stored,        \* column families in column_families_ of the BlobFileSet
                 \* with files that are not obsolete
  tpc,           \* pool thread -> its program counter
  job,           \* pool thread -> the column family of its BlobGC
  dpc,           \* dropper -> its program counter
  dcf,           \* dropper -> the column family it drops
  cpc,           \* program counter of Close
  adds           \* number of requests so far

queueVars == <<gc_queue, unscheduled, scheduled, running>>
poolVars  == <<pool, exit_all>>
cfVars    == <<base, obsolete_columns, handles, stored>>
vars == <<queueVars, drop_requests, shutdown, poolVars, cfVars, tpc, job, dpc,
          dcf, cpc, adds>>

NoCF == "none"
max_background_gc == Cardinality(Thread)

\* "idle": waits for the pool.  "start": before the mutex.  "asleep": on
\* bg_cv_.  "gc": runs BlobGCJob.  "log": flushes the log buffer.
ThreadPC == {"idle", "start", "asleep", "gc", "log", "exited"}
\* "asleep" and "check": in the wait loop.  "base": drops in the base DB.
DropPC == {"idle", "asleep", "check", "base", "install", "done"}
ClosePC == {"open", "shutdown", "join", "joined", "asleep", "closed"}

-----------------------------------------------------------------------------
(* InitializeGC has put every column family in the queue.                  *)

Lower(m, n) == IF m < n THEN m ELSE n

\* MaybeScheduleGC, given the other counters: the number of jobs it submits.
Submits(u, s) == IF shutdown THEN 0 ELSE Lower(u, max_background_gc - s)

\* MaybeScheduleGC.
MaybeScheduleGC(u, s) ==
  LET n == Submits(u, s) IN
  /\ unscheduled' = u - n
  /\ scheduled' = s + n
  /\ pool' = pool + n

Init ==
  /\ gc_queue \in {q \in [1 .. Cardinality(CF) -> CF] :
                     \A c \in CF : \E i \in DOMAIN q : q[i] = c}
  /\ scheduled = Lower(Len(gc_queue), max_background_gc)
  /\ unscheduled = Len(gc_queue) - scheduled
  /\ running = 0
  /\ drop_requests = 0
  /\ shutdown = FALSE
  /\ pool = scheduled
  /\ exit_all = FALSE
  /\ base = CF
  /\ obsolete_columns = {}
  /\ handles = CF
  /\ stored = CF
  /\ tpc = [t \in Thread |-> "idle"]
  /\ job = [t \in Thread |-> NoCF]
  /\ dpc = [d \in Dropper |-> "idle"]
  /\ dcf = [d \in Dropper |-> NoCF]
  /\ cpc = "open"
  /\ adds = 0

\* bg_cv_.SignalAll(): every waiter will test its condition again.
SignalThreads == [t \in Thread |-> IF tpc[t] = "asleep" THEN "start" ELSE tpc[t]]
SignalDroppers == [d \in Dropper |-> IF dpc[d] = "asleep" THEN "check" ELSE dpc[d]]
SignalClose == IF cpc = "asleep" THEN "joined" ELSE cpc

-----------------------------------------------------------------------------
(* Requests and jobs.                                                      *)

\* The end of OnCompactionCompleted.
OnCompactionCompleted(c) ==
  /\ adds < MaxAdd
  /\ c \in base
  /\ cpc # "closed"
  /\ adds' = adds + 1
  /\ gc_queue' = Append(gc_queue, c)
  /\ MaybeScheduleGC(unscheduled + 1, scheduled)
  /\ UNCHANGED <<running, drop_requests, shutdown, exit_all, cfVars, tpc, job,
                 dpc, dcf, cpc>>

\* A pool thread takes a job; a thread that finds exit_all_threads_ set leaves,
\* whatever is in the queue.
BGThread(t) ==
  /\ tpc[t] = "idle"
  /\ \/ /\ exit_all
        /\ tpc' = [tpc EXCEPT ![t] = "exited"]
        /\ UNCHANGED pool
     \/ /\ ~exit_all
        /\ pool > 0
        /\ pool' = pool - 1
        /\ tpc' = [tpc EXCEPT ![t] = "start"]
  /\ UNCHANGED <<queueVars, drop_requests, shutdown, exit_all, cfVars, job, dpc,
                 dcf, cpc, adds>>

\* Mutant of BackgroundCallGC: it does not wait for drop requests.
BackgroundCallGCAlways(t, picks) ==
  LET c == gc_queue[1] IN
  /\ tpc[t] = "start"
  /\ gc_queue # <<>>
  /\ running' = running + 1
  /\ gc_queue' = Tail(gc_queue)
  /\ picks => c \in stored \ obsolete_columns
  /\ tpc' = [tpc EXCEPT ![t] = IF picks THEN "gc" ELSE "log"]
  /\ job' = [job EXCEPT ![t] = IF picks THEN c ELSE NoCF]
  /\ UNCHANGED <<unscheduled, scheduled, drop_requests, shutdown, poolVars,
                 cfVars, dpc, dcf, cpc, adds>>

\* BackgroundCallGC up to the point where BackgroundGC releases the mutex.  A
\* column family that is not obsolete may have files to collect: then a handle
\* of the base DB is made for the job.
BackgroundCallGC(t, picks) ==
  LET c == gc_queue[1] IN
  /\ tpc[t] = "start"
  /\ drop_requests = 0
  /\ running' = running + 1
  /\ IF gc_queue = <<>>
     THEN /\ ~picks
          /\ tpc' = [tpc EXCEPT ![t] = "log"]
          /\ UNCHANGED <<gc_queue, job>>
     ELSE /\ gc_queue' = Tail(gc_queue)
          /\ picks => c \in stored \ obsolete_columns
          /\ tpc' = [tpc EXCEPT ![t] = IF picks THEN "gc" ELSE "log"]
          /\ job' = [job EXCEPT ![t] = IF picks THEN c ELSE NoCF]
  /\ UNCHANGED <<unscheduled, scheduled, drop_requests, shutdown, poolVars,
                 cfVars, dpc, dcf, cpc, adds>>

\* BackgroundCallGC waits for the drop requests.
BackgroundCallGCWaits(t) ==
  /\ tpc[t] = "start"
  /\ drop_requests > 0
  /\ tpc' = [tpc EXCEPT ![t] = "asleep"]
  /\ UNCHANGED <<queueVars, drop_requests, shutdown, poolVars, cfVars, job, dpc,
                 dcf, cpc, adds>>

\* Mutant of BackgroundGC: the request is queued and not counted.
BackgroundGCUncounted(t, trigger_next) ==
  /\ tpc[t] = "gc"
  /\ tpc' = [tpc EXCEPT ![t] = "log"]
  /\ job' = [job EXCEPT ![t] = NoCF]
  /\ gc_queue' = IF trigger_next THEN Append(gc_queue, job[t]) ELSE gc_queue
  /\ UNCHANGED <<unscheduled, scheduled, running, drop_requests, shutdown,
                 poolVars, cfVars, dpc, dcf, cpc, adds>>

\* The end of BackgroundGC: the job is over, and puts its column family back
\* if there is more to collect and the queue is not overwhelmed.
BackgroundGC(t, trigger_next) ==
  /\ tpc[t] = "gc"
  /\ tpc' = [tpc EXCEPT ![t] = "log"]
  /\ job' = [job EXCEPT ![t] = NoCF]
  /\ IF trigger_next /\ scheduled - 1 + Len(gc_queue) < 2 * max_background_gc
     THEN /\ gc_queue' = Append(gc_queue, job[t])
          /\ unscheduled' = unscheduled + 1
     ELSE UNCHANGED <<gc_queue, unscheduled>>
  /\ UNCHANGED <<scheduled, running, drop_requests, shutdown, poolVars, cfVars,
                 dpc, dcf, cpc, adds>>

\* Mutant of EndCall: waiters are woken only when no job is scheduled.
EndCallSignalsLess(t) ==
  /\ tpc[t] = "log"
  /\ running' = running - 1
  /\ MaybeScheduleGC(unscheduled, scheduled - 1)
  /\ IF scheduled' = 0
     THEN /\ tpc' = [SignalThreads EXCEPT ![t] = "idle"]
          /\ dpc' = SignalDroppers
          /\ cpc' = SignalClose
     ELSE /\ tpc' = [tpc EXCEPT ![t] = "idle"]
          /\ UNCHANGED <<dpc, cpc>>
  /\ UNCHANGED <<gc_queue, drop_requests, shutdown, exit_all, cfVars, job, dcf,
                 adds>>

\* The end of BackgroundCallGC.
EndCall(t) ==
  /\ tpc[t] = "log"
  /\ running' = running - 1
  /\ MaybeScheduleGC(unscheduled, scheduled - 1)
  /\ IF scheduled' = 0 \/ running' = 0
     THEN /\ tpc' = [SignalThreads EXCEPT ![t] = "idle"]
          /\ dpc' = SignalDroppers
          /\ cpc' = SignalClose
     ELSE /\ tpc' = [tpc EXCEPT ![t] = "idle"]
          /\ UNCHANGED <<dpc, cpc>>
  /\ UNCHANGED <<gc_queue, drop_requests, shutdown, exit_all, cfVars, job, dcf,
                 adds>>

-----------------------------------------------------------------------------
(* Column families.                                                        *)

\* Mutant of WaitForGC: no wait.
WaitForNothing(d) == dpc' = [dpc EXCEPT ![d] = "base"]

\* The wait loop of DropColumnFamilies.
WaitForGC(d) ==
  dpc' = [dpc EXCEPT ![d] = IF running > 0 THEN "asleep" ELSE "base"]

\* DropColumnFamilies announces itself, and goes on when no job is running.
DropColumnFamilies(d, c) ==
  /\ dpc[d] = "idle"
  /\ c \in handles
  /\ \A e \in Dropper : dcf[e] # c
  /\ cpc = "open"
  /\ dcf' = [dcf EXCEPT ![d] = c]
  /\ drop_requests' = drop_requests + 1
  /\ WaitForGC(d)
  /\ UNCHANGED <<queueVars, shutdown, poolVars, cfVars, tpc, job, cpc, adds>>

DropColumnFamiliesWakes(d) ==
  /\ dpc[d] = "check"
  /\ WaitForGC(d)
  /\ UNCHANGED <<queueVars, drop_requests, shutdown, poolVars, cfVars, tpc, job,
                 dcf, cpc, adds>>

\* The drop in the base DB, without the mutex.  If it fails, the caller
\* returns and the request is not withdrawn.
BaseDrop(d) ==
  /\ dpc[d] = "base"
  /\ \/ /\ base' = base \ {dcf[d]}
        /\ dpc' = [dpc EXCEPT ![d] = "install"]
     \/ /\ "base" \in Faults
        /\ dpc' = [dpc EXCEPT ![d] = "done"]
        /\ UNCHANGED base
  /\ UNCHANGED <<queueVars, drop_requests, shutdown, poolVars, obsolete_columns, handles,
                 stored, tpc, job, dcf, cpc, adds>>

\* Mutant of InstallDrop: the last request wakes nobody.
InstallDropSilently(d) ==
  /\ dpc[d] = "install"
  /\ obsolete_columns' = obsolete_columns \cup {dcf[d]}
  /\ stored' = stored \ {dcf[d]}
  /\ drop_requests' = drop_requests - 1
  /\ dpc' = [dpc EXCEPT ![d] = "done"]
  /\ UNCHANGED <<queueVars, shutdown, poolVars, base, handles, tpc, job, dcf,
                 cpc, adds>>

\* BlobFileSet::DropColumnFamilies and the withdrawal of the request.
InstallDrop(d) ==
  /\ dpc[d] = "install"
  /\ \/ /\ obsolete_columns' = obsolete_columns \cup {dcf[d]}
        /\ stored' = stored \ {dcf[d]}
     \/ /\ "manifest" \in Faults
        /\ UNCHANGED <<obsolete_columns, stored>>
  /\ drop_requests' = drop_requests - 1
  /\ IF drop_requests' = 0
     THEN /\ tpc' = SignalThreads
          /\ dpc' = [SignalDroppers EXCEPT ![d] = "done"]
          /\ cpc' = SignalClose
     ELSE /\ dpc' = [dpc EXCEPT ![d] = "done"]
          /\ UNCHANGED <<tpc, cpc>>
  /\ UNCHANGED <<queueVars, shutdown, poolVars, base, handles, job, dcf, adds>>

\* The storage goes at once, unless it still has obsolete files.
DestroyColumnFamilyHandle(c) ==
  /\ c \in handles
  /\ \A d \in Dropper : dcf[d] = c => dpc[d] = "done"
  /\ cpc = "open"
  /\ handles' = handles \ {c}
  /\ obsolete_columns' = obsolete_columns \ {c}
  /\ stored' \in {stored, stored \ {c}}
  /\ UNCHANGED <<queueVars, drop_requests, shutdown, poolVars, base, tpc, job,
                 dpc, dcf, cpc, adds>>

\* The purge removes the storage of a destroyed column family.
GetObsoleteFiles(c) ==
  /\ c \in stored \ handles
  /\ cpc # "closed"
  /\ stored' = stored \ {c}
  /\ UNCHANGED <<queueVars, drop_requests, shutdown, poolVars, base, obsolete_columns,
                 handles, tpc, job, dpc, dcf, cpc, adds>>

-----------------------------------------------------------------------------
(* CloseImpl.                                                              *)

CloseImpl ==
  /\ Closing
  /\ cpc = "open"
  /\ \A d \in Dropper : dpc[d] \in {"idle", "done"}
  /\ shutdown' = TRUE
  /\ cpc' = "shutdown"
  /\ UNCHANGED <<queueVars, drop_requests, poolVars, cfVars, tpc, job, dpc, dcf,
                 adds>>

\* JoinAllThreads of the pool tells its threads to leave ...
JoinAllThreads ==
  /\ cpc = "shutdown"
  /\ exit_all' = TRUE
  /\ cpc' = "join"
  /\ UNCHANGED <<queueVars, drop_requests, shutdown, pool, cfVars, tpc, job, dpc,
                 dcf, adds>>

\* ... and waits until they have.
Joined ==
  /\ cpc = "join"
  /\ \A t \in Thread : tpc[t] = "exited"
  /\ cpc' = "joined"
  /\ UNCHANGED <<queueVars, drop_requests, shutdown, poolVars, cfVars, tpc, job,
                 dpc, dcf, adds>>

\* The loop that waits for bg_gc_scheduled_ to be 0.
CloseWaits ==
  /\ cpc = "joined"
  /\ cpc' = IF scheduled > 0 THEN "asleep" ELSE "closed"
  /\ UNCHANGED <<queueVars, drop_requests, shutdown, poolVars, cfVars, tpc, job,
                 dpc, dcf, adds>>

-----------------------------------------------------------------------------
ThreadNext(t) ==
  \/ BGThread(t)
  \/ \E picks \in BOOLEAN : BackgroundCallGC(t, picks)
  \/ BackgroundCallGCWaits(t)
  \/ \E trigger_next \in BOOLEAN : BackgroundGC(t, trigger_next)
  \/ EndCall(t)

DropNext(d) ==
  \/ DropColumnFamiliesWakes(d)
  \/ BaseDrop(d)
  \/ InstallDrop(d)

CloseNext == JoinAllThreads \/ Joined \/ CloseWaits

Next ==
  \/ \E t \in Thread : ThreadNext(t)
  \/ \E d \in Dropper : DropNext(d)
  \/ CloseNext
  \/ \E c \in CF : OnCompactionCompleted(c)
  \/ \E d \in Dropper, c \in CF : DropColumnFamilies(d, c)
  \/ \E c \in CF : DestroyColumnFamilyHandle(c) \/ GetObsoleteFiles(c)
  \/ CloseImpl

Spec == Init /\ [][Next]_vars

\* Threads run, jobs end, and a mutex is granted in the end.  Nothing makes
\* users call DropColumnFamilies or Close, or compactions complete.
FairSpec ==
  /\ Spec
  /\ \A t \in Thread : WF_vars(ThreadNext(t))
  /\ \A d \in Dropper : WF_vars(DropNext(d))
  /\ WF_vars(CloseNext)

-----------------------------------------------------------------------------
(* Properties.                                                             *)

\* The variables stay within their types.
TypeOK ==
  /\ gc_queue \in Seq(CF)
  /\ unscheduled \in Nat
  /\ scheduled \in 0 .. max_background_gc
  /\ running \in 0 .. max_background_gc
  /\ drop_requests \in 0 .. Cardinality(Dropper)
  /\ shutdown \in BOOLEAN
  /\ pool \in 0 .. max_background_gc
  /\ exit_all \in BOOLEAN
  /\ base \subseteq CF /\ obsolete_columns \subseteq CF
  /\ handles \subseteq CF /\ stored \subseteq CF
  /\ tpc \in [Thread -> ThreadPC]
  /\ job \in [Thread -> CF \cup {NoCF}]
  /\ dpc \in [Dropper -> DropPC]
  /\ dcf \in [Dropper -> CF \cup {NoCF}]
  /\ cpc \in ClosePC
  /\ adds \in 0 .. MaxAdd

Threads(pcs) == {t \in Thread : tpc[t] \in pcs}

\* Each request in gc_queue_ has a job of its own, submitted or still to be:
\* none is forgotten, and the job that comes to the queue finds it there.
QueueAccounted ==
  /\ Len(gc_queue) = unscheduled + pool + Cardinality(Threads({"start", "asleep"}))
  /\ scheduled = pool + Cardinality(Threads({"start", "asleep", "gc", "log"}))
  /\ running = Cardinality(Threads({"gc", "log"}))

\* While column families are dropped in the base DB, no GC job runs.
DropExclusive ==
  \A d \in Dropper : dpc[d] \in {"base", "install"} =>
    Threads({"gc", "log"}) = {}

\* A GC job works on a column family of the base DB, so that the handle that
\* BackgroundGC makes for it exists.
GCHasHandle ==
  \A t \in Thread : tpc[t] = "gc" => job[t] \in base

\* What CloseImpl says of the pool (db_impl.cc:404): after JoinAllThreads no job
\* is scheduled.
JoinedIdle ==
  cpc \in {"joined", "asleep", "closed"} => scheduled = 0

\* A drop that waits for running jobs ends, whatever else is queued.
DropTerminates ==
  \A d \in Dropper : (dpc[d] \in {"asleep", "check"}) ~> (dpc[d] = "done")

\* A drop that failed in the base DB has left its request behind.
RequestLeft ==
  drop_requests > Cardinality({d \in Dropper : dpc[d] \notin {"idle", "done"}})

\* A request for GC leads to a running job: a thread that waits for drops is
\* woken when they are over, and a job that ends schedules what is left.  Only
\* Close and a drop that failed in the base DB may keep it waiting.
GCProgress ==
  (gc_queue # <<>>) ~>
    (Threads({"gc", "log"}) # {} \/ shutdown \/ RequestLeft)
=============================================================================

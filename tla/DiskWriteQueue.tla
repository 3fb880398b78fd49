--------------------------- MODULE DiskWriteQueue ---------------------------
(***************************************************************************)
(* packages/server/src/services/diskWriteQueue.ts: checkpoint files are    *)
(* written by one worker thread, so that the main thread (which is also    *)
(* the Electron UI thread) never waits for fsync.  Three parties share     *)
(* state: the main thread, the worker thread, and the file system.  They   *)
(* communicate by two message ports and by a SharedArrayBuffer holding a   *)
(* flush generation and a commit lock.                                     *)
(*                                                                         *)
(* A payload is a whole snapshot of one file, so a job is [id, path] and   *)
(* its id doubles as the version of the content it carries: only order     *)
(* and equality of ids matter, and a synchronous save takes one as well.   *)
(***************************************************************************)
EXTENDS Integers, Sequences, FiniteSets

CONSTANTS
    Paths,           \* the checkpoint files
    MaxQueuedJobs,   \* MAX_QUEUED_JOBS: jobs the queue may hold
    MaxSaves,        \* bound: saves the callers make
    MaxGeneration,   \* bound: flushes that raise the generation
    MaxFaults,       \* bound: file operations that fail
    MaxSlowCommits   \* bound: commits of a live worker that outlast the wait

ASSUME QueueAssumption ==
    /\ MaxQueuedJobs \in Nat \ {0}
    /\ {MaxSaves, MaxGeneration, MaxFaults, MaxSlowCommits} \subseteq Nat

None == 0   \* ids start at 1

Job    == [id : Nat \ {0}, path : Paths]
Task   == [id : Nat \ {0}, path : Paths, gen : Nat]
Result == [id : Nat \ {0}, gen : Nat, outcome : {"ok", "aborted", "error"}]

VARIABLES
    (* main thread *)
    pc,           \* "idle" = in the event loop; else inside a synchronous call
    after,        \* where a flush returns to
    todo,         \* jobs the running flush has not tried yet
    saving,       \* the job being saved by the caller itself
    pending,      \* jobs not known to be on disk (insertion order = id order)
    inFlight,     \* id of the job handed to the worker, or None
    failedPaths,  \* files resting until the next autosave or flush
    enabled,      \* the queue takes jobs
    attached,     \* worker # null
    hasControl,   \* commitControl # null
    nextJobId,
    (* SharedArrayBuffer *)
    generation, lock,
    (* worker thread and the two message ports *)
    thread, wpc, task, inbox, results,
    (* file system: the version each file holds *)
    disk,
    (* history: newest version taken over for each file; bounded faults *)
    accepted, faults, slow

mainVars   == <<pc, after, todo, saving>>
queueVars  == <<pending, inFlight, failedPaths, enabled, attached, hasControl, nextJobId>>
shared     == <<generation, lock>>
workerVars == <<thread, wpc, task, inbox, results>>
bounds     == <<faults, slow>>
vars == <<pc, after, todo, saving, pending, inFlight, failedPaths, enabled, attached,
          hasControl, nextJobId, generation, lock, thread, wpc, task, inbox, results,
          disk, accepted, faults, slow>>

NoTask == [id |-> None]
NoSave == [id |-> None]

AsyncEnabled == enabled /\ attached

(* Maps iterate in insertion order, which is the order of the ids. *)
First(jobs) == {j \in jobs : \A k \in jobs : j.id <= k.id}

(* acknowledgeWrite(): versions of p up to `through` are settled. *)
AcknowledgeAllVersions(p, through) == /\ pending' = {j \in pending : j.path # p}
                                      /\ failedPaths' = failedPaths \ {p}
Acknowledge(p, through) ==
    /\ pending' = {j \in pending : ~(j.path = p /\ j.id <= through)}
    /\ failedPaths' = failedPaths \ {p}

(* The jobs that stay when a new version of p is queued: an older version  *)
(* is dropped unless the worker has it.                                    *)
KeepEveryVersion(p) == pending
NotSuperseded(p) == {j \in pending : j.path # p \/ j.id = inFlight}

(* What pump() posts to the worker. *)
MessageWithoutGeneration(job) == [id |-> job.id, path |-> job.path]
Message(job) == [id |-> job.id, path |-> job.path, gen |-> generation']

(***************************************************************************)
(* pump(): hand the first job of a healthy file to the worker, unless one  *)
(* is in flight.  It ends many handlers, so it reads the values they leave *)
(* behind; `current` is the in-flight id they leave.                       *)
(***************************************************************************)
Pump(current) ==
    LET ready == {j \in pending' : j.path \notin failedPaths'}
    IN  IF enabled' /\ attached' /\ current = None /\ ready # {}
        THEN \E next \in First(ready) : /\ inFlight' = next.id
                                       /\ inbox' = Append(inbox, Message(next))
        ELSE /\ inFlight' = current
             /\ UNCHANGED inbox

(***************************************************************************)
(* The head of flushPendingDiskWritesSync(), up to the wait for the lock.  *)
(* With nothing pending it returns at once; without a control block there  *)
(* is no worker left to exclude.                                           *)
(***************************************************************************)
StartFlushInSameGeneration(returnTo) ==
    \/ /\ pending = {}
       /\ pc' = returnTo
       /\ UNCHANGED <<after, todo, generation>>
    \/ /\ pending # {}
       /\ pc' = IF hasControl' THEN "lock" ELSE "write"
       /\ todo' = IF hasControl' THEN todo ELSE pending
       /\ after' = returnTo
       /\ UNCHANGED generation
StartFlush(returnTo) ==
    \/ /\ pending = {}
       /\ pc' = returnTo
       /\ UNCHANGED <<after, todo, generation>>
    \/ /\ pending # {} /\ hasControl'
       /\ generation < MaxGeneration
       /\ generation' = generation + 1
       /\ pc' = "lock"
       /\ after' = returnTo
       /\ UNCHANGED todo
    \/ /\ pending # {} /\ ~hasControl'
       /\ pc' = "write"
       /\ after' = returnTo
       /\ todo' = pending
       /\ UNCHANGED generation

(* One file operation: it fails only while the fault bound allows. *)
MayFail == /\ faults < MaxFaults
           /\ faults' = faults + 1

WriteFile(job) == /\ disk' = [disk EXCEPT ![job.path] = job.id]
                  /\ UNCHANGED faults
-----------------------------------------------------------------------------
Init ==
    /\ pc = "idle" /\ after = "idle" /\ todo = {} /\ saving = NoSave
    /\ pending = {} /\ inFlight = None /\ failedPaths = {}
    /\ enabled = FALSE /\ attached = FALSE /\ hasControl = FALSE
    /\ nextJobId = 1
    /\ generation = 0 /\ lock = "free"
    /\ thread = "none" /\ wpc = "idle" /\ task = NoTask
    /\ inbox = <<>> /\ results = <<>>
    /\ disk = [p \in Paths |-> 0]
    /\ accepted = [p \in Paths |-> 0]
    /\ faults = 0 /\ slow = 0

(* enableAsyncDiskWrites(), called once by runServer(); a worker that does *)
(* not start leaves everything as it was.                                  *)
EnableAsyncDiskWrites ==
    /\ pc = "idle" /\ thread = "none"
    /\ thread' = "running"
    /\ enabled' = TRUE /\ attached' = TRUE /\ hasControl' = TRUE
    /\ generation' = 0 /\ lock' = "free"
    /\ failedPaths' = {}
    /\ UNCHANGED pending
    /\ Pump(inFlight)
    /\ UNCHANGED <<mainVars, nextJobId, wpc, task, results, disk, accepted, bounds>>

(* queueAtomicWrite() returning true: older versions of the file that no   *)
(* worker has been given are dropped in favour of this one.                *)
SaveQueued(p) ==
    LET job == [id |-> nextJobId, path |-> p]
    IN  /\ pc = "idle" /\ nextJobId <= MaxSaves
        /\ AsyncEnabled
        /\ Cardinality(pending) < MaxQueuedJobs
        /\ pending' = NotSuperseded(p) \union {job}
        /\ nextJobId' = nextJobId + 1
        /\ failedPaths' = failedPaths \ {p}
        /\ accepted' = [accepted EXCEPT ![p] = job.id]
        /\ UNCHANGED <<enabled, attached, hasControl, generation>>
        /\ Pump(inFlight)
        /\ UNCHANGED <<mainVars, lock, thread, wpc, task, results, disk, bounds>>

(* queueAtomicWrite() returning false: no worker, a full queue, a payload  *)
(* too large or a missing directory (the last two can happen to any call). *)
(* What is pending is flushed first, then the caller writes by itself.     *)
SaveFallsBack(p) ==
    /\ pc = "idle" /\ nextJobId <= MaxSaves
    /\ saving' = [id |-> nextJobId, path |-> p]
    /\ nextJobId' = nextJobId + 1
    /\ UNCHANGED hasControl
    /\ StartFlush("sync")
    /\ UNCHANGED <<pending, inFlight, failedPaths, enabled, attached, lock,
                   workerVars, disk, accepted, bounds>>

(* The caller's own write, and acknowledgeSynchronousDiskWrite(): every    *)
(* older version of the file is settled.  A failing write throws instead.  *)
SyncSave ==
    /\ pc = "sync"
    /\ pc' = "idle" /\ saving' = NoSave
    /\ \/ /\ WriteFile(saving)
          /\ accepted' = [accepted EXCEPT ![saving.path] = saving.id]
          /\ Acknowledge(saving.path, nextJobId - 1)
       \/ /\ MayFail
          /\ UNCHANGED <<disk, accepted, pending, failedPaths>>
    /\ UNCHANGED <<after, todo, inFlight, enabled, attached, hasControl, nextJobId,
                   shared, workerVars, slow>>
-----------------------------------------------------------------------------
(* A loader flushes before it reads a checkpoint file. *)
ReadWithoutFlush ==
    /\ pc = "idle" /\ pc' = "read"
    /\ UNCHANGED <<after, todo, saving, queueVars, shared, workerVars, disk, accepted, bounds>>
ReadThroughQueue ==
    /\ pc = "idle"
    /\ UNCHANGED hasControl
    /\ StartFlush("read")
    /\ UNCHANGED <<saving, pending, inFlight, failedPaths, enabled, attached, nextJobId,
                   lock, workerVars, disk, accepted, bounds>>

ReadFile == /\ pc = "read" /\ pc' = "idle"
            /\ UNCHANGED <<after, todo, saving, queueVars, shared, workerVars, disk,
                           accepted, bounds>>

(* retryFailedDiskWrites(): every autosave gives resting files a chance. *)
RetryFailedDiskWrites ==
    /\ pc = "idle" /\ failedPaths # {}
    /\ UNCHANGED <<pending, enabled, attached, hasControl>>
    /\ \/ /\ ~AsyncEnabled
          /\ StartFlush("idle")
          /\ UNCHANGED <<inFlight, failedPaths, inbox>>
       \/ /\ AsyncEnabled
          /\ failedPaths' = {}
          /\ UNCHANGED <<pc, after, todo, generation>>
          /\ Pump(inFlight)
    /\ UNCHANGED <<saving, nextJobId, lock, thread, wpc, task, results, disk, accepted, bounds>>

(* shutdownDiskWriteQueue(): flush, then drop the worker.  Its exit event  *)
(* will find another `worker` and do nothing, so the control block stays.  *)
ShutdownDiskWriteQueue ==
    /\ pc = "idle"
    /\ UNCHANGED hasControl
    /\ StartFlush("shutdown")
    /\ UNCHANGED <<saving, pending, inFlight, failedPaths, enabled, attached, nextJobId,
                   lock, workerVars, disk, accepted, bounds>>

FinishShutdown ==
    /\ pc = "shutdown" /\ pc' = "idle"
    /\ enabled' = FALSE /\ attached' = FALSE /\ inFlight' = None
    /\ UNCHANGED <<after, todo, saving, pending, failedPaths, hasControl, nextJobId,
                   shared, workerVars, disk, accepted, bounds>>

(* process.on('exit'): one last flush, after which only ProcessEnds is left. *)
ProcessExit ==
    /\ pc = "idle"
    /\ UNCHANGED hasControl
    /\ StartFlush("exit")
    /\ UNCHANGED <<saving, pending, inFlight, failedPaths, enabled, attached, nextJobId,
                   lock, workerVars, disk, accepted, bounds>>
-----------------------------------------------------------------------------
(* flushPendingDiskWritesSync(): the commit lock is free and now ours. *)
FlushWithoutWaiting ==
    /\ pc = "lock"
    /\ lock' = "main" /\ pc' = "write" /\ todo' = pending
    /\ UNCHANGED <<after, saving, queueVars, generation, workerVars, disk, accepted, bounds>>
FlushLocks ==
    /\ pc = "lock" /\ lock = "free"
    /\ lock' = "main" /\ pc' = "write" /\ todo' = pending
    /\ UNCHANGED <<after, saving, queueVars, generation, workerVars, disk, accepted, bounds>>

(* The wait for the lock ran into COMMIT_LOCK_WAIT_MS: every pending file  *)
(* rests, and the exception ends the save, read or shutdown that asked.    *)
(* The holder is dead, or alive and slower than the wait.                  *)
FlushTimesOut ==
    /\ pc = "lock" /\ lock = "worker"
    /\ \/ thread = "stopped" /\ UNCHANGED slow
       \/ thread = "running" /\ slow < MaxSlowCommits /\ slow' = slow + 1
    /\ failedPaths' = failedPaths \union {j.path : j \in pending}
    /\ pc' = IF after = "exit" THEN "gone" ELSE "idle"
    /\ saving' = NoSave /\ after' = "idle"
    /\ UNCHANGED <<todo, pending, inFlight, enabled, attached, hasControl,
                   nextJobId, shared, workerVars, disk, accepted, faults>>

(* One turn of the flush loop, oldest job first. *)
FlushWrites ==
    /\ pc = "write"
    /\ \E job \in First(todo) :
         /\ todo' = todo \ {job}
         /\ \/ /\ WriteFile(job)
               /\ Acknowledge(job.path, job.id)
            \/ /\ MayFail
               /\ failedPaths' = failedPaths \union {job.path}
               /\ UNCHANGED <<disk, pending>>
    /\ UNCHANGED <<pc, after, saving, inFlight, enabled, attached, hasControl,
                   nextJobId, shared, workerVars, accepted, slow>>

FlushReturnsKeepingInFlight ==
    /\ pc = "write" /\ todo = {}
    /\ pc' = after /\ after' = "idle"
    /\ lock' = IF hasControl THEN "free" ELSE lock
    /\ UNCHANGED <<pending, failedPaths, enabled, attached, hasControl, generation>>
    /\ Pump(inFlight)
    /\ UNCHANGED <<todo, saving, nextJobId, thread, wpc, task, results, disk,
                   accepted, bounds>>
FlushReturns ==
    /\ pc = "write" /\ todo = {}
    /\ pc' = after /\ after' = "idle"
    /\ lock' = IF hasControl THEN "free" ELSE lock
    /\ UNCHANGED <<pending, failedPaths, enabled, attached, hasControl, generation>>
    /\ Pump(None)
    /\ UNCHANGED <<todo, saving, nextJobId, thread, wpc, task, results, disk,
                   accepted, bounds>>
-----------------------------------------------------------------------------
(* handleResult() of a result whose generation a flush has closed, or from *)
(* a worker that is no longer ours: nothing changes.                       *)
IgnoreResult ==
    /\ pc = "idle" /\ results # <<>>
    /\ ~attached \/ Head(results).gen # generation
    /\ results' = Tail(results)
    /\ UNCHANGED <<mainVars, queueVars, shared, thread, wpc, task, inbox, disk, accepted, bounds>>

(* handleResult() of a current result.  An error is retried here, on the   *)
(* main thread and without the lock; when that fails too, the job yields   *)
(* to a newer version or its file rests.  (A current result whose job is   *)
(* not pending, or that is "aborted", cannot occur: CurrentWorkIsPending.) *)
HandleResult ==
    LET r == Head(results)
    IN  /\ pc = "idle" /\ results # <<>>
        /\ attached /\ r.gen = generation
        /\ results' = Tail(results)
        /\ \E job \in {j \in pending : j.id = r.id} :
             \/ /\ r.outcome = "ok"
                /\ Acknowledge(job.path, job.id)
                /\ UNCHANGED <<disk, faults>>
             \/ /\ r.outcome = "error"
                /\ WriteFile(job)
                /\ Acknowledge(job.path, job.id)
             \/ /\ r.outcome = "error"
                /\ MayFail
                /\ IF \E k \in pending : k.path = job.path /\ k.id > job.id
                   THEN pending' = pending \ {job} /\ UNCHANGED failedPaths
                   ELSE failedPaths' = failedPaths \union {job.path} /\ UNCHANGED pending
                /\ UNCHANGED disk
        /\ UNCHANGED <<enabled, attached, hasControl, generation>>
        /\ Pump(IF inFlight = r.id THEN None ELSE inFlight)
        /\ UNCHANGED <<mainVars, nextJobId, lock, thread, wpc, task, accepted, slow>>

(* The worker's 'error' event: stop queueing.  It does not prove that the  *)
(* worker has stopped committing; only 'exit' does.                        *)
WorkerErrorEvent ==
    /\ pc = "idle" /\ AsyncEnabled
    /\ enabled' = FALSE
    /\ UNCHANGED <<mainVars, pending, inFlight, failedPaths, attached, hasControl,
                   nextJobId, shared, workerVars, disk, accepted, bounds>>

(* The worker's 'exit' event: the thread is gone for certain, so the rest  *)
(* of the queue is written without its lock.                               *)
WorkerExitEvent ==
    /\ pc = "idle" /\ attached /\ thread = "stopped"
    /\ enabled' = FALSE /\ attached' = FALSE /\ hasControl' = FALSE /\ inFlight' = None
    /\ StartFlush("idle")
    /\ UNCHANGED <<saving, pending, failedPaths, nextJobId, lock, workerVars, disk,
                   accepted, bounds>>
-----------------------------------------------------------------------------
(* The worker thread.  "idle": waiting for a message; "ready": temporary   *)
(* file written; "held": lock taken; "rename": generation checked, about   *)
(* to commit; "ok", "aborted", "error": the message to post.               *)
WorkerGoes(next) == /\ wpc' = next
                   /\ UNCHANGED <<mainVars, queueVars, generation, thread, accepted, slow>>

WorkerTakes ==
    /\ thread = "running" /\ wpc = "idle" /\ inbox # <<>>
    /\ task' = Head(inbox) /\ inbox' = Tail(inbox)
    /\ \/ WorkerGoes("ready") /\ UNCHANGED faults
       \/ WorkerGoes("error") /\ MayFail
    /\ UNCHANGED <<lock, results, disk>>

WorkerLocks ==
    /\ thread = "running" /\ wpc = "ready" /\ lock = "free"
    /\ lock' = "worker"
    /\ WorkerGoes("held")
    /\ UNCHANGED <<task, inbox, results, disk, faults>>

(* The generation is read inside the lock, but a flush may raise it before *)
(* the rename: that flush then waits for the lock.                         *)
CommitUnchecked ==
    /\ thread = "running" /\ wpc = "held"
    /\ WorkerGoes("rename")
    /\ UNCHANGED <<lock, task, inbox, results, disk, faults>>
WorkerChecks ==
    /\ thread = "running" /\ wpc = "held"
    /\ WorkerGoes(IF generation = task.gen THEN "rename" ELSE "aborted")
    /\ UNCHANGED <<lock, task, inbox, results, disk, faults>>

WorkerRenames ==
    /\ thread = "running" /\ wpc = "rename"
    /\ \/ WorkerGoes("ok") /\ WriteFile(task)
       \/ WorkerGoes("error") /\ MayFail /\ UNCHANGED disk
    /\ UNCHANGED <<lock, task, inbox, results>>

(* Release the lock (the error of a temporary file never took it) and post. *)
WorkerPosts ==
    /\ thread = "running" /\ wpc \in {"ok", "aborted", "error"}
    /\ lock' = IF lock = "worker" THEN "free" ELSE lock
    /\ results' = Append(results, [id |-> task.id, gen |-> task.gen, outcome |-> wpc])
    /\ task' = NoTask
    /\ WorkerGoes("idle")
    /\ UNCHANGED <<inbox, disk, faults>>

(* The thread ends wherever it is, with or without the lock: an uncaught   *)
(* error, or terminate().                                                  *)
WorkerStops ==
    /\ thread = "running" /\ thread' = "stopped"
    /\ UNCHANGED <<mainVars, queueVars, shared, wpc, task, inbox, results, disk, accepted, bounds>>

(* A crash anywhere, or the end of an orderly exit: only the files remain, *)
(* and the next process starts from them.                                  *)
ProcessEnds ==
    /\ pc' = "idle" /\ after' = "idle" /\ todo' = {} /\ saving' = NoSave
    /\ pending' = {} /\ inFlight' = None /\ failedPaths' = {}
    /\ enabled' = FALSE /\ attached' = FALSE /\ hasControl' = FALSE
    /\ generation' = 0 /\ lock' = "free"
    /\ thread' = "none" /\ wpc' = "idle" /\ task' = NoTask
    /\ inbox' = <<>> /\ results' = <<>>
    /\ accepted' = disk
    /\ UNCHANGED <<nextJobId, disk, bounds>>
-----------------------------------------------------------------------------
MainStep == \/ FlushLocks \/ FlushTimesOut \/ FlushWrites \/ FlushReturns
            \/ SyncSave \/ ReadFile \/ FinishShutdown
            \/ IgnoreResult \/ HandleResult \/ WorkerExitEvent

(* worker.terminate() was called: the thread does end. *)
TerminatedWorkerStops == ~enabled /\ WorkerStops

(* An exiting process is soon gone. *)
ExitCompletes == pc \in {"exit", "gone"} /\ ProcessEnds

WorkerStep == WorkerTakes \/ WorkerLocks \/ WorkerChecks \/ WorkerRenames \/ WorkerPosts

Caller == \/ \E p \in Paths : SaveQueued(p) \/ SaveFallsBack(p)
          \/ ReadThroughQueue \/ EnableAsyncDiskWrites
          \/ ShutdownDiskWriteQueue \/ ProcessExit

Next == \/ MainStep \/ WorkerStep \/ Caller \/ RetryFailedDiskWrites
        \/ WorkerErrorEvent \/ WorkerStops \/ ProcessEnds

Spec == Init /\ [][Next]_vars

(* The event loop and the worker thread run whenever they can, and the     *)
(* application keeps autosaving.  Nothing obliges a healthy thread or the  *)
(* process to stop, a loader to read, or a caller to save.                 *)
FairSpec == /\ Spec
            /\ WF_vars(MainStep)
            /\ WF_vars(WorkerStep)
            /\ WF_vars(TerminatedWorkerStops)
            /\ WF_vars(ExitCompletes)
            /\ WF_vars(RetryFailedDiskWrites)
-----------------------------------------------------------------------------
(* Work the worker may still commit, or has committed, for the current     *)
(* generation of an attached queue, or that it is committing regardless.   *)
Current(work) == attached /\ work.gen = generation
Elements(seq) == {seq[i] : i \in DOMAIN seq}

(* The types of the variables, by owner. *)
FlagsOK == enabled \in BOOLEAN /\ attached \in BOOLEAN /\ hasControl \in BOOLEAN
MainOK ==
    /\ pc \in {"idle", "lock", "write", "sync", "read", "shutdown", "exit", "gone"}
    /\ after \in {"idle", "sync", "read", "shutdown", "exit"}
    /\ saving \in Job \union {NoSave}
    /\ nextJobId \in Nat \ {0}
    /\ generation \in Nat
    /\ lock \in {"free", "main", "worker"}
    /\ faults \in Nat /\ slow \in Nat
QueueOK ==
    /\ todo \subseteq Job /\ pending \subseteq Job
    /\ inFlight \in Nat
    /\ failedPaths \subseteq Paths
WorkerOK ==
    /\ thread \in {"none", "running", "stopped"}
    /\ wpc \in {"idle", "ready", "held", "rename", "ok", "aborted", "error"}
    /\ wpc # "idle" => task \in Task
    /\ wpc = "idle" => task = NoTask
    /\ inbox \in Seq(Task) /\ results \in Seq(Result)
DiskOK == disk \in [Paths -> Nat] /\ accepted \in [Paths -> Nat]
TypeOK == FlagsOK /\ MainOK /\ QueueOK /\ WorkerOK /\ DiskOK

(* No file is ever replaced by an older snapshot, whichever of the worker, *)
(* the flush loop, the synchronous retry and the caller's own write comes  *)
(* last, and across crashes.                                               *)
FilesNeverRegress == [][\A p \in Paths : disk'[p] >= disk[p]]_vars

(* The newest snapshot taken over for a file is on disk or is still held   *)
(* in `pending`: failures, timeouts, worker deaths, coalescing and late    *)
(* results never drop it.                                                  *)
NothingLost ==
    \A p \in Paths : disk[p] < accepted[p] => \E j \in pending : j.path = p /\ j.id = accepted[p]

(* Whatever the worker still has of the current generation, in a message   *)
(* port or in hand, belongs to the one job in flight, which `pending`      *)
(* still holds as the oldest of its file; and no current result reports an *)
(* abort (so that branch of handleResult() never runs).                    *)
CurrentWorkIsPending ==
    /\ \A r \in Elements(results) : Current(r) => r.outcome # "aborted"
    /\ \A w \in Elements(results) \union Elements(inbox) \union ({task} \ {NoTask}) :
          Current(w) =>
              /\ inFlight = w.id
              /\ \E j \in pending : /\ j.id = w.id
                                   /\ \A k \in pending : k.path = j.path => j.id <= k.id

(* While the main thread writes files in a flush, no live worker is past   *)
(* the generation check of a commit.                                       *)
CommitExclusion == pc = "write" => ~(thread = "running" /\ wpc = "rename")

(* A loader that was let through reads the newest snapshot of every file   *)
(* that is not resting after a failure; the same holds when an orderly     *)
(* exit is over.                                                           *)
ReadsAreFresh ==
    pc \in {"read", "exit"} => \A p \in Paths : disk[p] = accepted[p] \/ p \in failedPaths

(* The queue holds at most two versions of a file (one in flight or        *)
(* failed, one newer), so its size is bounded by the number of files.      *)
TwoVersionsPerFile ==
    \A p \in Paths : Cardinality({j \in pending : j.path = p}) <= 2

(* The queue was shut down: the rest is the business of the process exit. *)
ShutDown == thread # "none" /\ ~attached /\ hasControl

(* Every accepted snapshot, or a newer one, reaches its file, unless the   *)
(* queue is shut down (or the process ends, which revokes the acceptance)  *)
(* or a commit has outlasted the wait of a flush.                          *)
EventuallyOnDisk ==
    \A p \in Paths : disk[p] < accepted[p] ~> disk[p] = accepted[p] \/ ShutDown \/ slow > 0

(* diskWriteQueue.ts:281 about the wait that times out: "pending is kept   *)
(* for the next autosave or the confirmed exit".                           *)
TimedOutWritesAreRecovered ==
    \A p \in Paths :
        slow > 0 /\ disk[p] < accepted[p] ~> disk[p] = accepted[p] \/ ShutDown

(* The queue implements the plain promise of DurableFiles. *)
Files == INSTANCE DurableFiles
ImplementsDurableFiles == Files!Spec
=============================================================================

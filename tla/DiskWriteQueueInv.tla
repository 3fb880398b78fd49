------------------------- MODULE DiskWriteQueueInv -------------------------
(***************************************************************************)
(* The inductive invariant behind the safety theorems of DiskWriteQueue.   *)
(* It has no TLAPS in it, so that TLC can evaluate it too.                 *)
(***************************************************************************)
EXTENDS DiskWriteQueue

(* Ids are handed out in order; no two pending jobs share one. *)
IdsInOrder ==
    /\ \A j \in pending : j.id < nextJobId
    /\ \A j, k \in pending : j.id = k.id => j = k
    /\ \A p \in Paths : disk[p] <= accepted[p] /\ accepted[p] < nextJobId
    /\ pc \in {"lock", "write", "sync"} /\ (pc = "sync" \/ after = "sync") =>
          /\ saving \in Job
          /\ saving.id = nextJobId - 1
          /\ \A p \in Paths : accepted[p] < saving.id

(* A pending job is never older than its file. *)
PendingIsNewer == \A j \in pending : disk[j.path] <= j.id /\ j.id <= accepted[j.path]

(* Who may be where: the control block, the lock and the threads. *)
Control ==
    /\ attached => hasControl /\ thread # "none"
    /\ ~hasControl => thread # "running"
    /\ pc = "lock" => hasControl
    /\ lock = "main" <=> pc = "write" /\ hasControl
    /\ wpc \in {"held", "rename", "ok", "aborted"} => lock = "worker"
    /\ thread = "none" => /\ inbox = <<>> /\ results = <<>> /\ wpc = "idle"
                          /\ inFlight = None /\ pending = {}
                          /\ ~attached /\ ~hasControl

(* No message is of a generation that has not begun; an abort is of one    *)
(* that is over.                                                           *)
Generations ==
    /\ \A i \in 1..Len(inbox) : inbox[i].gen <= generation
    /\ \A i \in 1..Len(results) :
          /\ results[i].gen <= generation
          /\ results[i].outcome = "aborted" => results[i].gen < generation
    /\ wpc # "idle" => task.gen <= generation
    /\ wpc = "aborted" => task.gen < generation

(* The job with this id is pending, and the oldest of its file. *)
OldestOfItsFile(id) ==
    \E j \in pending : j.id = id /\ \A k \in pending : k.path = j.path => j.id <= k.id

(* Work in hand that may still be committed, or whose result will count. *)
HandIsLive == wpc # "idle" /\ (task.gen = generation \/ wpc = "rename")

(* A live piece of work is the one job in flight. *)
InFlightWork ==
    attached =>
        /\ \A i \in 1..Len(inbox) : inbox[i].gen = generation =>
              /\ inFlight = inbox[i].id /\ OldestOfItsFile(inbox[i].id)
              /\ [id |-> inbox[i].id, path |-> inbox[i].path] \in pending
        /\ \A i \in 1..Len(results) : results[i].gen = generation =>
              inFlight = results[i].id /\ OldestOfItsFile(results[i].id)
        /\ HandIsLive =>
              /\ inFlight = task.id /\ OldestOfItsFile(task.id)
              /\ [id |-> task.id, path |-> task.path] \in pending

(* There is at most one live piece of work, wherever it is. *)
OnePiece ==
    attached =>
        /\ \A i, k \in 1..Len(inbox) :
              inbox[i].gen = generation /\ inbox[k].gen = generation => i = k
        /\ \A i, k \in 1..Len(results) :
              results[i].gen = generation /\ results[k].gen = generation => i = k
        /\ \A i \in 1..Len(inbox), k \in 1..Len(results) :
              ~(inbox[i].gen = generation /\ results[k].gen = generation)
        /\ HandIsLive =>
              /\ \A i \in 1..Len(inbox) : inbox[i].gen # generation
              /\ \A i \in 1..Len(results) : results[i].gen # generation

(* A success that will count has reached the file. *)
SuccessIsOnDisk ==
    attached =>
        /\ wpc = "ok" /\ task.gen = generation =>
              \A j \in pending : j.id = task.id => disk[j.path] >= j.id
        /\ \A i \in 1..Len(results) :
              results[i].gen = generation /\ results[i].outcome = "ok" =>
                  \A j \in pending : j.id = results[i].id => disk[j.path] >= j.id

(* Once a flush has raised the generation, or the queue was shut down, no  *)
(* live work is left; and none is being committed once the flush holds the *)
(* lock.                                                                   *)
NoLiveMessage ==
    /\ \A i \in 1..Len(inbox) : inbox[i].gen # generation
    /\ \A i \in 1..Len(results) : results[i].gen # generation
    /\ wpc # "idle" => task.gen # generation
Quiet ==
    /\ attached /\ pc # "idle" => NoLiveMessage
    /\ attached /\ pc \notin {"idle", "lock", "gone"} => wpc # "rename"
    /\ ~attached /\ thread = "running" => NoLiveMessage /\ wpc # "rename"

(* The flush loop goes through the queue in order, and leaves behind only  *)
(* what it could not write.                                                *)
FlushLoop ==
    /\ pc = "write" => /\ todo \subseteq pending
                       /\ \A j \in pending \ todo : j.path \in failedPaths
                       /\ \A j \in pending \ todo, t \in todo : j.id < t.id
    /\ pc \in {"read", "exit"} => \A j \in pending : j.path \in failedPaths

IInv == /\ TypeOK
        /\ IdsInOrder
        /\ NothingLost
        /\ PendingIsNewer
        /\ Control
        /\ Generations
        /\ InFlightWork
        /\ OnePiece
        /\ SuccessIsOnDisk
        /\ Quiet
        /\ FlushLoop
-----------------------------------------------------------------------------
(* The safety half of EventuallyOnDisk: what keeps the queue from stopping *)
(* with a snapshot that no step is going to write.                         *)

(* Somewhere there is a piece of work of the current generation: a message *)
(* to the worker, the work in its hand, or a result on its way back.       *)
PieceUnderWay ==
    \/ \E i \in 1..Len(inbox) : inbox[i].gen = generation
    \/ \E i \in 1..Len(results) : results[i].gen = generation
    \/ wpc # "idle" /\ task.gen = generation

AllRest == \A j \in pending : j.path \in failedPaths

(* Outside a flush, and while no commit has outlasted the wait of one.     *)
Settled == pc \notin {"lock", "write", "gone"}

(* A job marked as in flight with a running worker really is: without      *)
(* that, pump() would wait for ever for the result of a job nobody has.    *)
InFlightIsUnderWay ==
    Settled /\ slow = 0 /\ attached /\ thread = "running" /\ inFlight # None => PieceUnderWay

(* A queue with nothing in flight has nothing it could send: every handler *)
(* that adds a job, revives a file or ends a job has pumped.               *)
NothingToSend == Settled /\ AsyncEnabled /\ inFlight = None => AllRest

(* Once the worker is gone, what is left of the queue rests until the next *)
(* autosave.                                                               *)
OrphansRest == Settled /\ ~attached /\ ~hasControl => AllRest

OwedInv == InFlightIsUnderWay /\ NothingToSend /\ OrphansRest

(* In the event loop a file that is behind is never left to itself.  It    *)
(* rests, and the next autosave retries it; or the worker was terminated   *)
(* or has stopped, and its exit event will flush the queue; or the queue   *)
(* is working, and the result of that work will pump the next job.         *)
NoFileIsStranded ==
    pc = "idle" /\ slow = 0 /\ ~ShutDown =>
        \A p \in Paths : disk[p] < accepted[p] =>
            \/ p \in failedPaths
            \/ attached /\ (~enabled \/ thread = "stopped")
            \/ AsyncEnabled /\ PieceUnderWay
=============================================================================

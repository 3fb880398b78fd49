------------------------ MODULE DiskWriteQueueProofs ------------------------
(***************************************************************************)
(* Safety of DiskWriteQueue, for any set of files and any bounds.          *)
(*                                                                         *)
(* The argument is the invariant IInv of DiskWriteQueueInv.  Work that may *)
(* still be committed, or whose result will count, is called live; there   *)
(* is at most one piece of it, it belongs to the job in flight, and a      *)
(* flush begins by making it dead (a new generation) and then waits for a  *)
(* commit that was already past its check (the lock).  Each conjunct is    *)
(* preserved by each action: first what the handlers do to live work, then *)
(* one lemma per conjunct, then the theorems.                              *)
(***************************************************************************)
EXTENDS DiskWriteQueueInv, FiniteSetTheorems, TLAPS

(* Sequences: their elements, and those of a tail and of an extension. *)
LEMMA ElementsOfSeq ==
  ASSUME NEW S, NEW s \in Seq(S)
  PROVE  \A i \in 1..Len(s) : s[i] \in S
OBVIOUS

(* A sequence and one more element. *)
LEMMA AppendElements ==
  ASSUME NEW S, NEW s \in Seq(S), NEW x \in S
  PROVE  /\ Append(s, x) \in Seq(S) /\ Len(Append(s, x)) = Len(s) + 1
         /\ \A i \in 1..Len(s) : Append(s, x)[i] = s[i]
         /\ Append(s, x)[Len(s) + 1] = x
OBVIOUS

(* A sequence without its first element. *)
LEMMA TailElements ==
  ASSUME NEW S, NEW s \in Seq(S), s # <<>>
  PROVE  /\ Len(s) \in Nat \ {0} /\ Head(s) = s[1] /\ Head(s) \in S
         /\ Tail(s) \in Seq(S) /\ Len(Tail(s)) = Len(s) - 1
         /\ \A i \in 1..Len(Tail(s)) : i + 1 \in 1..Len(s) /\ Tail(s)[i] = s[i + 1]
OBVIOUS

(* What the two message ports and the worker's hand hold. *)
LEMMA MessageTypes ==
  ASSUME WorkerOK
  PROVE  /\ \A i \in 1..Len(inbox) : inbox[i] \in Task
         /\ \A i \in 1..Len(results) : results[i] \in Result
         /\ wpc # "idle" => task \in Task
BY ElementsOfSeq DEF WorkerOK

USE DEF None, NoTask, NoSave, mainVars, queueVars, shared, workerVars, bounds,
        Job, Task, Result

(* A commit under way is of the job in flight, which is pending. *)
LEMMA RenameIsPending ==
  ASSUME TypeOK, InFlightWork, Quiet, thread = "running", wpc = "rename"
  PROVE  /\ attached /\ task \in Task /\ inFlight = task.id
         /\ OldestOfItsFile(task.id)
         /\ [id |-> task.id, path |-> task.path] \in pending
         /\ pc \in {"idle", "lock", "gone"}
BY DEF InFlightWork, Quiet, HandIsLive, TypeOK, FlagsOK, MainOK, WorkerOK

(* What pump() sends is a message, and what is in flight an id. *)
LEMMA PumpType ==
  ASSUME QueueOK, WorkerOK, generation' \in Nat, pending' \subseteq Job,
         NEW current \in Nat, Pump(current)
  PROVE  inFlight' \in Nat /\ inbox' \in Seq(Task)
<1> DEFINE ready == {j \in pending' : j.path \notin failedPaths'}
<1>1. ASSUME NEW next \in First(ready), inFlight' = next.id,
             inbox' = Append(inbox, Message(next))
      PROVE  inFlight' \in Nat /\ inbox' \in Seq(Task)
  <2>1. next \in Job
    BY <1>1 DEF First
  <2>2. Message(next) \in Task
    BY <2>1 DEF Message
  <2> QED
    BY <1>1, <2>1, <2>2 DEF WorkerOK
<1> QED
  BY <1>1 DEF Pump, QueueOK, WorkerOK

(* Every step keeps every variable in its type. *)
LEMMA TypeInductive == TypeOK /\ [Next]_vars => TypeOK'
<1> SUFFICES ASSUME TypeOK, [Next]_vars
             PROVE  TypeOK'
  OBVIOUS
<1> USE DEF TypeOK
<1>1. CASE EnableAsyncDiskWrites
  <2> USE <1>1 DEF EnableAsyncDiskWrites
  <2>1. FlagsOK'
    BY Zenon DEF FlagsOK
  <2>2. MainOK'
    BY DEF MainOK, QueueOK, WorkerOK
  <2>3. QueueOK'
    BY PumpType DEF QueueOK, MainOK
  <2>4. WorkerOK'
    BY PumpType DEF WorkerOK, QueueOK, MainOK
  <2>5. DiskOK'
    BY DEF DiskOK, QueueOK, WorkerOK, MainOK
  <2> QED
    BY <2>1, <2>2, <2>3, <2>4, <2>5
<1>2. ASSUME NEW p \in Paths, SaveQueued(p)
      PROVE  TypeOK'
  <2> USE <1>2 DEF SaveQueued, NotSuperseded
  <2>1. FlagsOK'
    BY Zenon DEF FlagsOK
  <2>2. MainOK'
    BY DEF MainOK, QueueOK, WorkerOK
  <2>3. QueueOK'
    BY PumpType DEF QueueOK, MainOK
  <2>4. WorkerOK'
    <3>1. inbox' \in Seq(Task)
      BY <2>2, <2>3, PumpType DEF MainOK, QueueOK
    <3> QED
      BY <3>1 DEF WorkerOK
  <2>5. DiskOK'
    BY DEF DiskOK, QueueOK, WorkerOK, MainOK
  <2> QED
    BY <2>1, <2>2, <2>3, <2>4, <2>5
<1>3. ASSUME NEW p \in Paths, SaveFallsBack(p)
      PROVE  TypeOK'
  <2> USE <1>3 DEF SaveFallsBack, StartFlush
  <2>1. FlagsOK'
    BY Zenon DEF FlagsOK
  <2>2. MainOK'
    BY DEF MainOK, QueueOK, WorkerOK
  <2>3. QueueOK'
    BY DEF QueueOK, MainOK
  <2>4. WorkerOK'
    BY DEF WorkerOK, QueueOK, MainOK
  <2>5. DiskOK'
    BY DEF DiskOK, QueueOK, WorkerOK, MainOK
  <2> QED
    BY <2>1, <2>2, <2>3, <2>4, <2>5
<1>4. CASE SyncSave
  <2> USE <1>4 DEF SyncSave, WriteFile, MayFail, Acknowledge
  <2>1. FlagsOK'
    BY Zenon DEF FlagsOK
  <2>2. MainOK'
    BY DEF MainOK, QueueOK, WorkerOK
  <2>3. QueueOK'
    BY DEF QueueOK, MainOK
  <2>4. WorkerOK'
    BY DEF WorkerOK, QueueOK, MainOK
  <2>5. DiskOK'
    <3>1. saving.id \in Nat
      BY DEF MainOK
    <3> QED
      BY <3>1 DEF DiskOK
  <2> QED
    BY <2>1, <2>2, <2>3, <2>4, <2>5
<1>5. CASE ReadThroughQueue
  <2> USE <1>5 DEF ReadThroughQueue, StartFlush
  <2>1. FlagsOK'
    BY Zenon DEF FlagsOK
  <2>2. MainOK'
    BY DEF MainOK, QueueOK, WorkerOK
  <2>3. QueueOK'
    BY DEF QueueOK, MainOK
  <2>4. WorkerOK'
    BY DEF WorkerOK, QueueOK, MainOK
  <2>5. DiskOK'
    BY DEF DiskOK, QueueOK, WorkerOK, MainOK
  <2> QED
    BY <2>1, <2>2, <2>3, <2>4, <2>5
<1>6. CASE ReadFile
  <2> USE <1>6 DEF ReadFile
  <2>1. FlagsOK'
    BY Zenon DEF FlagsOK
  <2>2. MainOK'
    BY DEF MainOK, QueueOK, WorkerOK
  <2>3. QueueOK'
    BY DEF QueueOK, MainOK
  <2>4. WorkerOK'
    BY DEF WorkerOK, QueueOK, MainOK
  <2>5. DiskOK'
    BY DEF DiskOK, QueueOK, WorkerOK, MainOK
  <2> QED
    BY <2>1, <2>2, <2>3, <2>4, <2>5
<1>7. CASE RetryFailedDiskWrites
  <2> USE <1>7 DEF RetryFailedDiskWrites, StartFlush
  <2>1. FlagsOK'
    BY Zenon DEF FlagsOK
  <2>2. MainOK'
    BY DEF MainOK, QueueOK, WorkerOK
  <2>3. QueueOK'
    BY PumpType DEF QueueOK, MainOK
  <2>4. WorkerOK'
    BY PumpType DEF WorkerOK, QueueOK, MainOK
  <2>5. DiskOK'
    BY DEF DiskOK, QueueOK, WorkerOK, MainOK
  <2> QED
    BY <2>1, <2>2, <2>3, <2>4, <2>5
<1>8. CASE ShutdownDiskWriteQueue
  <2> USE <1>8 DEF ShutdownDiskWriteQueue, StartFlush
  <2>1. FlagsOK'
    BY Zenon DEF FlagsOK
  <2>2. MainOK'
    BY DEF MainOK, QueueOK, WorkerOK
  <2>3. QueueOK'
    BY DEF QueueOK, MainOK
  <2>4. WorkerOK'
    BY DEF WorkerOK, QueueOK, MainOK
  <2>5. DiskOK'
    BY DEF DiskOK, QueueOK, WorkerOK, MainOK
  <2> QED
    BY <2>1, <2>2, <2>3, <2>4, <2>5
<1>9. CASE FinishShutdown
  <2> USE <1>9 DEF FinishShutdown
  <2>1. FlagsOK'
    BY Zenon DEF FlagsOK
  <2>2. MainOK'
    BY DEF MainOK, QueueOK, WorkerOK
  <2>3. QueueOK'
    BY DEF QueueOK, MainOK
  <2>4. WorkerOK'
    BY DEF WorkerOK, QueueOK, MainOK
  <2>5. DiskOK'
    BY DEF DiskOK, QueueOK, WorkerOK, MainOK
  <2> QED
    BY <2>1, <2>2, <2>3, <2>4, <2>5
<1>10. CASE ProcessExit
  <2> USE <1>10 DEF ProcessExit, StartFlush
  <2>1. FlagsOK'
    BY Zenon DEF FlagsOK
  <2>2. MainOK'
    BY DEF MainOK, QueueOK, WorkerOK
  <2>3. QueueOK'
    BY DEF QueueOK, MainOK
  <2>4. WorkerOK'
    BY DEF WorkerOK, QueueOK, MainOK
  <2>5. DiskOK'
    BY DEF DiskOK, QueueOK, WorkerOK, MainOK
  <2> QED
    BY <2>1, <2>2, <2>3, <2>4, <2>5
<1>11. CASE FlushLocks
  <2> USE <1>11 DEF FlushLocks
  <2>1. FlagsOK'
    BY Zenon DEF FlagsOK
  <2>2. MainOK'
    BY DEF MainOK, QueueOK, WorkerOK
  <2>3. QueueOK'
    BY DEF QueueOK, MainOK
  <2>4. WorkerOK'
    BY DEF WorkerOK, QueueOK, MainOK
  <2>5. DiskOK'
    BY DEF DiskOK, QueueOK, WorkerOK, MainOK
  <2> QED
    BY <2>1, <2>2, <2>3, <2>4, <2>5
<1>12. CASE FlushTimesOut
  <2> USE <1>12 DEF FlushTimesOut
  <2>1. FlagsOK'
    BY Zenon DEF FlagsOK
  <2>2. MainOK'
    BY DEF MainOK, QueueOK, WorkerOK
  <2>3. QueueOK'
    BY DEF QueueOK, MainOK
  <2>4. WorkerOK'
    BY DEF WorkerOK, QueueOK, MainOK
  <2>5. DiskOK'
    BY DEF DiskOK, QueueOK, WorkerOK, MainOK
  <2> QED
    BY <2>1, <2>2, <2>3, <2>4, <2>5
<1>13. CASE FlushWrites
  <2> USE <1>13 DEF FlushWrites, First, WriteFile, MayFail, Acknowledge
  <2>1. FlagsOK'
    BY Zenon DEF FlagsOK
  <2>2. MainOK'
    BY DEF MainOK, QueueOK, WorkerOK
  <2>3. QueueOK'
    BY DEF QueueOK, MainOK
  <2>4. WorkerOK'
    BY DEF WorkerOK, QueueOK, MainOK
  <2>5. DiskOK'
    BY DEF DiskOK, QueueOK, WorkerOK, MainOK
  <2> QED
    BY <2>1, <2>2, <2>3, <2>4, <2>5
<1>14. CASE FlushReturns
  <2> USE <1>14 DEF FlushReturns
  <2>1. FlagsOK'
    BY Zenon DEF FlagsOK
  <2>2. MainOK'
    BY DEF MainOK, QueueOK, WorkerOK
  <2>3. QueueOK'
    BY PumpType DEF QueueOK, MainOK
  <2>4. WorkerOK'
    BY PumpType DEF WorkerOK, QueueOK, MainOK
  <2>5. DiskOK'
    BY DEF DiskOK, QueueOK, WorkerOK, MainOK
  <2> QED
    BY <2>1, <2>2, <2>3, <2>4, <2>5
<1>15. CASE IgnoreResult
  <2> USE <1>15 DEF IgnoreResult
  <2>1. FlagsOK'
    BY Zenon DEF FlagsOK
  <2>2. MainOK'
    BY DEF MainOK, QueueOK, WorkerOK
  <2>3. QueueOK'
    BY DEF QueueOK, MainOK
  <2>4. WorkerOK'
    BY DEF WorkerOK, QueueOK, MainOK
  <2>5. DiskOK'
    BY DEF DiskOK, QueueOK, WorkerOK, MainOK
  <2> QED
    BY <2>1, <2>2, <2>3, <2>4, <2>5
<1>16. CASE HandleResult
  <2> USE <1>16 DEF HandleResult, WriteFile, MayFail, Acknowledge
  <2>1. FlagsOK'
    BY Zenon DEF FlagsOK
  <2>2. MainOK'
    BY DEF MainOK, QueueOK, WorkerOK
  <2>3. QueueOK'
    BY PumpType DEF QueueOK, MainOK
  <2>4. WorkerOK'
    <3>1. inbox' \in Seq(Task)
      BY <2>2, <2>3, PumpType DEF MainOK, QueueOK
    <3>2. Tail(results) \in Seq(Result)
      BY DEF WorkerOK
    <3> QED
      BY <3>1, <3>2 DEF WorkerOK
  <2>5. DiskOK'
    BY DEF DiskOK, QueueOK, WorkerOK, MainOK
  <2> QED
    BY <2>1, <2>2, <2>3, <2>4, <2>5
<1>17. CASE WorkerErrorEvent
  <2> USE <1>17 DEF WorkerErrorEvent
  <2>1. FlagsOK'
    BY Zenon DEF FlagsOK
  <2>2. MainOK'
    BY DEF MainOK, QueueOK, WorkerOK
  <2>3. QueueOK'
    BY DEF QueueOK, MainOK
  <2>4. WorkerOK'
    BY DEF WorkerOK, QueueOK, MainOK
  <2>5. DiskOK'
    BY DEF DiskOK, QueueOK, WorkerOK, MainOK
  <2> QED
    BY <2>1, <2>2, <2>3, <2>4, <2>5
<1>18. CASE WorkerExitEvent
  <2> USE <1>18 DEF WorkerExitEvent, StartFlush
  <2>1. FlagsOK'
    BY Zenon DEF FlagsOK
  <2>2. MainOK'
    BY DEF MainOK, QueueOK, WorkerOK
  <2>3. QueueOK'
    BY DEF QueueOK, MainOK
  <2>4. WorkerOK'
    BY DEF WorkerOK, QueueOK, MainOK
  <2>5. DiskOK'
    BY DEF DiskOK, QueueOK, WorkerOK, MainOK
  <2> QED
    BY <2>1, <2>2, <2>3, <2>4, <2>5
<1>19. CASE WorkerTakes
  <2> USE <1>19 DEF WorkerTakes, WorkerGoes, MayFail
  <2>1. FlagsOK'
    BY Zenon DEF FlagsOK
  <2>2. MainOK'
    BY DEF MainOK
  <2>3. QueueOK'
    BY DEF QueueOK, MainOK
  <2>4. WorkerOK'
    <3>1. Head(inbox) \in Task /\ Tail(inbox) \in Seq(Task)
      BY TailElements DEF WorkerOK
    <3> QED
      BY <3>1 DEF WorkerOK
  <2>5. DiskOK'
    BY DEF DiskOK, QueueOK, WorkerOK, MainOK
  <2> QED
    BY <2>1, <2>2, <2>3, <2>4, <2>5
<1>20. CASE WorkerLocks
  <2> USE <1>20 DEF WorkerLocks, WorkerGoes
  <2>1. FlagsOK'
    BY Zenon DEF FlagsOK
  <2>2. MainOK'
    BY DEF MainOK, QueueOK, WorkerOK
  <2>3. QueueOK'
    BY DEF QueueOK, MainOK
  <2>4. WorkerOK'
    BY DEF WorkerOK, QueueOK, MainOK
  <2>5. DiskOK'
    BY DEF DiskOK, QueueOK, WorkerOK, MainOK
  <2> QED
    BY <2>1, <2>2, <2>3, <2>4, <2>5
<1>21. CASE WorkerChecks
  <2> USE <1>21 DEF WorkerChecks, WorkerGoes
  <2>1. FlagsOK'
    BY Zenon DEF FlagsOK
  <2>2. MainOK'
    BY DEF MainOK, QueueOK, WorkerOK
  <2>3. QueueOK'
    BY DEF QueueOK, MainOK
  <2>4. WorkerOK'
    BY DEF WorkerOK, QueueOK, MainOK
  <2>5. DiskOK'
    BY DEF DiskOK, QueueOK, WorkerOK, MainOK
  <2> QED
    BY <2>1, <2>2, <2>3, <2>4, <2>5
<1>22. CASE WorkerRenames
  <2> USE <1>22 DEF WorkerRenames, WorkerGoes, WriteFile, MayFail
  <2>1. FlagsOK'
    BY Zenon DEF FlagsOK
  <2>2. MainOK'
    <3>1. /\ UNCHANGED <<mainVars, nextJobId, generation, lock, slow>>
          /\ faults' \in {faults, faults + 1}
      BY DEF queueVars
    <3> QED
      BY <3>1 DEF MainOK, mainVars
  <2>3. QueueOK'
    BY DEF QueueOK, MainOK
  <2>4. WorkerOK'
    BY DEF WorkerOK, QueueOK, MainOK
  <2>5. DiskOK'
    BY DEF DiskOK, QueueOK, WorkerOK, MainOK
  <2> QED
    BY <2>1, <2>2, <2>3, <2>4, <2>5
<1>23. CASE WorkerPosts
  <2> USE <1>23 DEF WorkerPosts, WorkerGoes
  <2>1. FlagsOK'
    BY Zenon DEF FlagsOK
  <2>2. MainOK'
    BY DEF MainOK, QueueOK, WorkerOK
  <2>3. QueueOK'
    BY DEF QueueOK, MainOK
  <2>4. WorkerOK'
    BY DEF WorkerOK, QueueOK, MainOK
  <2>5. DiskOK'
    BY DEF DiskOK, QueueOK, WorkerOK, MainOK
  <2> QED
    BY <2>1, <2>2, <2>3, <2>4, <2>5
<1>24. CASE WorkerStops
  <2> USE <1>24 DEF WorkerStops
  <2>1. FlagsOK'
    BY Zenon DEF FlagsOK
  <2>2. MainOK'
    BY DEF MainOK, QueueOK, WorkerOK
  <2>3. QueueOK'
    BY DEF QueueOK, MainOK
  <2>4. WorkerOK'
    BY DEF WorkerOK, QueueOK, MainOK
  <2>5. DiskOK'
    BY DEF DiskOK, QueueOK, WorkerOK, MainOK
  <2> QED
    BY <2>1, <2>2, <2>3, <2>4, <2>5
<1>25. CASE ProcessEnds
  <2> USE <1>25 DEF ProcessEnds
  <2>1. FlagsOK'
    BY Zenon DEF FlagsOK
  <2>2. MainOK'
    BY DEF MainOK, QueueOK, WorkerOK
  <2>3. QueueOK'
    BY DEF QueueOK, MainOK
  <2>4. WorkerOK'
    BY DEF WorkerOK, QueueOK, MainOK
  <2>5. DiskOK'
    BY DEF DiskOK, QueueOK, WorkerOK, MainOK
  <2> QED
    BY <2>1, <2>2, <2>3, <2>4, <2>5
<1>26. CASE UNCHANGED vars
  <2> USE <1>26 DEF vars
  <2>1. FlagsOK'
    BY Zenon DEF FlagsOK
  <2>2. MainOK'
    BY DEF MainOK, QueueOK, WorkerOK
  <2>3. QueueOK'
    BY DEF QueueOK, MainOK
  <2>4. WorkerOK'
    BY DEF WorkerOK, QueueOK, MainOK
  <2>5. DiskOK'
    BY DEF DiskOK, QueueOK, WorkerOK, MainOK
  <2> QED
    BY <2>1, <2>2, <2>3, <2>4, <2>5
<1> QED
  BY <1>1, <1>2, <1>3, <1>4, <1>5, <1>6, <1>7, <1>8, <1>9, <1>10, <1>11, <1>12,
     <1>13, <1>14, <1>15, <1>16, <1>17, <1>18, <1>19, <1>20, <1>21, <1>22, <1>23,
     <1>24, <1>25, <1>26 DEF Next, MainStep, WorkerStep, Caller

-----------------------------------------------------------------------------
(* With no job in flight, or none pending, there is no live work. *)
NoLive == NoLiveMessage /\ wpc # "rename"

(* With no job in flight, or none pending, there is no live work. *)
LEMMA IdleMeansNoLive ==
  ASSUME TypeOK, InFlightWork, attached, inFlight = None \/ pending = {}
  PROVE  NoLive
<1>1. /\ \A i \in 1..Len(inbox) : inbox[i] \in Task
      /\ \A i \in 1..Len(results) : results[i] \in Result
      /\ wpc # "idle" => task \in Task
  BY MessageTypes DEF TypeOK
<1>2. ASSUME NEW id \in Nat \ {0}, inFlight = id, OldestOfItsFile(id)
      PROVE  FALSE
  BY <1>2 DEF OldestOfItsFile, None
<1>3. \A i \in 1..Len(inbox) : inbox[i].gen # generation
  BY <1>1, <1>2 DEF InFlightWork, Task
<1>4. \A i \in 1..Len(results) : results[i].gen # generation
  BY <1>1, <1>2 DEF InFlightWork, Result
<1>5. ~HandIsLive
  <2>1. HandIsLive => task.id \in Nat \ {0}
    BY <1>1 DEF HandIsLive, Task
  <2> QED
    BY <1>2, <2>1 DEF InFlightWork
<1> QED
  BY <1>3, <1>4, <1>5 DEF HandIsLive, NoLive, NoLiveMessage

(* A new generation makes all work dead. *)
LEMMA NewGeneration ==
  ASSUME TypeOK, Generations, generation' = generation + 1,
         UNCHANGED <<inbox, results, task, wpc>>
  PROVE  NoLiveMessage' /\ Generations'
<1>1. generation \in Nat
  BY DEF TypeOK, MainOK
<1>2. /\ \A i \in 1..Len(inbox) : inbox[i] \in Task
      /\ \A i \in 1..Len(results) : results[i] \in Result
      /\ wpc # "idle" => task \in Task
  BY MessageTypes DEF TypeOK
<1>5. NoLiveMessage'
  BY <1>1, <1>2 DEF NoLiveMessage, Generations
<1>6. Generations'
  BY <1>1, <1>2 DEF Generations
<1> QED
  BY <1>5, <1>6

(* What a flush leaves alone at its start, or as it closes a generation. *)
LEMMA StartFlushKeeps ==
  ASSUME IInv, NEW r \in {"idle", "sync", "read", "shutdown", "exit"}, StartFlush(r), pc = "idle",
         UNCHANGED <<pending, inFlight, failedPaths, disk, thread, wpc, task, inbox, results>>,
         \/ UNCHANGED <<attached, hasControl>>
         \/ ~attached' /\ ~hasControl' /\ thread = "stopped"
  PROVE  /\ Generations' /\ InFlightWork' /\ OnePiece' /\ SuccessIsOnDisk'
         /\ Quiet' /\ FlushLoop'
<1> USE DEF IInv
<1>1. CASE generation' = generation + 1 /\ pc' = "lock" /\ UNCHANGED <<attached, hasControl>>
  <2>1. NoLiveMessage' /\ Generations'
    BY <1>1, NewGeneration
  <2>2. HandIsLive' => HandIsLive
    BY <1>1, <2>1 DEF HandIsLive, NoLiveMessage
  <2>3. InFlightWork'
    BY <1>1, <2>1, <2>2 DEF InFlightWork, NoLiveMessage, OldestOfItsFile
  <2>4. OnePiece'
    BY <2>1 DEF OnePiece, NoLiveMessage
  <2>5. SuccessIsOnDisk'
    BY <2>1 DEF SuccessIsOnDisk, NoLiveMessage
  <2>6. Quiet'
    BY <1>1, <2>1 DEF Quiet
  <2>7. FlushLoop'
    BY <1>1 DEF FlushLoop
  <2> QED
    BY <2>1, <2>3, <2>4, <2>5, <2>6, <2>7
<1>2. CASE generation' = generation
  <2>1. Generations'
    BY <1>2 DEF Generations
  <2>2. InFlightWork' /\ OnePiece' /\ SuccessIsOnDisk'
    BY <1>2 DEF InFlightWork, OnePiece, SuccessIsOnDisk, HandIsLive, OldestOfItsFile
  <2>3. CASE pending = {} /\ pc' = r
    <3>1. attached => NoLive
      BY <2>3, IdleMeansNoLive
    <3>2. Quiet'
      BY <1>2, <2>3, <3>1 DEF Quiet, NoLive, NoLiveMessage
    <3>3. FlushLoop'
      BY <2>3 DEF FlushLoop
    <3> QED
      BY <2>1, <2>2, <3>2, <3>3
  <2>4. CASE ~hasControl' /\ pc' = "write" /\ todo' = pending
    <3>1. thread # "running" /\ ~attached'
      BY <2>4 DEF Control
    <3>2. Quiet'
      BY <3>1 DEF Quiet
    <3>3. FlushLoop'
      BY <2>4 DEF FlushLoop
    <3> QED
      BY <2>1, <2>2, <3>2, <3>3
  <2> QED
    BY <1>2, <2>3, <2>4 DEF StartFlush, TypeOK, MainOK
<1> QED
  BY <1>1, <1>2 DEF StartFlush

(* pump() leaves the port alone, or sends the oldest version of a file. *)
LEMMA PumpSends ==
  ASSUME NEW current, Pump(current)
  PROVE  \/ inFlight' = current /\ inbox' = inbox
         \/ /\ current = None /\ attached'
            /\ \E next \in pending' :
                 /\ next.path \notin failedPaths'
                 /\ \A k \in pending' : k.path = next.path => next.id <= k.id
                 /\ inFlight' = next.id
                 /\ inbox' = Append(inbox, [id |-> next.id, path |-> next.path,
                                            gen |-> generation'])
BY DEF Pump, First, Message

(* Sending a job when there is no live work makes it the only live work. *)
LEMMA SendKeeps ==
  ASSUME TypeOK, TypeOK', attached', generation' = generation, UNCHANGED <<wpc, task>>,
         NEW next \in pending', \A k \in pending' : k.path = next.path => next.id <= k.id,
         inFlight' = next.id,
         inbox' = Append(inbox, [id |-> next.id, path |-> next.path, gen |-> generation]),
         \A i \in 1..Len(inbox) : inbox[i].gen # generation,
         \A i \in 1..Len(results') : results'[i].gen # generation,
         wpc # "idle" => task.gen # generation,
         wpc # "rename"
  PROVE  InFlightWork' /\ OnePiece' /\ SuccessIsOnDisk'
<1> DEFINE m == [id |-> next.id, path |-> next.path, gen |-> generation]
<1>1. next \in Job /\ m \in Task /\ inbox \in Seq(Task)
  BY DEF TypeOK, QueueOK, MainOK, WorkerOK
<1>2. /\ Len(inbox') = Len(inbox) + 1 /\ Len(inbox) \in Nat
      /\ \A i \in 1..Len(inbox) : inbox'[i] = inbox[i]
      /\ inbox'[Len(inbox) + 1] = m
  BY <1>1, AppendElements
<1>3. \A i \in 1..Len(inbox') : inbox'[i].gen = generation => i = Len(inbox) + 1 /\ inbox'[i] = m
  BY <1>2
<1>4. ~HandIsLive'
  BY DEF HandIsLive
<1>5. [id |-> next.id, path |-> next.path] = next
  BY <1>1
<1>6. OldestOfItsFile(next.id)'
  BY DEF OldestOfItsFile
<1>7. InFlightWork'
  BY <1>3, <1>4, <1>5, <1>6 DEF InFlightWork
<1>8. OnePiece'
  BY <1>3, <1>4 DEF OnePiece
<1>9. SuccessIsOnDisk'
  BY DEF SuccessIsOnDisk
<1> QED
  BY <1>7, <1>8, <1>9

(* The pump sends only the current generation. *)
LEMMA PumpGenerations ==
  ASSUME TypeOK, Generations, NEW current, Pump(current), pending' \subseteq Job,
         generation' = generation, UNCHANGED <<wpc, task>>,
         \A i \in 1..Len(results') :
            /\ results'[i].gen <= generation
            /\ results'[i].outcome = "aborted" => results'[i].gen < generation
  PROVE  Generations'
<1>1. CASE inbox' = inbox
  BY <1>1 DEF Generations
<1>2. ASSUME NEW next \in pending',
             inbox' = Append(inbox, [id |-> next.id, path |-> next.path, gen |-> generation'])
      PROVE  Generations'
  <2> DEFINE m == [id |-> next.id, path |-> next.path, gen |-> generation]
  <2>1. m \in Task /\ inbox \in Seq(Task) /\ generation \in Nat
    BY DEF TypeOK, QueueOK, MainOK, WorkerOK
  <2>2. /\ Len(inbox') = Len(inbox) + 1 /\ Len(inbox) \in Nat
        /\ \A i \in 1..Len(inbox) : inbox'[i] = inbox[i]
        /\ inbox'[Len(inbox) + 1] = m
    BY <1>2, <2>1, AppendElements
  <2>3. ASSUME NEW i \in 1..Len(inbox')
        PROVE  inbox'[i].gen <= generation
    <3>1. CASE i \in 1..Len(inbox)
      BY <2>2, <3>1 DEF Generations
    <3>2. CASE i = Len(inbox) + 1
      BY <2>1, <2>2, <3>2
    <3> QED
      BY <2>2, <3>1, <3>2
  <2> QED
    BY <2>3 DEF Generations
<1> QED
  BY <1>1, <1>2, PumpSends

(* A newer version never displaces the job in flight. *)
LEMMA SaveQueuedWork ==
  ASSUME IInv, TypeOK', NEW p \in Paths, SaveQueued(p)
  PROVE  Generations' /\ InFlightWork' /\ OnePiece' /\ SuccessIsOnDisk' /\ Quiet'
<1> USE DEF IInv
<1> DEFINE job == [id |-> nextJobId, path |-> p]
<1>1. /\ pc = "idle" /\ pc' = "idle" /\ attached /\ attached'
      /\ pending' = {j \in pending : j.path # p \/ j.id = inFlight} \union {job}
      /\ generation' = generation /\ Pump(inFlight)
      /\ UNCHANGED <<wpc, task, thread, results, disk>>
  BY DEF SaveQueued, NotSuperseded, AsyncEnabled, TypeOK, FlagsOK
<1>2. Generations'
  BY <1>1, PumpGenerations DEF Generations, TypeOK, QueueOK
<1>3. Quiet'
  BY <1>1 DEF Quiet
<1>4. CASE inFlight' = inFlight /\ inbox' = inbox
  <2>1. \A id : OldestOfItsFile(id) /\ id = inFlight => OldestOfItsFile(id)'
    BY <1>1 DEF OldestOfItsFile, IdsInOrder, TypeOK, QueueOK, MainOK
  <2>2. \A j \in pending : j.id = inFlight => j \in pending'
    BY <1>1
  <2>3. InFlightWork'
    BY <1>1, <1>4, <2>1, <2>2 DEF InFlightWork, HandIsLive
  <2>4. OnePiece'
    BY <1>1, <1>4 DEF OnePiece, HandIsLive
  <2>5. SuccessIsOnDisk'
    <3>1. /\ \A i \in 1..Len(results) : results[i].gen = generation => results[i].id # nextJobId
          /\ wpc = "ok" /\ task.gen = generation => task.id # nextJobId
      BY <1>1 DEF InFlightWork, HandIsLive, OldestOfItsFile, IdsInOrder, TypeOK, QueueOK, MainOK
    <3> QED
      BY <1>1, <3>1 DEF SuccessIsOnDisk
  <2> QED
    BY <1>2, <1>3, <2>3, <2>4, <2>5
<1>5. ASSUME inFlight = None,
             NEW next \in pending',
             \A k \in pending' : k.path = next.path => next.id <= k.id,
             inFlight' = next.id,
             inbox' = Append(inbox, [id |-> next.id, path |-> next.path, gen |-> generation'])
      PROVE  InFlightWork' /\ OnePiece' /\ SuccessIsOnDisk'
  <2>1. NoLive
    BY <1>1, <1>5, IdleMeansNoLive
  <2> QED
    BY <1>1, <1>5, <2>1, SendKeeps DEF NoLive, NoLiveMessage
<1> QED
  BY <1>1, <1>2, <1>3, <1>4, <1>5, PumpSends

(* A retry sends resting jobs through the pump, or through a flush. *)
LEMMA RetryWork ==
  ASSUME IInv, TypeOK', RetryFailedDiskWrites
  PROVE  Generations' /\ InFlightWork' /\ OnePiece' /\ SuccessIsOnDisk' /\ Quiet' /\ FlushLoop'
<1> USE DEF IInv
<1>1. CASE StartFlush("idle") /\ UNCHANGED <<inFlight, failedPaths, inbox>>
  BY <1>1, StartFlushKeeps DEF RetryFailedDiskWrites
<1>2. CASE AsyncEnabled /\ UNCHANGED <<pc, after, todo, generation>> /\ Pump(inFlight)
  <2>1. /\ pc = "idle" /\ pc' = "idle" /\ attached /\ attached'
        /\ generation' = generation
        /\ UNCHANGED <<pending, wpc, task, thread, results, disk>>
    BY <1>2 DEF RetryFailedDiskWrites, AsyncEnabled, TypeOK, FlagsOK
  <2>2. Generations'
    BY <1>2, <2>1, PumpGenerations DEF Generations, TypeOK, QueueOK
  <2>3. Quiet' /\ FlushLoop'
    BY <2>1 DEF Quiet, FlushLoop
  <2>4. CASE inFlight' = inFlight /\ inbox' = inbox
    BY <2>1, <2>2, <2>3, <2>4 DEF InFlightWork, OnePiece, SuccessIsOnDisk, HandIsLive, OldestOfItsFile
  <2>5. ASSUME inFlight = None,
               NEW next \in pending',
               \A k \in pending' : k.path = next.path => next.id <= k.id,
               inFlight' = next.id,
               inbox' = Append(inbox, [id |-> next.id, path |-> next.path, gen |-> generation'])
        PROVE  InFlightWork' /\ OnePiece' /\ SuccessIsOnDisk'
    <3>1. NoLive
      BY <2>1, <2>5, IdleMeansNoLive
    <3> QED
      BY <2>1, <2>5, <3>1, SendKeeps DEF NoLive, NoLiveMessage
  <2> QED
    BY <1>2, <2>2, <2>3, <2>4, <2>5, PumpSends
<1> QED
  BY <1>1, <1>2 DEF RetryFailedDiskWrites

(* What a flush could not write rests, so the pump sends nothing. *)
LEMMA FlushReturnsWork ==
  ASSUME IInv, TypeOK', FlushReturns
  PROVE  /\ Generations' /\ InFlightWork' /\ OnePiece' /\ SuccessIsOnDisk'
         /\ Quiet' /\ FlushLoop'
<1> USE DEF IInv
<1>1. /\ pc = "write" /\ pc' = after /\ todo = {} /\ Pump(None)
      /\ UNCHANGED <<pending, failedPaths, attached, generation, thread, wpc, task, results, disk>>
  BY DEF FlushReturns
<1>2. \A j \in pending : j.path \in failedPaths
  BY <1>1 DEF FlushLoop
<1>3. inFlight' = None /\ inbox' = inbox
  BY <1>1, <1>2, PumpSends
<1>4. /\ attached => NoLiveMessage
      /\ ~attached /\ thread = "running" => NoLiveMessage
      /\ thread = "running" => wpc # "rename"
  BY <1>1 DEF Quiet
<1>5. attached => wpc # "rename"
  BY <1>1 DEF Quiet, Control
<1>6. Generations'
  BY <1>1, <1>3 DEF Generations
<1>7. InFlightWork' /\ OnePiece' /\ SuccessIsOnDisk'
  BY <1>1, <1>3, <1>4, <1>5 DEF InFlightWork, OnePiece, SuccessIsOnDisk, HandIsLive, NoLiveMessage
<1>8. Quiet'
  BY <1>1, <1>3, <1>4 DEF Quiet, NoLiveMessage
<1>9. FlushLoop'
  BY <1>1, <1>2 DEF FlushLoop, TypeOK, MainOK
<1> QED
  BY <1>6, <1>7, <1>8, <1>9

(* An ignored result leaves live work alone. *)
LEMMA IgnoreResultWork ==
  ASSUME IInv, IgnoreResult
  PROVE  Generations' /\ InFlightWork' /\ OnePiece' /\ SuccessIsOnDisk' /\ Quiet'
<1> USE DEF IInv
<1>1. /\ UNCHANGED <<pc, attached, pending, inFlight, generation, thread, wpc, task, inbox, disk>>
      /\ results # <<>> /\ results' = Tail(results) /\ results \in Seq(Result)
  BY DEF IgnoreResult, TypeOK, WorkerOK
<1>2. /\ Len(results) \in Nat \ {0} /\ Len(results') = Len(results) - 1
      /\ \A i \in 1..Len(results') : i + 1 \in 1..Len(results) /\ results'[i] = results[i + 1]
  BY <1>1, TailElements
<1>3. Generations'
  BY <1>1, <1>2 DEF Generations
<1>4. InFlightWork'
  BY <1>1, <1>2 DEF InFlightWork, OldestOfItsFile, HandIsLive
<1>5. OnePiece'
  BY <1>1, <1>2 DEF OnePiece, HandIsLive
<1>6. SuccessIsOnDisk'
  BY <1>1, <1>2 DEF SuccessIsOnDisk
<1>7. Quiet'
  BY <1>1, <1>2 DEF Quiet, NoLiveMessage
<1> QED
  BY <1>3, <1>4, <1>5, <1>6, <1>7

(* A current result is the only live work, so none is left when it is      *)
(* handled, and the pump may send the next job.                            *)
LEMMA HandleResultWork ==
  ASSUME IInv, TypeOK', HandleResult
  PROVE  Generations' /\ InFlightWork' /\ OnePiece' /\ SuccessIsOnDisk' /\ Quiet'
<1> USE DEF IInv
<1>1. /\ pc = "idle" /\ pc' = "idle" /\ attached /\ attached'
      /\ results # <<>> /\ results' = Tail(results) /\ results \in Seq(Result)
      /\ Head(results).gen = generation /\ generation' = generation
      /\ UNCHANGED <<thread, wpc, task>>
      /\ Pump(IF inFlight = Head(results).id THEN None ELSE inFlight)
  BY DEF HandleResult, TypeOK, FlagsOK, WorkerOK
<1>2. /\ Len(results) \in Nat \ {0} /\ Len(results') = Len(results) - 1
      /\ Head(results) = results[1]
      /\ \A i \in 1..Len(results') : i + 1 \in 1..Len(results) /\ results'[i] = results[i + 1]
  BY <1>1, TailElements
<1>3. inFlight = results[1].id
  BY <1>1, <1>2 DEF InFlightWork
<1>a. 1 \in 1..Len(results) /\ results[1].gen = generation
  BY <1>1, <1>2
<1>b. OnePiece /\ attached
  BY <1>1
<1>4. /\ \A i \in 1..Len(inbox) : inbox[i].gen # generation
      /\ ~HandIsLive
  <2>1. \A i \in 1..Len(inbox) : inbox[i].gen # generation
    BY <1>a, <1>b DEF OnePiece
  <2>2. ~HandIsLive
    BY <1>a, <1>b DEF OnePiece
  <2> QED
    BY <2>1, <2>2
<1>5. \A i \in 1..Len(results') : results'[i].gen # generation
  BY <1>1, <1>2 DEF OnePiece
<1>6. Pump(None)
  BY <1>1, <1>2, <1>3
<1>7. Generations'
  <2>1. \A i \in 1..Len(results') :
            /\ results'[i].gen <= generation
            /\ results'[i].outcome = "aborted" => results'[i].gen < generation
    BY <1>2 DEF Generations
  <2> QED
    BY <1>1, <1>6, <2>1, PumpGenerations DEF TypeOK, QueueOK
<1>8. Quiet'
  BY <1>1 DEF Quiet
<1>9. CASE inFlight' = None /\ inbox' = inbox
  <2>1. ~HandIsLive'
    BY <1>1, <1>4 DEF HandIsLive
  <2>2. InFlightWork'
    BY <1>1, <1>4, <1>5, <1>9, <2>1 DEF InFlightWork
  <2>3. OnePiece'
    BY <1>1, <1>4, <1>5, <1>9, <2>1 DEF OnePiece
  <2>4. SuccessIsOnDisk'
    <3>1. \A i \in 1..Len(results') : results'[i].gen # generation'
      BY <1>1, <1>5
    <3>2. wpc' = "ok" => task'.gen # generation'
      BY <2>1 DEF HandIsLive
    <3> QED
      BY <3>1, <3>2 DEF SuccessIsOnDisk
  <2> QED
    BY <1>7, <1>8, <2>2, <2>3, <2>4
<1>10. ASSUME NEW next \in pending',
              \A k \in pending' : k.path = next.path => next.id <= k.id,
              inFlight' = next.id,
              inbox' = Append(inbox, [id |-> next.id, path |-> next.path, gen |-> generation'])
       PROVE  InFlightWork' /\ OnePiece' /\ SuccessIsOnDisk'
  <2>1. wpc # "idle" => task.gen # generation /\ wpc # "rename"
    BY <1>4 DEF HandIsLive
  <2> QED
    BY <1>1, <1>4, <1>5, <1>10, <2>1, SendKeeps
<1> QED
  BY <1>6, <1>7, <1>8, <1>9, <1>10, PumpSends

(* The worker moves its work from one port, through its hand, to the other. *)
LEMMA WorkerTakesWork ==
  ASSUME IInv, WorkerTakes
  PROVE  Control' /\ Generations' /\ InFlightWork' /\ OnePiece' /\ SuccessIsOnDisk' /\ Quiet'
<1> USE DEF IInv
<1>1. /\ thread = "running" /\ wpc = "idle" /\ wpc' \in {"ready", "error"}
      /\ inbox # <<>> /\ task' = Head(inbox) /\ inbox' = Tail(inbox) /\ inbox \in Seq(Task)
      /\ UNCHANGED <<pc, attached, hasControl, pending, inFlight, generation, lock, thread,
                     results, disk>>
  BY DEF WorkerTakes, WorkerGoes, TypeOK, WorkerOK
<1>2. /\ Len(inbox) \in Nat \ {0} /\ Len(inbox') = Len(inbox) - 1
      /\ task' = inbox[1] /\ 1 \in 1..Len(inbox)
      /\ \A i \in 1..Len(inbox') : i + 1 \in 1..Len(inbox) /\ inbox'[i] = inbox[i + 1]
  BY <1>1, TailElements
<1>3. Control'
  BY <1>1 DEF Control
<1>4. Generations'
  BY <1>1, <1>2 DEF Generations
<1>5. InFlightWork'
  <2>1. HandIsLive' => inbox[1].gen = generation
    BY <1>1, <1>2 DEF HandIsLive
  <2>2. attached /\ inbox[1].gen = generation =>
            /\ inFlight = inbox[1].id /\ OldestOfItsFile(inbox[1].id)
            /\ [id |-> inbox[1].id, path |-> inbox[1].path] \in pending
    BY <1>2 DEF InFlightWork
  <2>3. \A i \in 1..Len(inbox') : attached /\ inbox'[i].gen = generation =>
            /\ inFlight = inbox'[i].id /\ OldestOfItsFile(inbox'[i].id)
            /\ [id |-> inbox'[i].id, path |-> inbox'[i].path] \in pending
    BY <1>2 DEF InFlightWork
  <2>4. attached => \A i \in 1..Len(results) : results[i].gen = generation =>
            inFlight = results[i].id /\ OldestOfItsFile(results[i].id)
    BY DEF InFlightWork
  <2> QED
    BY <1>1, <1>2, <2>1, <2>2, <2>3, <2>4 DEF InFlightWork, OldestOfItsFile
<1>6. OnePiece'
  BY <1>1, <1>2 DEF OnePiece, HandIsLive
<1>7. SuccessIsOnDisk'
  BY <1>1, <1>2 DEF SuccessIsOnDisk
<1>8. Quiet'
  BY <1>1, <1>2 DEF Quiet, NoLiveMessage
<1> QED
  BY <1>3, <1>4, <1>5, <1>6, <1>7, <1>8

(* What the worker reports is what it had in hand. *)
LEMMA WorkerPostsWork ==
  ASSUME IInv, WorkerPosts
  PROVE  Generations' /\ InFlightWork' /\ OnePiece' /\ SuccessIsOnDisk' /\ Quiet'
<1> USE DEF IInv
<1> DEFINE m == [id |-> task.id, gen |-> task.gen, outcome |-> wpc]
<1>1. /\ wpc \in {"ok", "aborted", "error"} /\ wpc' = "idle"
      /\ results' = Append(results, m) /\ results \in Seq(Result) /\ task \in Task
      /\ UNCHANGED <<pc, attached, pending, inFlight, generation, thread, inbox, disk>>
  BY DEF WorkerPosts, WorkerGoes, TypeOK, WorkerOK
<1>2. m \in Result
  BY <1>1
<1>3. /\ Len(results) \in Nat /\ Len(results') = Len(results) + 1
      /\ \A i \in 1..Len(results) : results'[i] = results[i]
      /\ results'[Len(results) + 1] = m
  BY <1>1, <1>2, AppendElements
<1>4. \A i \in 1..Len(results') : \/ i \in 1..Len(results) /\ results'[i] = results[i]
                                  \/ i = Len(results) + 1 /\ results'[i] = m
  BY <1>3
<1>5. m.id = task.id /\ m.gen = task.gen /\ m.outcome = wpc
  OBVIOUS
<1> HIDE DEF m
<1>6. Generations'
  BY <1>1, <1>4, <1>5 DEF Generations
<1>7. InFlightWork'
  <2>1. ~HandIsLive'
    BY <1>1 DEF HandIsLive
  <2>2. attached /\ task.gen = generation => inFlight = m.id /\ OldestOfItsFile(m.id)
    BY <1>1, <1>5 DEF InFlightWork, HandIsLive
  <2>3. attached => \A i \in 1..Len(results') : results'[i].gen = generation =>
            inFlight = results'[i].id /\ OldestOfItsFile(results'[i].id)
    BY <1>4, <1>5, <2>2 DEF InFlightWork
  <2> QED
    BY <1>1, <2>1, <2>3 DEF InFlightWork, OldestOfItsFile
<1>8. OnePiece'
  <2>1. ~HandIsLive'
    BY <1>1 DEF HandIsLive
  <2>2. attached /\ task.gen = generation =>
          /\ \A i \in 1..Len(inbox) : inbox[i].gen # generation
          /\ \A i \in 1..Len(results) : results[i].gen # generation
    BY <1>1 DEF OnePiece, HandIsLive
  <2>3. attached => \A i, k \in 1..Len(results') :
          results'[i].gen = generation /\ results'[k].gen = generation => i = k
    BY <1>4, <1>5, <2>2 DEF OnePiece
  <2>4. attached => \A i \in 1..Len(inbox), k \in 1..Len(results') :
          ~(inbox[i].gen = generation /\ results'[k].gen = generation)
    BY <1>4, <1>5, <2>2 DEF OnePiece
  <2> QED
    BY <1>1, <2>1, <2>3, <2>4 DEF OnePiece
<1>9. SuccessIsOnDisk'
  BY <1>1, <1>4, <1>5 DEF SuccessIsOnDisk
<1>10. Quiet'
  BY <1>1, <1>4, <1>5 DEF Quiet, NoLiveMessage
<1> QED
  BY <1>6, <1>7, <1>8, <1>9, <1>10

(* A rename puts the version in hand on disk. *)
LEMMA WorkerRenamesWork ==
  ASSUME IInv, TypeOK', WorkerRenames
  PROVE  SuccessIsOnDisk'
<1> USE DEF IInv
<1>1. /\ thread = "running" /\ wpc = "rename"
      /\ UNCHANGED <<attached, pending, generation, task, results>>
      /\ \/ wpc' = "ok" /\ disk' = [disk EXCEPT ![task.path] = task.id]
         \/ wpc' = "error" /\ disk' = disk
  BY DEF WorkerRenames, WorkerGoes, WriteFile
<1>2. task \in Task /\ [id |-> task.id, path |-> task.path] \in pending
  BY <1>1, RenameIsPending
<1>3. \A j \in pending : j.id = task.id => j.path = task.path
  BY <1>2 DEF IdsInOrder
<1>4. attached => \A i \in 1..Len(results) : results[i].gen # generation
  BY <1>1 DEF OnePiece, HandIsLive
<1>5. CASE wpc' = "ok" /\ disk' = [disk EXCEPT ![task.path] = task.id]
  <2>1. disk'[task.path] = task.id
    BY <1>2, <1>5 DEF TypeOK, DiskOK
  <2>2. \A j \in pending' : j.id = task'.id => disk'[j.path] >= j.id
    BY <1>1, <1>2, <1>3, <2>1 DEF TypeOK, QueueOK
  <2> QED
    BY <1>1, <1>4, <2>2 DEF SuccessIsOnDisk
<1>6. CASE wpc' = "error"
  BY <1>1, <1>4, <1>6 DEF SuccessIsOnDisk
<1> QED
  BY <1>1, <1>5, <1>6

(* The flush loop tries the oldest job that is left. *)
LEMMA FlushWritesWork ==
  ASSUME IInv, TypeOK', FlushWrites
  PROVE  InFlightWork' /\ SuccessIsOnDisk' /\ FlushLoop'
<1> USE DEF IInv
<1>1. PICK job \in todo :
        /\ pc = "write" /\ pc' = "write" /\ todo' = todo \ {job}
        /\ \A k \in todo : job.id <= k.id
        /\ \/ /\ pending' = {j \in pending : ~(j.path = job.path /\ j.id <= job.id)}
              /\ failedPaths' = failedPaths \ {job.path}
           \/ pending' = pending /\ failedPaths' = failedPaths \union {job.path}
        /\ UNCHANGED <<attached, hasControl, generation, thread, wpc, task, inbox, results, lock>>
  BY DEF FlushWrites, First, Acknowledge
<1>2. todo \subseteq pending /\ pending \subseteq Job
  BY <1>1 DEF FlushLoop, TypeOK, QueueOK
<1>3. \A k \in todo \ {job} : job.id < k.id
  BY <1>1, <1>2 DEF IdsInOrder
<1>4. todo' \subseteq pending'
  BY <1>1, <1>2, <1>3
<1>5. ASSUME NEW j \in pending' \ todo'
      PROVE  j.path \in failedPaths' /\ \A t \in todo' : j.id < t.id
  <2>1. CASE j = job
    BY <1>1, <1>2, <1>3, <2>1
  <2>2. CASE j # job
    BY <1>1, <1>2, <1>5, <2>2 DEF FlushLoop
  <2> QED
    BY <2>1, <2>2
<1>6. FlushLoop'
  BY <1>1, <1>4, <1>5 DEF FlushLoop
<1>7. attached => NoLiveMessage /\ wpc # "rename"
  BY <1>1 DEF Quiet, Control
<1>8. InFlightWork' /\ SuccessIsOnDisk'
  BY <1>1, <1>7 DEF InFlightWork, SuccessIsOnDisk, NoLiveMessage, HandIsLive
<1> QED
  BY <1>6, <1>8

(* A synchronous save runs when no live work is left. *)
LEMMA SyncSaveWork ==
  ASSUME IInv, TypeOK', SyncSave
  PROVE  InFlightWork' /\ SuccessIsOnDisk'
<1> USE DEF IInv
<1>1. /\ pc = "sync"
      /\ UNCHANGED <<attached, generation, thread, wpc, task, inbox, results>>
  BY DEF SyncSave
<1>2. attached => NoLiveMessage
  BY <1>1 DEF Quiet
<1>3. attached => wpc # "rename"
  BY <1>1 DEF Quiet
<1> QED
  BY <1>1, <1>2, <1>3 DEF InFlightWork, SuccessIsOnDisk, NoLiveMessage, HandIsLive

(* Taking the lock, and queueing a job, keep the control structure. *)
LEMMA RemainingControl ==
  ASSUME IInv, TypeOK', FlushLocks \/ \E p \in Paths : SaveQueued(p)
  PROVE  Control'
<1>1. CASE FlushLocks
  BY <1>1 DEF FlushLocks, IInv, Control
<1>2. ASSUME NEW p \in Paths, SaveQueued(p)
      PROVE  Control'
  <2>1. /\ AsyncEnabled
        /\ UNCHANGED <<pc, attached, hasControl, lock, thread, wpc>>
    BY <1>2 DEF SaveQueued
  <2>2. attached /\ thread # "none"
    BY <2>1 DEF AsyncEnabled, IInv, Control
  <2> QED
    BY <2>1, <2>2 DEF IInv, Control
<1> QED
  BY <1>1, <1>2

(* Without the worker, nothing is live, and the flush needs no lock. *)
LEMMA WorkerExitWork ==
  ASSUME IInv, WorkerExitEvent
  PROVE  /\ Generations' /\ InFlightWork' /\ OnePiece' /\ SuccessIsOnDisk'
         /\ Quiet' /\ FlushLoop'
<1>1. /\ ~attached' /\ ~hasControl' /\ thread' = "stopped"
      /\ StartFlush("idle")
      /\ UNCHANGED <<generation, wpc, task, inbox, results>>
  BY DEF WorkerExitEvent, StartFlush
<1>2. Generations'
  BY <1>1 DEF IInv, Generations
<1>3. InFlightWork' /\ OnePiece' /\ SuccessIsOnDisk' /\ Quiet'
  BY <1>1 DEF InFlightWork, OnePiece, SuccessIsOnDisk, Quiet
<1>4. FlushLoop'
  BY <1>1 DEF StartFlush, FlushLoop, WorkerExitEvent
<1> QED
  BY <1>2, <1>3, <1>4

-----------------------------------------------------------------------------
(* Who may be where is settled by the guards of each step. *)
LEMMA ControlInductive == IInv /\ TypeOK' /\ [Next]_vars => Control'
<1> SUFFICES ASSUME IInv, TypeOK', [Next]_vars
             PROVE  Control'
  OBVIOUS
<1> USE DEF IInv, TypeOK, FlagsOK, MainOK, QueueOK, WorkerOK, DiskOK
<1>1. CASE \/ EnableAsyncDiskWrites
           \/ ProcessEnds
  BY <1>1 DEF EnableAsyncDiskWrites, Pump, Message, First, ProcessEnds, Control,
     InFlightWork
<1>2. CASE \/ ReadFile
           \/ FinishShutdown
           \/ WorkerErrorEvent
           \/ WorkerStops
           \/ UNCHANGED vars
  <2>1. Control
    OBVIOUS
  <2> HIDE DEF IInv, TypeOK
  <2>2. CASE ReadFile \/ FinishShutdown
    BY <2>1, <2>2 DEF ReadFile, FinishShutdown, Control
  <2>3. CASE WorkerErrorEvent \/ WorkerStops
    BY <2>1, <2>3 DEF WorkerErrorEvent, WorkerStops, Control
  <2>4. CASE UNCHANGED vars
    BY <2>1, <2>4 DEF vars, Control
  <2> QED
    BY <1>2, <2>2, <2>3, <2>4
<1>3. CASE \/ FlushTimesOut
           \/ IgnoreResult
           \/ FlushReturns
  <2>1. Control /\ (pc = "write" => after # "write" /\ after # "lock")
    OBVIOUS
  <2> HIDE DEF IInv, TypeOK
  <2>2. CASE FlushTimesOut
    BY <2>1, <2>2 DEF FlushTimesOut, Control
  <2>3. CASE IgnoreResult
    BY <2>1, <2>3 DEF IgnoreResult, Control
  <2>4. CASE FlushReturns
    <3>1. attached' = attached /\ (~attached => inFlight' = None /\ inbox' = inbox)
      BY <2>4 DEF FlushReturns, Pump
    <3> QED
      BY <2>1, <2>4, <3>1 DEF FlushReturns, Control
  <2> QED
    BY <1>3, <2>2, <2>3, <2>4
<1>4. CASE \/ WorkerLocks
           \/ WorkerChecks
           \/ WorkerPosts
           \/ WorkerRenames
  BY <1>4 DEF WorkerLocks, WorkerGoes, WorkerChecks, WorkerPosts, WorkerRenames,
     WriteFile, MayFail, Control, InFlightWork
<1>5. CASE \/ SyncSave
           \/ HandleResult
           \/ FlushWrites
  <2>1. Control
    OBVIOUS
  <2> HIDE DEF IInv, TypeOK
  <2>2. CASE SyncSave \/ FlushWrites
    <3>1. pending' \subseteq pending
      BY <2>2 DEF SyncSave, FlushWrites, Acknowledge
    <3> QED
      BY <2>1, <2>2, <3>1 DEF SyncSave, FlushWrites, Control
  <2>3. CASE HandleResult
    BY <2>1, <2>3 DEF HandleResult, Control
  <2> QED
    BY <1>5, <2>2, <2>3
<1>6. ASSUME NEW p \in Paths, SaveFallsBack(p)
      PROVE  Control'
  BY <1>6 DEF SaveFallsBack, StartFlush, Control, InFlightWork
<1>7. CASE \/ ReadThroughQueue
           \/ RetryFailedDiskWrites
           \/ ShutdownDiskWriteQueue
           \/ ProcessExit
           \/ WorkerExitEvent
  BY <1>7 DEF ReadThroughQueue, StartFlush, RetryFailedDiskWrites, Pump, Message,
     First, ShutdownDiskWriteQueue, ProcessExit, WorkerExitEvent, Control,
     InFlightWork
<1>8. ASSUME NEW p \in Paths, SaveQueued(p)
      PROVE  Control'
  BY <1>8, RemainingControl
<1>9. CASE FlushLocks
  BY <1>9, RemainingControl
<1>10. CASE WorkerTakes
  BY <1>10, WorkerTakesWork
<1> QED
  BY <1>1, <1>2, <1>3, <1>4, <1>5, <1>6, <1>7, <1>8, <1>9, <1>10 DEF Next, MainStep,
     WorkerStep, Caller

(* Every message carries a generation that has begun. *)
LEMMA GenerationsInductive == IInv /\ TypeOK' /\ [Next]_vars => Generations'
<1> SUFFICES ASSUME IInv, TypeOK', [Next]_vars
             PROVE  Generations'
  OBVIOUS
<1> USE DEF IInv
<1>1. CASE \/ EnableAsyncDiskWrites
           \/ ProcessEnds
  BY <1>1 DEF EnableAsyncDiskWrites, Pump, Message, First, ProcessEnds, Generations,
     Control
<1>2. CASE \/ ReadFile
           \/ FinishShutdown
           \/ WorkerErrorEvent
           \/ WorkerStops
           \/ UNCHANGED vars
  BY <1>2 DEF ReadFile, FinishShutdown, WorkerErrorEvent, WorkerStops, vars,
     Generations, Control
<1>3. CASE \/ FlushLocks
           \/ FlushTimesOut
  BY <1>3 DEF FlushLocks, FlushTimesOut, Generations, Control
<1>4. CASE \/ WorkerLocks
           \/ WorkerRenames
  BY <1>4 DEF WorkerLocks, WorkerGoes, WorkerRenames, WriteFile, MayFail,
     Generations, Control
<1>5. CASE \/ SyncSave
           \/ FlushWrites
  BY <1>5 DEF SyncSave, WriteFile, MayFail, Acknowledge, FlushWrites, First,
     Generations, Control
<1>6. CASE WorkerChecks
  BY <1>6 DEF WorkerChecks, WorkerGoes, Generations, TypeOK, MainOK, WorkerOK
<1>7. ASSUME NEW p \in Paths, SaveFallsBack(p)
      PROVE  Generations'
  BY <1>7, StartFlushKeeps DEF SaveFallsBack
<1>8. CASE ReadThroughQueue
  BY <1>8, StartFlushKeeps DEF ReadThroughQueue
<1>9. CASE RetryFailedDiskWrites
  BY <1>9, RetryWork
<1>10. CASE ShutdownDiskWriteQueue
  BY <1>10, StartFlushKeeps DEF ShutdownDiskWriteQueue
<1>11. CASE ProcessExit
  BY <1>11, StartFlushKeeps DEF ProcessExit
<1>12. CASE WorkerExitEvent
  BY <1>12, WorkerExitWork
<1>13. ASSUME NEW p \in Paths, SaveQueued(p)
      PROVE  Generations'
  BY <1>13, SaveQueuedWork
<1>14. CASE FlushReturns
  BY <1>14, FlushReturnsWork
<1>15. CASE IgnoreResult
  BY <1>15, IgnoreResultWork
<1>16. CASE HandleResult
  BY <1>16, HandleResultWork
<1>17. CASE WorkerTakes
  BY <1>17, WorkerTakesWork
<1>18. CASE WorkerPosts
  BY <1>18, WorkerPostsWork
<1> QED
  BY <1>1, <1>2, <1>3, <1>4, <1>5, <1>6, <1>7, <1>8, <1>9, <1>10, <1>11, <1>12,
     <1>13, <1>14, <1>15, <1>16, <1>17, <1>18 DEF Next, MainStep, WorkerStep, Caller

(* Live work stays with the job in flight, and that job stays pending. *)
LEMMA InFlightWorkInductive == IInv /\ TypeOK' /\ [Next]_vars => InFlightWork'
<1> SUFFICES ASSUME IInv, TypeOK', [Next]_vars
             PROVE  InFlightWork'
  OBVIOUS
<1> USE DEF IInv, TypeOK, FlagsOK, MainOK, QueueOK, WorkerOK, DiskOK
<1>1. CASE EnableAsyncDiskWrites
  BY <1>1 DEF EnableAsyncDiskWrites, Pump, Message, First, InFlightWork, Control,
     Generations, IdsInOrder, OnePiece, Quiet, HandIsLive, OldestOfItsFile
<1>2. CASE ProcessEnds
  BY <1>2 DEF ProcessEnds, InFlightWork, Control, Generations, IdsInOrder, OnePiece,
     Quiet, HandIsLive, OldestOfItsFile
<1>3. CASE ReadFile
  BY <1>3 DEF ReadFile, InFlightWork, Control, Generations, IdsInOrder, OnePiece,
     Quiet, HandIsLive, OldestOfItsFile
<1>4. CASE FinishShutdown
  BY <1>4 DEF FinishShutdown, InFlightWork, Control, Generations, IdsInOrder,
     OnePiece, Quiet, HandIsLive, OldestOfItsFile
<1>5. CASE WorkerErrorEvent
  BY <1>5 DEF WorkerErrorEvent, InFlightWork, Control, Generations, IdsInOrder,
     OnePiece, Quiet, HandIsLive, OldestOfItsFile
<1>6. CASE WorkerStops
  BY <1>6 DEF WorkerStops, InFlightWork, Control, Generations, IdsInOrder, OnePiece,
     Quiet, HandIsLive, OldestOfItsFile
<1>7. CASE UNCHANGED vars
  <2>1. InFlightWork
    OBVIOUS
  <2> HIDE DEF IInv, TypeOK
  <2> QED
    BY <1>7, <2>1 DEF vars, InFlightWork, HandIsLive, OldestOfItsFile
<1>8. CASE FlushLocks
  BY <1>8 DEF FlushLocks, InFlightWork, Control, Generations, IdsInOrder, OnePiece,
     Quiet, HandIsLive, OldestOfItsFile
<1>9. CASE FlushTimesOut
  BY <1>9 DEF FlushTimesOut, InFlightWork, Control, Generations, IdsInOrder,
     OnePiece, Quiet, HandIsLive, OldestOfItsFile
<1>10. CASE WorkerLocks
  BY <1>10 DEF WorkerLocks, WorkerGoes, InFlightWork, Control, Generations,
     IdsInOrder, OnePiece, Quiet, HandIsLive, OldestOfItsFile
<1>11. CASE WorkerChecks
  BY <1>11 DEF WorkerChecks, WorkerGoes, InFlightWork, Control, Generations,
     IdsInOrder, OnePiece, Quiet, HandIsLive, OldestOfItsFile
<1>12. CASE WorkerRenames
  BY <1>12 DEF WorkerRenames, WorkerGoes, WriteFile, MayFail, InFlightWork, Control,
     Generations, IdsInOrder, OnePiece, Quiet, HandIsLive, OldestOfItsFile
<1>13. ASSUME NEW p \in Paths, SaveFallsBack(p)
      PROVE  InFlightWork'
  BY <1>13, StartFlushKeeps DEF SaveFallsBack
<1>14. CASE ReadThroughQueue
  BY <1>14, StartFlushKeeps DEF ReadThroughQueue
<1>15. CASE RetryFailedDiskWrites
  BY <1>15, RetryWork
<1>16. CASE ShutdownDiskWriteQueue
  BY <1>16, StartFlushKeeps DEF ShutdownDiskWriteQueue
<1>17. CASE ProcessExit
  BY <1>17, StartFlushKeeps DEF ProcessExit
<1>18. CASE WorkerExitEvent
  BY <1>18, WorkerExitWork
<1>19. ASSUME NEW p \in Paths, SaveQueued(p)
      PROVE  InFlightWork'
  BY <1>19, SaveQueuedWork
<1>20. CASE FlushReturns
  BY <1>20, FlushReturnsWork
<1>21. CASE IgnoreResult
  BY <1>21, IgnoreResultWork
<1>22. CASE HandleResult
  BY <1>22, HandleResultWork
<1>23. CASE WorkerTakes
  BY <1>23, WorkerTakesWork
<1>24. CASE WorkerPosts
  BY <1>24, WorkerPostsWork
<1>25. CASE SyncSave
  BY <1>25, SyncSaveWork
<1>26. CASE FlushWrites
  BY <1>26, FlushWritesWork
<1> QED
  BY <1>1, <1>2, <1>3, <1>4, <1>5, <1>6, <1>7, <1>8, <1>9, <1>10, <1>11, <1>12,
     <1>13, <1>14, <1>15, <1>16, <1>17, <1>18, <1>19, <1>20, <1>21, <1>22, <1>23,
     <1>24, <1>25, <1>26 DEF Next, MainStep, WorkerStep, Caller

(* No step makes a second piece of live work. *)
LEMMA OnePieceInductive == IInv /\ TypeOK' /\ [Next]_vars => OnePiece'
<1> SUFFICES ASSUME IInv, TypeOK', [Next]_vars
             PROVE  OnePiece'
  OBVIOUS
<1> USE DEF IInv, TypeOK, FlagsOK, MainOK, QueueOK, WorkerOK, DiskOK
<1>1. CASE EnableAsyncDiskWrites
  BY <1>1 DEF EnableAsyncDiskWrites, Pump, Message, First, OnePiece, Control,
     Generations, InFlightWork, Quiet, HandIsLive
<1>2. CASE ProcessEnds
  BY <1>2 DEF ProcessEnds, OnePiece, Control, Generations, InFlightWork, Quiet,
     HandIsLive
<1>3. CASE ReadFile
  BY <1>3 DEF ReadFile, OnePiece, Control, Generations, InFlightWork, Quiet,
     HandIsLive
<1>4. CASE FinishShutdown
  BY <1>4 DEF FinishShutdown, OnePiece, Control, Generations, InFlightWork, Quiet,
     HandIsLive
<1>5. CASE WorkerErrorEvent
  BY <1>5 DEF WorkerErrorEvent, OnePiece, Control, Generations, InFlightWork, Quiet,
     HandIsLive
<1>6. CASE WorkerStops
  BY <1>6 DEF WorkerStops, OnePiece, Control, Generations, InFlightWork, Quiet,
     HandIsLive
<1>7. CASE UNCHANGED vars
  BY <1>7 DEF vars, OnePiece, Control, Generations, InFlightWork, Quiet, HandIsLive
<1>8. CASE FlushLocks
  BY <1>8 DEF FlushLocks, OnePiece, Control, Generations, InFlightWork, Quiet,
     HandIsLive
<1>9. CASE FlushTimesOut
  BY <1>9 DEF FlushTimesOut, OnePiece, Control, Generations, InFlightWork, Quiet,
     HandIsLive
<1>10. CASE WorkerLocks
  BY <1>10 DEF WorkerLocks, WorkerGoes, OnePiece, Control, Generations,
     InFlightWork, Quiet, HandIsLive
<1>11. CASE WorkerChecks
  BY <1>11 DEF WorkerChecks, WorkerGoes, OnePiece, Control, Generations,
     InFlightWork, Quiet, HandIsLive
<1>12. CASE WorkerRenames
  BY <1>12 DEF WorkerRenames, WorkerGoes, WriteFile, MayFail, OnePiece, Control,
     Generations, InFlightWork, Quiet, HandIsLive
<1>13. CASE SyncSave
  BY <1>13 DEF SyncSave, WriteFile, MayFail, Acknowledge, OnePiece, Control,
     Generations, InFlightWork, Quiet, HandIsLive
<1>14. CASE FlushWrites
  BY <1>14 DEF FlushWrites, First, WriteFile, MayFail, Acknowledge, OnePiece,
     Control, Generations, InFlightWork, Quiet, HandIsLive
<1>15. ASSUME NEW p \in Paths, SaveFallsBack(p)
      PROVE  OnePiece'
  BY <1>15, StartFlushKeeps DEF SaveFallsBack
<1>16. CASE ReadThroughQueue
  BY <1>16, StartFlushKeeps DEF ReadThroughQueue
<1>17. CASE RetryFailedDiskWrites
  BY <1>17, RetryWork
<1>18. CASE ShutdownDiskWriteQueue
  BY <1>18, StartFlushKeeps DEF ShutdownDiskWriteQueue
<1>19. CASE ProcessExit
  BY <1>19, StartFlushKeeps DEF ProcessExit
<1>20. CASE WorkerExitEvent
  BY <1>20, WorkerExitWork
<1>21. ASSUME NEW p \in Paths, SaveQueued(p)
      PROVE  OnePiece'
  BY <1>21, SaveQueuedWork
<1>22. CASE FlushReturns
  BY <1>22, FlushReturnsWork
<1>23. CASE IgnoreResult
  BY <1>23, IgnoreResultWork
<1>24. CASE HandleResult
  BY <1>24, HandleResultWork
<1>25. CASE WorkerTakes
  BY <1>25, WorkerTakesWork
<1>26. CASE WorkerPosts
  BY <1>26, WorkerPostsWork
<1> QED
  BY <1>1, <1>2, <1>3, <1>4, <1>5, <1>6, <1>7, <1>8, <1>9, <1>10, <1>11, <1>12,
     <1>13, <1>14, <1>15, <1>16, <1>17, <1>18, <1>19, <1>20, <1>21, <1>22, <1>23,
     <1>24, <1>25, <1>26 DEF Next, MainStep, WorkerStep, Caller

(* A success that will count is reported only after the rename. *)
LEMMA SuccessIsOnDiskInductive == IInv /\ TypeOK' /\ [Next]_vars => SuccessIsOnDisk'
<1> SUFFICES ASSUME IInv, TypeOK', [Next]_vars
             PROVE  SuccessIsOnDisk'
  OBVIOUS
<1> USE DEF IInv, TypeOK, FlagsOK, MainOK, QueueOK, WorkerOK, DiskOK
<1>1. CASE \/ EnableAsyncDiskWrites
           \/ ProcessEnds
  BY <1>1 DEF EnableAsyncDiskWrites, Pump, Message, First, ProcessEnds,
     SuccessIsOnDisk, Control, Generations, InFlightWork, OnePiece, Quiet,
     HandIsLive, IdsInOrder, OldestOfItsFile
<1>2. CASE \/ ReadFile
           \/ FinishShutdown
           \/ WorkerErrorEvent
           \/ WorkerStops
           \/ UNCHANGED vars
  <2>1. SuccessIsOnDisk
    OBVIOUS
  <2> HIDE DEF IInv, TypeOK
  <2>2. \/ ~attached'
        \/ UNCHANGED <<attached, wpc, task, generation, pending, disk, results>>
    BY <1>2 DEF ReadFile, FinishShutdown, WorkerErrorEvent, WorkerStops, vars, queueVars,
       shared, workerVars
  <2> QED
    BY <2>1, <2>2 DEF SuccessIsOnDisk
<1>3. CASE \/ FlushLocks
           \/ FlushTimesOut
  <2>1. SuccessIsOnDisk
    OBVIOUS
  <2> HIDE DEF IInv, TypeOK
  <2>2. UNCHANGED <<attached, wpc, task, generation, pending, disk, results>>
    BY <1>3 DEF FlushLocks, FlushTimesOut, queueVars, shared, workerVars
  <2> QED
    BY <2>1, <2>2 DEF SuccessIsOnDisk
<1>4. CASE \/ WorkerLocks
           \/ WorkerChecks
  <2>1. SuccessIsOnDisk
    OBVIOUS
  <2> HIDE DEF IInv, TypeOK
  <2>2. wpc' # "ok" /\ UNCHANGED <<attached, generation, pending, disk, results>>
    BY <1>4 DEF WorkerLocks, WorkerChecks, WorkerGoes, queueVars
  <2> QED
    BY <2>1, <2>2 DEF SuccessIsOnDisk
<1>5. ASSUME NEW p \in Paths, SaveFallsBack(p)
      PROVE  SuccessIsOnDisk'
  BY <1>5, StartFlushKeeps DEF SaveFallsBack
<1>6. CASE ReadThroughQueue
  BY <1>6, StartFlushKeeps DEF ReadThroughQueue
<1>7. CASE RetryFailedDiskWrites
  BY <1>7, RetryWork
<1>8. CASE ShutdownDiskWriteQueue
  BY <1>8, StartFlushKeeps DEF ShutdownDiskWriteQueue
<1>9. CASE ProcessExit
  BY <1>9, StartFlushKeeps DEF ProcessExit
<1>10. CASE WorkerExitEvent
  BY <1>10, WorkerExitWork
<1>11. ASSUME NEW p \in Paths, SaveQueued(p)
      PROVE  SuccessIsOnDisk'
  BY <1>11, SaveQueuedWork
<1>12. CASE FlushReturns
  BY <1>12, FlushReturnsWork
<1>13. CASE IgnoreResult
  BY <1>13, IgnoreResultWork
<1>14. CASE HandleResult
  BY <1>14, HandleResultWork
<1>15. CASE WorkerTakes
  BY <1>15, WorkerTakesWork
<1>16. CASE WorkerPosts
  BY <1>16, WorkerPostsWork
<1>17. CASE SyncSave
  BY <1>17, SyncSaveWork
<1>18. CASE FlushWrites
  BY <1>18, FlushWritesWork
<1>19. CASE WorkerRenames
  BY <1>19, WorkerRenamesWork
<1> QED
  BY <1>1, <1>2, <1>3, <1>4, <1>5, <1>6, <1>7, <1>8, <1>9, <1>10, <1>11, <1>12,
     <1>13, <1>14, <1>15, <1>16, <1>17, <1>18, <1>19 DEF Next, MainStep, WorkerStep,
     Caller

(* A flush, and a shutdown, leaves no live work behind it. *)
LEMMA QuietInductive == IInv /\ TypeOK' /\ [Next]_vars => Quiet'
<1> SUFFICES ASSUME IInv, TypeOK', [Next]_vars
             PROVE  Quiet'
  OBVIOUS
<1> USE DEF IInv, TypeOK, FlagsOK, MainOK, QueueOK, WorkerOK, DiskOK
<1>1. CASE \/ EnableAsyncDiskWrites
           \/ ProcessEnds
  BY <1>1 DEF EnableAsyncDiskWrites, Pump, Message, First, ProcessEnds, Quiet,
     Control, Generations, InFlightWork, OldestOfItsFile, HandIsLive, NoLiveMessage,
     FlushLoop
<1>2. CASE \/ ReadFile
           \/ FinishShutdown
           \/ WorkerErrorEvent
           \/ WorkerStops
           \/ UNCHANGED vars
  <2>1. Quiet
    OBVIOUS
  <2> HIDE DEF IInv, TypeOK
  <2>2. UNCHANGED <<inbox, results, generation, wpc, task>>
    BY <1>2 DEF ReadFile, FinishShutdown, WorkerErrorEvent, WorkerStops, vars, shared, workerVars
  <2>3. NoLiveMessage' = NoLiveMessage
    BY <2>2 DEF NoLiveMessage
  <2>4. \/ pc' = "idle" /\ UNCHANGED <<attached, thread>>
        \/ pc = "shutdown" /\ pc' = "idle" /\ ~attached' /\ thread' = thread
        \/ thread' = "stopped" /\ UNCHANGED <<pc, attached>>
        \/ UNCHANGED <<pc, attached, thread>>
    BY <1>2 DEF ReadFile, FinishShutdown, WorkerErrorEvent, WorkerStops, vars, mainVars,
       queueVars, workerVars
  <2> QED
    BY <2>1, <2>2, <2>3, <2>4 DEF Quiet
<1>3. CASE \/ FlushLocks
           \/ FlushTimesOut
  <2>1. Quiet /\ Control
    OBVIOUS
  <2> HIDE DEF IInv, TypeOK
  <2>2. UNCHANGED <<attached, thread, inbox, results, generation, wpc, task>>
    BY <1>3 DEF FlushLocks, FlushTimesOut, queueVars, shared, workerVars
  <2>3. NoLiveMessage' = NoLiveMessage
    BY <2>2 DEF NoLiveMessage
  <2>4. pc = "lock" /\ (pc' \in {"idle", "gone"} \/ wpc # "rename")
    BY <1>3, <2>1 DEF FlushLocks, FlushTimesOut, Control
  <2> QED
    BY <2>1, <2>2, <2>3, <2>4 DEF Quiet
<1>4. CASE \/ WorkerLocks
           \/ WorkerChecks
           \/ WorkerRenames
  BY <1>4 DEF WorkerLocks, WorkerGoes, WorkerChecks, WorkerRenames, WriteFile,
     MayFail, Quiet, Control, Generations, InFlightWork, OldestOfItsFile,
     HandIsLive, NoLiveMessage, FlushLoop
<1>5. CASE \/ SyncSave
           \/ FlushWrites
  BY <1>5 DEF SyncSave, WriteFile, MayFail, Acknowledge, FlushWrites, First, Quiet,
     Control, Generations, InFlightWork, OldestOfItsFile, HandIsLive, NoLiveMessage,
     FlushLoop
<1>6. ASSUME NEW p \in Paths, SaveFallsBack(p)
      PROVE  Quiet'
  BY <1>6, StartFlushKeeps DEF SaveFallsBack
<1>7. CASE ReadThroughQueue
  BY <1>7, StartFlushKeeps DEF ReadThroughQueue
<1>8. CASE RetryFailedDiskWrites
  BY <1>8, RetryWork
<1>9. CASE ShutdownDiskWriteQueue
  BY <1>9, StartFlushKeeps DEF ShutdownDiskWriteQueue
<1>10. CASE ProcessExit
  BY <1>10, StartFlushKeeps DEF ProcessExit
<1>11. CASE WorkerExitEvent
  BY <1>11, WorkerExitWork
<1>12. ASSUME NEW p \in Paths, SaveQueued(p)
      PROVE  Quiet'
  BY <1>12, SaveQueuedWork
<1>13. CASE FlushReturns
  BY <1>13, FlushReturnsWork
<1>14. CASE IgnoreResult
  BY <1>14, IgnoreResultWork
<1>15. CASE HandleResult
  BY <1>15, HandleResultWork
<1>16. CASE WorkerTakes
  BY <1>16, WorkerTakesWork
<1>17. CASE WorkerPosts
  BY <1>17, WorkerPostsWork
<1> QED
  BY <1>1, <1>2, <1>3, <1>4, <1>5, <1>6, <1>7, <1>8, <1>9, <1>10, <1>11, <1>12,
     <1>13, <1>14, <1>15, <1>16, <1>17 DEF Next, MainStep, WorkerStep, Caller

(* The flush loop skips only files that rest. *)
LEMMA FlushLoopInductive == IInv /\ TypeOK' /\ [Next]_vars => FlushLoop'
<1> SUFFICES ASSUME IInv, TypeOK', [Next]_vars
             PROVE  FlushLoop'
  OBVIOUS
<1> USE DEF IInv, TypeOK, FlagsOK, MainOK, QueueOK, WorkerOK, DiskOK
<1>1. CASE \/ EnableAsyncDiskWrites
           \/ ProcessEnds
  BY <1>1 DEF EnableAsyncDiskWrites, Pump, Message, First, ProcessEnds, FlushLoop,
     IdsInOrder, Control
<1>2. CASE \/ ReadFile
           \/ FinishShutdown
           \/ WorkerErrorEvent
           \/ WorkerStops
           \/ UNCHANGED vars
  BY <1>2 DEF ReadFile, FinishShutdown, WorkerErrorEvent, WorkerStops, vars,
     FlushLoop, IdsInOrder, Control
<1>3. CASE \/ FlushLocks
           \/ FlushTimesOut
           \/ IgnoreResult
  BY <1>3 DEF FlushLocks, FlushTimesOut, IgnoreResult, FlushLoop, IdsInOrder,
     Control
<1>4. CASE \/ WorkerTakes
           \/ WorkerLocks
           \/ WorkerChecks
           \/ WorkerPosts
           \/ WorkerRenames
  BY <1>4 DEF WorkerTakes, WorkerGoes, MayFail, WorkerLocks, WorkerChecks,
     WorkerPosts, WorkerRenames, WriteFile, FlushLoop, IdsInOrder, Control
<1>5. ASSUME NEW p \in Paths, SaveQueued(p)
      PROVE  FlushLoop'
  BY <1>5 DEF SaveQueued, NotSuperseded, Pump, Message, First, FlushLoop,
     IdsInOrder, Control
<1>6. CASE \/ SyncSave
           \/ HandleResult
  BY <1>6 DEF SyncSave, WriteFile, MayFail, Acknowledge, HandleResult, Pump,
     Message, First, FlushLoop, IdsInOrder, Control
<1>7. ASSUME NEW p \in Paths, SaveFallsBack(p)
      PROVE  FlushLoop'
  BY <1>7, StartFlushKeeps DEF SaveFallsBack
<1>8. CASE ReadThroughQueue
  BY <1>8, StartFlushKeeps DEF ReadThroughQueue
<1>9. CASE RetryFailedDiskWrites
  BY <1>9, RetryWork
<1>10. CASE ShutdownDiskWriteQueue
  BY <1>10, StartFlushKeeps DEF ShutdownDiskWriteQueue
<1>11. CASE ProcessExit
  BY <1>11, StartFlushKeeps DEF ProcessExit
<1>12. CASE WorkerExitEvent
  BY <1>12, WorkerExitWork
<1>13. CASE FlushReturns
  BY <1>13, FlushReturnsWork
<1>14. CASE FlushWrites
  BY <1>14, FlushWritesWork
<1> QED
  BY <1>1, <1>2, <1>3, <1>4, <1>5, <1>6, <1>7, <1>8, <1>9, <1>10, <1>11, <1>12,
     <1>13, <1>14 DEF Next, MainStep, WorkerStep, Caller

(* Ids stay in order, and no file holds more than was accepted. *)
LEMMA IdsInOrderInductive == IInv /\ TypeOK' /\ [Next]_vars => IdsInOrder'
<1> SUFFICES ASSUME IInv, TypeOK', [Next]_vars
             PROVE  IdsInOrder'
  OBVIOUS
<1> USE DEF IInv, TypeOK
<1>1. CASE EnableAsyncDiskWrites
  BY <1>1 DEF EnableAsyncDiskWrites, Pump, Message, First, IdsInOrder,
     PendingIsNewer, InFlightWork, HandIsLive, Quiet, FlushLoop, FlagsOK, QueueOK,
     MainOK, DiskOK, WorkerOK
<1>2. CASE ProcessEnds
  BY <1>2 DEF ProcessEnds, IdsInOrder, PendingIsNewer, InFlightWork, HandIsLive,
     Quiet, FlushLoop, FlagsOK, QueueOK, MainOK, DiskOK, WorkerOK
<1>3. CASE ReadFile
  BY <1>3 DEF ReadFile, IdsInOrder, PendingIsNewer, InFlightWork, HandIsLive, Quiet,
     FlushLoop, FlagsOK, QueueOK, MainOK, DiskOK, WorkerOK
<1>4. CASE FinishShutdown
  BY <1>4 DEF FinishShutdown, IdsInOrder, PendingIsNewer, InFlightWork, HandIsLive,
     Quiet, FlushLoop, FlagsOK, QueueOK, MainOK, DiskOK, WorkerOK
<1>5. CASE WorkerErrorEvent
  BY <1>5 DEF WorkerErrorEvent, IdsInOrder, PendingIsNewer, InFlightWork,
     HandIsLive, Quiet, FlushLoop, FlagsOK, QueueOK, MainOK, DiskOK, WorkerOK
<1>6. CASE WorkerStops
  BY <1>6 DEF WorkerStops, IdsInOrder, PendingIsNewer, InFlightWork, HandIsLive,
     Quiet, FlushLoop, FlagsOK, QueueOK, MainOK, DiskOK, WorkerOK
<1>7. CASE UNCHANGED vars
  BY <1>7 DEF vars, IdsInOrder, PendingIsNewer, InFlightWork, HandIsLive, Quiet,
     FlushLoop, FlagsOK, QueueOK, MainOK, DiskOK, WorkerOK
<1>8. CASE FlushLocks
  BY <1>8 DEF FlushLocks, IdsInOrder, PendingIsNewer, InFlightWork, HandIsLive,
     Quiet, FlushLoop, FlagsOK, QueueOK, MainOK, DiskOK, WorkerOK
<1>9. CASE FlushTimesOut
  BY <1>9 DEF FlushTimesOut, IdsInOrder, PendingIsNewer, InFlightWork, HandIsLive,
     Quiet, FlushLoop, FlagsOK, QueueOK, MainOK, DiskOK, WorkerOK
<1>10. CASE IgnoreResult
  BY <1>10 DEF IgnoreResult, IdsInOrder, PendingIsNewer, InFlightWork, HandIsLive,
     Quiet, FlushLoop, FlagsOK, QueueOK, MainOK, DiskOK, WorkerOK
<1>11. CASE FlushReturns
  BY <1>11 DEF FlushReturns, Pump, Message, First, IdsInOrder, PendingIsNewer,
     InFlightWork, HandIsLive, Quiet, FlushLoop, FlagsOK, QueueOK, MainOK, DiskOK,
     WorkerOK
<1>12. CASE WorkerLocks
  BY <1>12 DEF WorkerLocks, WorkerGoes, IdsInOrder, PendingIsNewer, InFlightWork,
     HandIsLive, Quiet, FlushLoop, FlagsOK, QueueOK, MainOK, DiskOK, WorkerOK
<1>13. CASE WorkerChecks
  BY <1>13 DEF WorkerChecks, WorkerGoes, IdsInOrder, PendingIsNewer, InFlightWork,
     HandIsLive, Quiet, FlushLoop, FlagsOK, QueueOK, MainOK, DiskOK, WorkerOK
<1>14. CASE WorkerPosts
  BY <1>14 DEF WorkerPosts, WorkerGoes, IdsInOrder, PendingIsNewer, InFlightWork,
     HandIsLive, Quiet, FlushLoop, FlagsOK, QueueOK, MainOK, DiskOK, WorkerOK
<1>15. CASE HandleResult
  <2>1. IdsInOrder /\ PendingIsNewer /\ disk \in [Paths -> Nat] /\ pending \subseteq Job
    BY DEF IInv, TypeOK, DiskOK, QueueOK
  <2> HIDE DEF IInv, TypeOK
  <2>2. /\ pc' = "idle" /\ UNCHANGED <<accepted, nextJobId>> /\ pending' \subseteq pending
        /\ \/ disk' = disk
           \/ \E j \in pending : disk' = [disk EXCEPT ![j.path] = j.id]
    BY <1>15 DEF HandleResult, WriteFile, Acknowledge, mainVars
  <2>3. \A p \in Paths : disk'[p] <= accepted[p]
    BY <2>1, <2>2 DEF IdsInOrder, PendingIsNewer
  <2> QED
    BY <2>1, <2>2, <2>3 DEF IdsInOrder
<1>16. CASE FlushWrites
  BY <1>16 DEF FlushWrites, First, WriteFile, MayFail, Acknowledge, IdsInOrder,
     PendingIsNewer, InFlightWork, HandIsLive, Quiet, FlushLoop, FlagsOK, QueueOK,
     MainOK, DiskOK, WorkerOK
<1>17. CASE ReadThroughQueue
  BY <1>17 DEF ReadThroughQueue, StartFlush, IdsInOrder, PendingIsNewer,
     InFlightWork, HandIsLive, Quiet, FlushLoop, FlagsOK, QueueOK, MainOK, DiskOK,
     WorkerOK
<1>18. CASE RetryFailedDiskWrites
  BY <1>18 DEF RetryFailedDiskWrites, StartFlush, Pump, Message, First, IdsInOrder,
     PendingIsNewer, InFlightWork, HandIsLive, Quiet, FlushLoop, FlagsOK, QueueOK,
     MainOK, DiskOK, WorkerOK
<1>19. CASE ShutdownDiskWriteQueue
  BY <1>19 DEF ShutdownDiskWriteQueue, StartFlush, IdsInOrder, PendingIsNewer,
     InFlightWork, HandIsLive, Quiet, FlushLoop, FlagsOK, QueueOK, MainOK, DiskOK,
     WorkerOK
<1>20. CASE ProcessExit
  BY <1>20 DEF ProcessExit, StartFlush, IdsInOrder, PendingIsNewer, InFlightWork,
     HandIsLive, Quiet, FlushLoop, FlagsOK, QueueOK, MainOK, DiskOK, WorkerOK
<1>21. CASE WorkerExitEvent
  BY <1>21 DEF WorkerExitEvent, StartFlush, IdsInOrder, PendingIsNewer,
     InFlightWork, HandIsLive, Quiet, FlushLoop, FlagsOK, QueueOK, MainOK, DiskOK,
     WorkerOK
<1>22. ASSUME NEW p \in Paths, SaveQueued(p)
      PROVE  IdsInOrder'
  <2> DEFINE job == [id |-> nextJobId, path |-> p]
  <2>1. /\ pc' = "idle" /\ pending' \subseteq pending \union {job}
        /\ nextJobId' = nextJobId + 1 /\ disk' = disk
        /\ accepted' = [accepted EXCEPT ![p] = nextJobId]
    BY <1>22 DEF SaveQueued, NotSuperseded
  <2>2. \A q \in Paths : disk'[q] <= accepted'[q] /\ accepted'[q] < nextJobId'
    BY <2>1 DEF IdsInOrder, DiskOK, MainOK
  <2>3. \A j \in pending' : j.id < nextJobId'
    BY <2>1 DEF IdsInOrder, QueueOK, MainOK
  <2>4. \A j, k \in pending' : j.id = k.id => j = k
    BY <2>1 DEF IdsInOrder, QueueOK, MainOK
  <2> QED
    BY <2>1, <2>2, <2>3, <2>4 DEF IdsInOrder
<1>23. ASSUME NEW p \in Paths, SaveFallsBack(p)
      PROVE  IdsInOrder'
  <2>1. saving' = [id |-> nextJobId, path |-> p] /\ nextJobId' = nextJobId + 1
        /\ UNCHANGED <<pending, disk, accepted>>
    BY <1>23 DEF SaveFallsBack
  <2>2. saving' \in Job /\ saving'.id = nextJobId' - 1
    BY <2>1 DEF MainOK
  <2>3. \A q \in Paths : accepted'[q] < saving'.id
    BY <2>1 DEF IdsInOrder
  <2> QED
    BY <2>1, <2>2, <2>3 DEF IdsInOrder, QueueOK, MainOK, DiskOK
<1>24. CASE SyncSave
  <2>1. /\ pc = "sync" /\ pc' = "idle" /\ nextJobId' = nextJobId
        /\ pending' \subseteq pending
        /\ \/ UNCHANGED <<disk, accepted>>
           \/ /\ disk' = [disk EXCEPT ![saving.path] = saving.id]
              /\ accepted' = [accepted EXCEPT ![saving.path] = saving.id]
    BY <1>24 DEF SyncSave, WriteFile, MayFail, Acknowledge
  <2>2. saving \in Job /\ saving.id = nextJobId - 1
    BY <2>1 DEF IdsInOrder
  <2>3. \A q \in Paths : disk'[q] <= accepted'[q] /\ accepted'[q] < nextJobId'
    BY <2>1, <2>2 DEF IdsInOrder, DiskOK, MainOK
  <2> QED
    BY <2>1, <2>3 DEF IdsInOrder
<1>25. CASE WorkerTakes
  <2>1. UNCHANGED <<pc, after, saving, pending, nextJobId, disk, accepted>>
    BY <1>25 DEF WorkerTakes, WorkerGoes
  <2> QED
    BY <2>1 DEF IdsInOrder
<1>26. CASE WorkerRenames
  <2>1. /\ UNCHANGED <<pc, after, saving, pending, nextJobId, accepted>>
        /\ disk' = disk \/ disk' = [disk EXCEPT ![task.path] = task.id]
        /\ thread = "running" /\ wpc = "rename"
    BY <1>26 DEF WorkerRenames, WorkerGoes, WriteFile
  <2>2. task \in Task /\ [id |-> task.id, path |-> task.path] \in pending
    BY <2>1, RenameIsPending
  <2>3. task.id <= accepted[task.path]
    BY <2>2 DEF PendingIsNewer
  <2>4. \A q \in Paths : disk'[q] <= accepted'[q] /\ accepted'[q] < nextJobId'
    BY <2>1, <2>2, <2>3 DEF IdsInOrder, DiskOK, MainOK
  <2> QED
    BY <2>1, <2>4 DEF IdsInOrder
<1> QED
  BY <1>1, <1>2, <1>3, <1>4, <1>5, <1>6, <1>7, <1>8, <1>9, <1>10, <1>11, <1>12,
     <1>13, <1>14, <1>15, <1>16, <1>17, <1>18, <1>19, <1>20, <1>21, <1>22, <1>23,
     <1>24, <1>25, <1>26 DEF Next, MainStep, WorkerStep, Caller

(* A job leaves the queue only when its file, or a newer job, has it. *)
LEMMA NothingLostInductive == IInv /\ TypeOK' /\ [Next]_vars => NothingLost' /\ PendingIsNewer'
<1> SUFFICES ASSUME IInv, TypeOK', [Next]_vars
             PROVE  NothingLost' /\ PendingIsNewer'
  OBVIOUS
<1> USE DEF IInv, TypeOK
<1>1. CASE EnableAsyncDiskWrites
  BY <1>1 DEF EnableAsyncDiskWrites, Pump, Message, First, NothingLost,
     PendingIsNewer, IdsInOrder, FlagsOK, QueueOK, MainOK, DiskOK, WorkerOK
<1>2. CASE ProcessEnds
  BY <1>2 DEF ProcessEnds, NothingLost, PendingIsNewer, IdsInOrder, FlagsOK,
     QueueOK, MainOK, DiskOK, WorkerOK
<1>3. CASE ReadFile
  BY <1>3 DEF ReadFile, NothingLost, PendingIsNewer, IdsInOrder, FlagsOK, QueueOK,
     MainOK, DiskOK, WorkerOK
<1>4. CASE FinishShutdown
  BY <1>4 DEF FinishShutdown, NothingLost, PendingIsNewer, IdsInOrder, FlagsOK,
     QueueOK, MainOK, DiskOK, WorkerOK
<1>5. CASE WorkerErrorEvent
  BY <1>5 DEF WorkerErrorEvent, NothingLost, PendingIsNewer, IdsInOrder, FlagsOK,
     QueueOK, MainOK, DiskOK, WorkerOK
<1>6. CASE WorkerStops
  BY <1>6 DEF WorkerStops, NothingLost, PendingIsNewer, IdsInOrder, FlagsOK,
     QueueOK, MainOK, DiskOK, WorkerOK
<1>7. CASE UNCHANGED vars
  BY <1>7 DEF vars, NothingLost, PendingIsNewer, IdsInOrder, FlagsOK, QueueOK,
     MainOK, DiskOK, WorkerOK
<1>8. CASE FlushLocks
  BY <1>8 DEF FlushLocks, NothingLost, PendingIsNewer, IdsInOrder, FlagsOK, QueueOK,
     MainOK, DiskOK, WorkerOK
<1>9. CASE FlushTimesOut
  BY <1>9 DEF FlushTimesOut, NothingLost, PendingIsNewer, IdsInOrder, FlagsOK,
     QueueOK, MainOK, DiskOK, WorkerOK
<1>10. CASE IgnoreResult
  BY <1>10 DEF IgnoreResult, NothingLost, PendingIsNewer, IdsInOrder, FlagsOK,
     QueueOK, MainOK, DiskOK, WorkerOK
<1>11. CASE FlushReturns
  BY <1>11 DEF FlushReturns, Pump, Message, First, NothingLost, PendingIsNewer,
     IdsInOrder, FlagsOK, QueueOK, MainOK, DiskOK, WorkerOK
<1>12. CASE WorkerTakes
  BY <1>12 DEF WorkerTakes, WorkerGoes, MayFail, NothingLost, PendingIsNewer,
     IdsInOrder, FlagsOK, QueueOK, MainOK, DiskOK, WorkerOK
<1>13. CASE WorkerLocks
  BY <1>13 DEF WorkerLocks, WorkerGoes, NothingLost, PendingIsNewer, IdsInOrder,
     FlagsOK, QueueOK, MainOK, DiskOK, WorkerOK
<1>14. CASE WorkerChecks
  BY <1>14 DEF WorkerChecks, WorkerGoes, NothingLost, PendingIsNewer, IdsInOrder,
     FlagsOK, QueueOK, MainOK, DiskOK, WorkerOK
<1>15. CASE WorkerPosts
  BY <1>15 DEF WorkerPosts, WorkerGoes, NothingLost, PendingIsNewer, IdsInOrder,
     FlagsOK, QueueOK, MainOK, DiskOK, WorkerOK
<1>16. ASSUME NEW p \in Paths, SaveFallsBack(p)
      PROVE  NothingLost' /\ PendingIsNewer'
  BY <1>16 DEF SaveFallsBack, StartFlush, NothingLost, PendingIsNewer, IdsInOrder,
     FlagsOK, QueueOK, MainOK, DiskOK, WorkerOK
<1>17. CASE ReadThroughQueue
  BY <1>17 DEF ReadThroughQueue, StartFlush, NothingLost, PendingIsNewer,
     IdsInOrder, FlagsOK, QueueOK, MainOK, DiskOK, WorkerOK
<1>18. CASE RetryFailedDiskWrites
  BY <1>18 DEF RetryFailedDiskWrites, StartFlush, Pump, Message, First, NothingLost,
     PendingIsNewer, IdsInOrder, FlagsOK, QueueOK, MainOK, DiskOK, WorkerOK
<1>19. CASE ShutdownDiskWriteQueue
  BY <1>19 DEF ShutdownDiskWriteQueue, StartFlush, NothingLost, PendingIsNewer,
     IdsInOrder, FlagsOK, QueueOK, MainOK, DiskOK, WorkerOK
<1>20. CASE ProcessExit
  BY <1>20 DEF ProcessExit, StartFlush, NothingLost, PendingIsNewer, IdsInOrder,
     FlagsOK, QueueOK, MainOK, DiskOK, WorkerOK
<1>21. CASE WorkerExitEvent
  BY <1>21 DEF WorkerExitEvent, StartFlush, NothingLost, PendingIsNewer, IdsInOrder,
     FlagsOK, QueueOK, MainOK, DiskOK, WorkerOK
<1>22. ASSUME NEW job \in pending,
             disk' = [disk EXCEPT ![job.path] = job.id],
             pending' = {j \in pending : ~(j.path = job.path /\ j.id <= job.id)},
             accepted' = accepted
      PROVE  NothingLost' /\ PendingIsNewer'
  <2>1. job \in Job
    BY DEF QueueOK
  <2>2. \A p \in Paths : disk'[p] = IF p = job.path THEN job.id ELSE disk[p]
    BY <1>22, <2>1 DEF DiskOK
  <2>3. NothingLost'
    <3> SUFFICES ASSUME NEW p \in Paths, disk'[p] < accepted'[p]
                 PROVE  \E j \in pending' : j.path = p /\ j.id = accepted'[p]
      BY DEF NothingLost
    <3>1. disk[p] < accepted[p]
      BY <1>22, <2>1, <2>2 DEF PendingIsNewer, DiskOK
    <3>2. PICK j \in pending : j.path = p /\ j.id = accepted[p]
      BY <3>1 DEF NothingLost
    <3>3. ~(j.path = job.path /\ j.id <= job.id)
      BY <1>22, <2>1, <2>2, <3>2 DEF DiskOK
    <3> QED
      BY <1>22, <3>2, <3>3
  <2>4. PendingIsNewer'
    BY <1>22, <2>1, <2>2 DEF PendingIsNewer, QueueOK
  <2> QED
    BY <2>3, <2>4
<1>23. ASSUME NEW p \in Paths, SaveQueued(p)
      PROVE  NothingLost' /\ PendingIsNewer'
  <2> DEFINE job == [id |-> nextJobId, path |-> p]
  <2>1. /\ pending' = {j \in pending : j.path # p \/ j.id = inFlight} \union {job}
        /\ disk' = disk /\ accepted' = [accepted EXCEPT ![p] = nextJobId]
    BY <1>23 DEF SaveQueued, NotSuperseded
  <2>2. \A q \in Paths : accepted'[q] = IF q = p THEN nextJobId ELSE accepted[q]
    BY <2>1 DEF DiskOK
  <2>3. NothingLost'
    <3> SUFFICES ASSUME NEW q \in Paths, disk'[q] < accepted'[q]
                 PROVE  \E j \in pending' : j.path = q /\ j.id = accepted'[q]
      BY DEF NothingLost
    <3>1. CASE q = p
      <4>1. job \in pending' /\ job.path = p /\ job.id = nextJobId
        BY <2>1
      <4> QED
        BY <2>2, <3>1, <4>1
    <3>2. CASE q # p
      <4>1. PICK j \in pending : j.path = q /\ j.id = accepted[q]
        BY <2>1, <2>2, <3>2 DEF NothingLost
      <4> QED
        BY <2>1, <2>2, <3>2, <4>1
    <3> QED
      BY <3>1, <3>2
  <2>4. ASSUME NEW j \in pending'
        PROVE  disk'[j.path] <= j.id /\ j.id <= accepted'[j.path]
    <3>1. CASE j = job
      BY <2>1, <2>2, <3>1 DEF IdsInOrder, DiskOK, MainOK
    <3>2. CASE j \in pending
      BY <2>1, <2>2, <3>2 DEF PendingIsNewer, IdsInOrder, DiskOK, MainOK, QueueOK
    <3> QED
      BY <2>1, <3>1, <3>2
  <2> QED
    BY <2>3, <2>4 DEF PendingIsNewer
<1>24. CASE SyncSave
  <2>1. /\ pc = "sync" /\ nextJobId' = nextJobId
        /\ \/ UNCHANGED <<disk, accepted, pending>>
           \/ /\ disk' = [disk EXCEPT ![saving.path] = saving.id]
              /\ accepted' = [accepted EXCEPT ![saving.path] = saving.id]
              /\ pending' = {j \in pending : ~(j.path = saving.path /\ j.id <= nextJobId - 1)}
    BY <1>24 DEF SyncSave, WriteFile, MayFail, Acknowledge
  <2>2. saving \in Job /\ saving.id = nextJobId - 1
    BY <2>1 DEF IdsInOrder
  <2>3. CASE UNCHANGED <<disk, accepted, pending>>
    BY <2>3 DEF NothingLost, PendingIsNewer
  <2>4. CASE /\ disk' = [disk EXCEPT ![saving.path] = saving.id]
             /\ accepted' = [accepted EXCEPT ![saving.path] = saving.id]
             /\ pending' = {j \in pending : ~(j.path = saving.path /\ j.id <= nextJobId - 1)}
    <3>1. pending' = {j \in pending : j.path # saving.path}
      BY <2>4 DEF IdsInOrder, QueueOK, MainOK
    <3>2. \A p \in Paths \ {saving.path} : disk'[p] = disk[p] /\ accepted'[p] = accepted[p]
      BY <2>4 DEF DiskOK
    <3>3. disk'[saving.path] = saving.id /\ accepted'[saving.path] = saving.id
      BY <2>2, <2>4 DEF DiskOK
    <3>4. NothingLost'
      BY <2>2, <3>1, <3>2, <3>3 DEF NothingLost
    <3>5. PendingIsNewer'
      BY <3>1, <3>2 DEF PendingIsNewer, QueueOK
    <3> QED
      BY <3>4, <3>5
  <2> QED
    BY <2>1, <2>3, <2>4
<1>25. CASE FlushWrites
  <2>1. PICK job \in First(todo) :
          \/ WriteFile(job) /\ Acknowledge(job.path, job.id)
          \/ UNCHANGED <<disk, pending>>
    BY <1>25 DEF FlushWrites
  <2>2. job \in pending /\ accepted' = accepted
    BY <1>25, <2>1 DEF FlushWrites, First, FlushLoop
  <2>3. CASE WriteFile(job) /\ Acknowledge(job.path, job.id)
    BY <1>22, <2>2, <2>3 DEF WriteFile, Acknowledge
  <2>4. CASE UNCHANGED <<disk, pending>>
    BY <2>2, <2>4 DEF NothingLost, PendingIsNewer
  <2> QED
    BY <2>1, <2>3, <2>4
<1>26. CASE HandleResult
  <2>1. /\ pc = "idle" /\ results # <<>> /\ attached /\ Head(results).gen = generation
        /\ accepted' = accepted
        /\ \E job \in {j \in pending : j.id = Head(results).id} :
             \/ /\ Head(results).outcome = "ok"
                /\ Acknowledge(job.path, job.id)
                /\ UNCHANGED <<disk, faults>>
             \/ /\ WriteFile(job)
                /\ Acknowledge(job.path, job.id)
             \/ /\ \/ /\ \E k \in pending : k.path = job.path /\ k.id > job.id
                      /\ pending' = pending \ {job}
                   \/ pending' = pending
                /\ UNCHANGED disk
    BY <1>26 DEF HandleResult
  <2>2. PICK job \in pending :
             /\ job.id = Head(results).id
             /\ \/ /\ Head(results).outcome = "ok"
                   /\ Acknowledge(job.path, job.id)
                   /\ UNCHANGED <<disk, faults>>
                \/ /\ WriteFile(job)
                   /\ Acknowledge(job.path, job.id)
                \/ /\ \/ /\ \E k \in pending : k.path = job.path /\ k.id > job.id
                         /\ pending' = pending \ {job}
                      \/ pending' = pending
                   /\ UNCHANGED disk
    BY <2>1
  <2>3. job \in Job
    BY DEF QueueOK
  <2>4. CASE Head(results).outcome = "ok" /\ Acknowledge(job.path, job.id) /\ UNCHANGED disk
    <3>1. results[1] = Head(results) /\ 1 \in 1..Len(results)
      BY <2>1 DEF WorkerOK
    <3>2. disk[job.path] >= job.id
      BY <2>1, <2>2, <2>4, <3>1 DEF SuccessIsOnDisk
    <3>3. disk[job.path] = job.id
      BY <2>3, <3>2 DEF PendingIsNewer, DiskOK
    <3>4. disk' = [disk EXCEPT ![job.path] = job.id]
      BY <2>3, <2>4, <3>3 DEF DiskOK
    <3> QED
      BY <1>22, <2>1, <2>4, <3>4 DEF Acknowledge
  <2>5. CASE WriteFile(job) /\ Acknowledge(job.path, job.id)
    BY <1>22, <2>1, <2>5 DEF WriteFile, Acknowledge
  <2>6. CASE pending' = pending /\ UNCHANGED disk
    BY <2>1, <2>6 DEF NothingLost, PendingIsNewer
  <2>7. CASE /\ \E k \in pending : k.path = job.path /\ k.id > job.id
             /\ pending' = pending \ {job} /\ UNCHANGED disk
    <3>1. job.id < accepted[job.path]
      BY <2>3, <2>7 DEF PendingIsNewer, QueueOK, DiskOK
    <3> QED
      BY <2>1, <2>3, <2>7, <3>1 DEF NothingLost, PendingIsNewer, DiskOK
  <2> QED
    BY <2>2, <2>4, <2>5, <2>6, <2>7
<1>27. CASE WorkerRenames
  <2>1. /\ UNCHANGED <<pc, after, saving, pending, nextJobId, accepted>>
        /\ disk' = disk \/ disk' = [disk EXCEPT ![task.path] = task.id]
        /\ thread = "running" /\ wpc = "rename"
    BY <1>27 DEF WorkerRenames, WorkerGoes, WriteFile
  <2>2. /\ task \in Task /\ [id |-> task.id, path |-> task.path] \in pending
        /\ OldestOfItsFile(task.id)
    BY <2>1, RenameIsPending
  <2>3. \A j \in pending : j.path = task.path => task.id <= j.id
    BY <2>2 DEF OldestOfItsFile, IdsInOrder
  <2>4. task.id <= accepted[task.path] /\ disk[task.path] <= task.id
    BY <2>2 DEF PendingIsNewer
  <2>5. \A p \in Paths : \/ disk'[p] = disk[p]
                         \/ p = task.path /\ disk'[p] = task.id /\ disk[p] <= task.id
    BY <2>1, <2>2, <2>4 DEF DiskOK
  <2>6. NothingLost'
    BY <2>1, <2>5 DEF NothingLost, DiskOK
  <2>7. PendingIsNewer'
    BY <2>1, <2>3, <2>5 DEF PendingIsNewer, QueueOK
  <2> QED
    BY <2>6, <2>7
<1> QED
  BY <1>1, <1>2, <1>3, <1>4, <1>5, <1>6, <1>7, <1>8, <1>9, <1>10, <1>11, <1>12,
     <1>13, <1>14, <1>15, <1>16, <1>17, <1>18, <1>19, <1>20, <1>21, <1>22, <1>23,
     <1>24, <1>25, <1>26, <1>27 DEF Next, MainStep, WorkerStep, Caller

-----------------------------------------------------------------------------
(* The invariant holds at the start, where every part of it is trivial. *)
LEMMA InitIInv == Init => IInv
<1> SUFFICES ASSUME Init
             PROVE  IInv
  OBVIOUS
<1> USE DEF Init
<1>1. TypeOK
  <2>1. FlagsOK
    BY Zenon DEF FlagsOK
  <2>2. MainOK /\ QueueOK
    BY DEF MainOK, QueueOK
  <2>3. WorkerOK
    BY DEF WorkerOK
  <2>4. DiskOK
    BY DEF DiskOK
  <2> QED
    BY <2>1, <2>2, <2>3, <2>4 DEF TypeOK
<1>2. IdsInOrder /\ NothingLost /\ PendingIsNewer
  BY DEF IdsInOrder, NothingLost, PendingIsNewer
<1>3. Control /\ Quiet /\ FlushLoop
  BY DEF Control, Quiet, FlushLoop
<1>4. Generations /\ InFlightWork /\ OnePiece /\ SuccessIsOnDisk
  BY DEF Generations, InFlightWork, OnePiece, SuccessIsOnDisk
<1> QED
  BY <1>1, <1>2, <1>3, <1>4 DEF IInv

(* IInv is an invariant: the lemmas above, put together. *)
THEOREM Invariance == Spec => []IInv
<1>1. IInv /\ [Next]_vars => IInv'
  <2> SUFFICES ASSUME IInv, [Next]_vars
               PROVE  IInv'
    OBVIOUS
  <2>1. TypeOK'
    BY TypeInductive DEF IInv
  <2> QED
    BY <2>1, IdsInOrderInductive, NothingLostInductive, ControlInductive,
       GenerationsInductive, InFlightWorkInductive, OnePieceInductive,
       SuccessIsOnDiskInductive, QuietInductive, FlushLoopInductive
       DEF IInv
<1> QED
  BY <1>1, InitIInv, PTL DEF Spec

(* Every variable keeps its type. *)
THEOREM TypeCorrect == Spec => []TypeOK
<1>1. IInv => TypeOK
  BY DEF IInv
<1> QED
  BY <1>1, Invariance, PTL

(* The newest snapshot taken over for a file is on disk or pending. *)
THEOREM NothingIsLost == Spec => []NothingLost
<1>1. IInv => NothingLost
  BY DEF IInv
<1> QED
  BY <1>1, Invariance, PTL

(* Work of the current generation belongs to a pending job. *)
THEOREM CurrentWork == Spec => []CurrentWorkIsPending
<1>1. IInv => CurrentWorkIsPending
  <2> SUFFICES ASSUME IInv
               PROVE  CurrentWorkIsPending
    OBVIOUS
  <2>1. /\ inbox \in Seq(Task) /\ results \in Seq(Result)
        /\ DOMAIN inbox = 1..Len(inbox) /\ DOMAIN results = 1..Len(results)
    BY DEF IInv, TypeOK, WorkerOK
  <2>2. \A r \in Elements(results) : Current(r) => r.outcome # "aborted"
    BY <2>1 DEF Elements, Current, IInv, Generations, TypeOK, MainOK
  <2>3. ASSUME NEW w, inFlight = w.id, OldestOfItsFile(w.id)
        PROVE  /\ inFlight = w.id
               /\ \E j \in pending : /\ j.id = w.id
                                     /\ \A k \in pending : k.path = j.path => j.id <= k.id
    BY <2>3 DEF OldestOfItsFile
  <2>4. ASSUME NEW w \in Elements(results) \union Elements(inbox) \union ({task} \ {NoTask}),
               Current(w)
        PROVE  inFlight = w.id /\ OldestOfItsFile(w.id)
    <3>1. attached /\ w.gen = generation
      BY <2>4 DEF Current
    <3>2. CASE w \in Elements(results)
      BY <2>1, <3>1, <3>2 DEF Elements, IInv, InFlightWork
    <3>3. CASE w \in Elements(inbox)
      BY <2>1, <3>1, <3>3 DEF Elements, IInv, InFlightWork
    <3>4. CASE w = task /\ task # NoTask
      BY <3>1, <3>4 DEF IInv, InFlightWork, HandIsLive, TypeOK, WorkerOK
    <3> QED
      BY <2>4, <3>2, <3>3, <3>4
  <2> QED
    BY <2>2, <2>3, <2>4 DEF CurrentWorkIsPending
<1> QED
  BY <1>1, Invariance, PTL

(* The flush loop and a live worker never commit at the same time. *)
THEOREM Exclusion == Spec => []CommitExclusion
<1>1. IInv => CommitExclusion
  BY DEF IInv, CommitExclusion, Quiet, Control
<1> QED
  BY <1>1, Invariance, PTL

(* A read that was let through sees the newest snapshot of healthy files. *)
THEOREM FreshReads == Spec => []ReadsAreFresh
<1>1. IInv => ReadsAreFresh
  <2> SUFFICES ASSUME IInv, pc \in {"read", "exit"}, NEW p \in Paths, p \notin failedPaths
               PROVE  disk[p] = accepted[p]
    BY DEF ReadsAreFresh
  <2>1. \A j \in pending : j.path # p
    BY DEF IInv, FlushLoop
  <2>2. ~(disk[p] < accepted[p])
    BY <2>1 DEF IInv, NothingLost
  <2>3. disk[p] <= accepted[p] /\ disk[p] \in Nat /\ accepted[p] \in Nat
    BY DEF IInv, IdsInOrder, TypeOK, DiskOK
  <2> QED
    BY <2>2, <2>3
<1> QED
  BY <1>1, Invariance, PTL

(* Two jobs stand for all the versions of a file that are pending. *)
Versions(p) == {j \in pending : j.path = p}
AtMostTwo == \A p \in Paths : \E a, b \in Job : Versions(p) \subseteq {a, b}

(* A save leaves no version of its file but the one in flight and its own; *)
(* no other step adds to pending.                                          *)
LEMMA AtMostTwoInductive == IInv /\ AtMostTwo /\ [Next]_vars => AtMostTwo'
<1> SUFFICES ASSUME IInv, AtMostTwo, [Next]_vars
             PROVE  AtMostTwo'
  OBVIOUS
<1>1. ASSUME pending' \subseteq pending
      PROVE  AtMostTwo'
  <2> SUFFICES ASSUME NEW p \in Paths
               PROVE  \E a, b \in Job : Versions(p)' \subseteq {a, b}
    BY DEF AtMostTwo
  <2>1. PICK a \in Job, b \in Job : Versions(p) \subseteq {a, b}
    BY DEF AtMostTwo
  <2>2. Versions(p)' \subseteq {a, b}
    BY <1>1, <2>1 DEF Versions
  <2> QED
    BY <2>2
<1>2. ASSUME NEW p \in Paths, SaveQueued(p)
      PROVE  AtMostTwo'
  <2> DEFINE job == [id |-> nextJobId, path |-> p]
  <2>1. /\ job \in Job
        /\ pending \subseteq Job
        /\ \A j, k \in pending : j.id = k.id => j = k
        /\ pending' = NotSuperseded(p) \union {job}
    BY <1>2 DEF SaveQueued, IInv, TypeOK, MainOK, QueueOK, IdsInOrder
  <2> SUFFICES ASSUME NEW q \in Paths
               PROVE  \E a, b \in Job : Versions(q)' \subseteq {a, b}
    BY DEF AtMostTwo
  <2> HIDE DEF job
  <2>2. CASE q # p
    <3>1. PICK a \in Job, b \in Job : Versions(q) \subseteq {a, b}
      BY DEF AtMostTwo
    <3>2. job.path = p
      BY DEF job
    <3>3. Versions(q)' \subseteq {a, b}
      BY <2>1, <2>2, <3>1, <3>2 DEF Versions, NotSuperseded
    <3> QED
      BY <3>3
  <2>3. CASE q = p
    <3>1. \A j \in Versions(p)' : j = job \/ (j \in pending /\ j.id = inFlight)
      BY <2>1 DEF Versions, NotSuperseded
    <3>2. CASE \E a \in pending : a.id = inFlight
      <4>1. PICK a \in pending : a.id = inFlight
        BY <3>2
      <4>2. Versions(p)' \subseteq {a, job} /\ a \in Job
        BY <2>1, <3>1, <4>1
      <4> QED
        BY <2>1, <2>3, <4>2
    <3>3. CASE ~ \E a \in pending : a.id = inFlight
      <4>1. Versions(p)' \subseteq {job, job}
        BY <3>1, <3>3
      <4> QED
        BY <2>1, <2>3, <4>1
    <3> QED
      BY <3>2, <3>3
  <2> QED
    BY <2>2, <2>3
<1>3. CASE \/ EnableAsyncDiskWrites
           \/ \E p \in Paths : SaveFallsBack(p)
           \/ SyncSave
           \/ ReadThroughQueue
           \/ ReadFile
           \/ RetryFailedDiskWrites
           \/ ShutdownDiskWriteQueue
           \/ FinishShutdown
           \/ ProcessExit
           \/ ProcessEnds
           \/ UNCHANGED vars
  BY <1>1, <1>3 DEF EnableAsyncDiskWrites, SaveFallsBack, SyncSave, Acknowledge,
     ReadThroughQueue, ReadFile, RetryFailedDiskWrites, ShutdownDiskWriteQueue,
     FinishShutdown, ProcessExit, ProcessEnds, vars
<1>4. CASE \/ FlushLocks
           \/ FlushTimesOut
           \/ FlushWrites
           \/ FlushReturns
           \/ IgnoreResult
           \/ HandleResult
           \/ WorkerErrorEvent
           \/ WorkerExitEvent
  <2>1. pending' \subseteq pending
    BY <1>4 DEF FlushLocks, FlushTimesOut, FlushWrites, FlushReturns, IgnoreResult,
       HandleResult, Acknowledge, WorkerErrorEvent, WorkerExitEvent
  <2> QED
    BY <1>1, <2>1
<1>5. CASE \/ WorkerTakes
           \/ WorkerLocks
           \/ WorkerChecks
           \/ WorkerRenames
           \/ WorkerPosts
           \/ WorkerStops
  BY <1>1, <1>5 DEF WorkerTakes, WorkerLocks, WorkerChecks, WorkerRenames, WorkerPosts,
     WorkerStops, WorkerGoes
<1> QED
  BY <1>2, <1>3, <1>4, <1>5 DEF Next, MainStep, WorkerStep, Caller

(* At most two versions of a file are pending, however many saves are made *)
(* while the worker is busy.                                               *)
THEOREM QueueIsBounded == Spec => []TwoVersionsPerFile
<1>1. Init /\ IInv => AtMostTwo
  <2> SUFFICES ASSUME Init, NEW p \in Paths
               PROVE  \E a, b \in Job : Versions(p) \subseteq {a, b}
    BY DEF AtMostTwo
  <2>1. [id |-> 1, path |-> p] \in Job /\ Versions(p) = {}
    BY DEF Init, Versions
  <2> QED
    BY <2>1
<1>2. AtMostTwo => TwoVersionsPerFile
  <2> SUFFICES ASSUME AtMostTwo, NEW p \in Paths
               PROVE  Cardinality({j \in pending : j.path = p}) <= 2
    BY DEF TwoVersionsPerFile
  <2>1. PICK a \in Job, b \in Job : Versions(p) \subseteq {a, b}
    BY DEF AtMostTwo
  <2>2. IsFiniteSet({a}) /\ Cardinality({a}) = 1
    BY FS_Singleton
  <2>3. /\ IsFiniteSet({a} \union {b})
        /\ Cardinality({a} \union {b}) = IF b \in {a} THEN Cardinality({a}) ELSE Cardinality({a}) + 1
    BY <2>2, FS_AddElement, Zenon
  <2>4. {a} \union {b} = {a, b}
    OBVIOUS
  <2>5. IsFiniteSet({a, b}) /\ Cardinality({a, b}) \in {1, 2}
    BY <2>2, <2>3, <2>4
  <2>6. /\ Cardinality(Versions(p)) <= Cardinality({a, b})
        /\ IsFiniteSet(Versions(p))
    BY <2>1, <2>5, FS_Subset, Zenon
  <2>7. Cardinality(Versions(p)) \in Nat
    BY <2>6, FS_CardinalityType
  <2>8. Cardinality(Versions(p)) <= 2
    BY <2>5, <2>6, <2>7
  <2> QED
    BY <2>8 DEF Versions
<1> QED
  BY <1>1, <1>2, Invariance, AtMostTwoInductive, PTL DEF Spec

(* What a step can do to the files and to what was accepted for them. *)
Forward(p, v) == /\ disk[p] <= v /\ v <= accepted[p]
                 /\ disk' = [disk EXCEPT ![p] = v] /\ accepted' = accepted
Newer(p, v) == /\ v > accepted[p]
               /\ accepted' = [accepted EXCEPT ![p] = v]
               /\ disk' = disk \/ disk' = [disk EXCEPT ![p] = v]

(* A step moves one file forward, accepts one snapshot, or ends the process. *)
LEMMA StepsOnFiles ==
  ASSUME IInv, [Next]_vars
  PROVE  \/ UNCHANGED <<accepted, disk>>
         \/ accepted' = disk /\ disk' = disk
         \/ \E p \in Paths, v \in Nat : Forward(p, v) \/ Newer(p, v)
<1> DEFINE Goal == \/ UNCHANGED <<accepted, disk>>
                   \/ accepted' = disk /\ disk' = disk
                   \/ \E p \in Paths, v \in Nat : Forward(p, v) \/ Newer(p, v)
<1>1. ASSUME NEW job \in pending, WriteFile(job), accepted' = accepted
      PROVE  Goal
  <2>1. job \in Job /\ disk[job.path] <= job.id /\ job.id <= accepted[job.path]
    BY DEF IInv, TypeOK, QueueOK, PendingIsNewer
  <2> QED
    BY <1>1, <2>1 DEF WriteFile, Forward
<1>2. ASSUME NEW p \in Paths, SaveQueued(p)
      PROVE  Goal
  <2>1. nextJobId \in Nat /\ nextJobId > accepted[p]
    BY DEF IInv, TypeOK, MainOK, DiskOK, IdsInOrder
  <2> QED
    BY <1>2, <2>1 DEF SaveQueued, Newer
<1>3. CASE SyncSave
  <2>1. /\ pc = "sync"
        /\ \/ UNCHANGED <<disk, accepted>>
           \/ /\ disk' = [disk EXCEPT ![saving.path] = saving.id]
              /\ accepted' = [accepted EXCEPT ![saving.path] = saving.id]
    BY <1>3 DEF SyncSave, WriteFile
  <2>2. saving \in Job /\ saving.id > accepted[saving.path]
    BY <2>1 DEF IInv, IdsInOrder, TypeOK, MainOK, DiskOK
  <2> QED
    BY <2>1, <2>2 DEF Newer
<1>4. CASE FlushWrites
  <2>1. PICK job \in First(todo) : WriteFile(job) \/ disk' = disk
    BY <1>4 DEF FlushWrites
  <2>2. job \in pending /\ accepted' = accepted
    BY <1>4, <2>1 DEF FlushWrites, First, IInv, FlushLoop
  <2> QED
    BY <1>1, <2>1, <2>2
<1>5. CASE HandleResult
  <2>1. PICK job \in pending : WriteFile(job) \/ disk' = disk
    BY <1>5 DEF HandleResult
  <2>2. accepted' = accepted
    BY <1>5 DEF HandleResult
  <2> QED
    BY <1>1, <2>1, <2>2
<1>6. CASE WorkerRenames
  <2>1. /\ thread = "running" /\ wpc = "rename" /\ accepted' = accepted
        /\ disk' = disk \/ disk' = [disk EXCEPT ![task.path] = task.id]
    BY <1>6 DEF WorkerRenames, WorkerGoes, WriteFile
  <2>2. task \in Task /\ [id |-> task.id, path |-> task.path] \in pending
    BY <2>1, RenameIsPending DEF IInv
  <2>3. disk[task.path] <= task.id /\ task.id <= accepted[task.path]
    BY <2>2 DEF IInv, PendingIsNewer
  <2> QED
    BY <2>1, <2>2, <2>3 DEF Forward
<1>7. CASE ProcessEnds
  BY <1>7 DEF ProcessEnds
<1>8. CASE \/ EnableAsyncDiskWrites
           \/ \E p \in Paths : SaveFallsBack(p)
           \/ ReadThroughQueue
           \/ ReadFile
           \/ RetryFailedDiskWrites
           \/ ShutdownDiskWriteQueue
           \/ FinishShutdown
           \/ ProcessExit
           \/ UNCHANGED vars
  BY <1>8 DEF EnableAsyncDiskWrites, SaveFallsBack, ReadThroughQueue, ReadFile,
     RetryFailedDiskWrites, ShutdownDiskWriteQueue, FinishShutdown, ProcessExit, vars
<1>9. CASE \/ FlushLocks
           \/ FlushTimesOut
           \/ FlushReturns
           \/ IgnoreResult
           \/ WorkerErrorEvent
           \/ WorkerExitEvent
  BY <1>9 DEF FlushLocks, FlushTimesOut, FlushReturns, IgnoreResult, WorkerErrorEvent,
     WorkerExitEvent
<1>10. CASE \/ WorkerTakes
            \/ WorkerLocks
            \/ WorkerChecks
            \/ WorkerPosts
            \/ WorkerStops
  BY <1>10 DEF WorkerTakes, WorkerLocks, WorkerChecks, WorkerPosts, WorkerStops, WorkerGoes
<1> QED
  BY <1>2, <1>3, <1>4, <1>5, <1>6, <1>7, <1>8, <1>9, <1>10
     DEF Next, MainStep, WorkerStep, Caller

(* No file is ever replaced by an older snapshot. *)
THEOREM FilesMoveForward == Spec => FilesNeverRegress
<1>1. ASSUME IInv, [Next]_vars
      PROVE  \A p \in Paths : disk'[p] >= disk[p]
  <2>1. disk \in [Paths -> Nat] /\ accepted \in [Paths -> Nat]
        /\ \A p \in Paths : disk[p] <= accepted[p]
    BY <1>1 DEF IInv, TypeOK, DiskOK, IdsInOrder
  <2> QED
    BY <1>1, <2>1, StepsOnFiles DEF Forward, Newer
<1>2. IInv /\ [Next]_vars => [\A p \in Paths : disk'[p] >= disk[p]]_vars
  BY <1>1
<1> QED
  BY <1>2, Invariance, PTL DEF Spec, FilesNeverRegress

(* The queue, its worker and its locks implement DurableFiles. *)
THEOREM Implementation == Spec => ImplementsDurableFiles
<1>1. Init => Files!Init
  BY DEF Init, Files!Init
<1>2. IInv /\ [Next]_vars => [Files!Next]_(Files!vars)
  <2> SUFFICES ASSUME IInv, [Next]_vars
               PROVE  Files!Next \/ UNCHANGED <<accepted, disk>>
    BY DEF Files!vars
  <2>1. disk \in [Paths -> Nat] /\ accepted \in [Paths -> Nat]
    BY DEF IInv, TypeOK, DiskOK
  <2>2. ASSUME NEW p \in Paths, NEW v \in Nat, Forward(p, v)
        PROVE  Files!Next \/ UNCHANGED <<accepted, disk>>
    <3>1. CASE v = disk[p]
      BY <2>1, <2>2, <3>1 DEF Forward
    <3>2. CASE v # disk[p]
      <4>1. disk'[p] = v /\ disk'[p] > disk[p] /\ disk'[p] <= accepted[p]
        BY <2>1, <2>2, <3>2 DEF Forward
      <4>2. Files!Persist(p)
        BY <2>2, <4>1 DEF Forward, Files!Persist
      <4> QED
        BY <4>2 DEF Files!Next
    <3> QED
      BY <3>1, <3>2
  <2>3. ASSUME NEW p \in Paths, NEW v \in Nat, Newer(p, v)
        PROVE  Files!Next
    <3>1. accepted'[p] = v /\ accepted'[p] > accepted[p]
      BY <2>1, <2>3 DEF Newer
    <3>2. CASE disk' = disk
      <4>1. Files!Accept(p)
        BY <2>3, <3>1, <3>2 DEF Newer, Files!Accept
      <4> QED
        BY <4>1 DEF Files!Next
    <3>3. CASE disk' = [disk EXCEPT ![p] = v]
      <4>1. disk'[p] = v
        BY <2>1, <3>3
      <4>2. Files!WriteThrough(p)
        BY <2>3, <3>1, <3>3, <4>1 DEF Newer, Files!WriteThrough
      <4> QED
        BY <4>2 DEF Files!Next
    <3> QED
      BY <2>3, <3>2, <3>3 DEF Newer
  <2>4. ASSUME accepted' = disk /\ disk' = disk
        PROVE  Files!Next
    BY <2>4 DEF Files!Next, Files!ProcessEnds
  <2> QED
    BY <2>2, <2>3, <2>4, StepsOnFiles
<1> QED
  BY <1>1, <1>2, Invariance, PTL DEF Spec, ImplementsDurableFiles, Files!Spec

-----------------------------------------------------------------------------
(* A message that was appended to the inbox is a piece of work under way,  *)
(* and so is every piece that was there before.                            *)
LEMMA PumpKeepsPiece ==
  ASSUME TypeOK, NEW current, Pump(current), generation' = generation,
         UNCHANGED <<wpc, task, results>>, pending' \subseteq Job,
         current # None => PieceUnderWay
  PROVE  inFlight' # None => PieceUnderWay'
<1>1. inbox \in Seq(Task) /\ generation \in Nat
  BY DEF TypeOK, WorkerOK, MainOK
<1>2. CASE inFlight' = current /\ inbox' = inbox
  BY <1>2 DEF PieceUnderWay
<1>3. ASSUME NEW next \in pending',
             inbox' = Append(inbox, [id |-> next.id, path |-> next.path, gen |-> generation'])
      PROVE  PieceUnderWay'
  <2>1. next \in Job /\ [id |-> next.id, path |-> next.path, gen |-> generation] \in Task
    BY <1>1
  <2>2. /\ Len(inbox') \in Nat \ {0}
        /\ inbox'[Len(inbox')].gen = generation
    BY <1>1, <1>3, <2>1, AppendElements
  <2>3. Len(inbox') \in 1..Len(inbox')
    BY <2>2
  <2> QED
    BY <2>2, <2>3 DEF PieceUnderWay
<1> QED
  BY <1>2, <1>3, PumpSends

(* After the pump an enabled queue with nothing in flight has only resting *)
(* jobs: otherwise the pump would have sent one.                           *)
LEMMA PumpLeavesNothing ==
  ASSUME pending' \subseteq Job, NEW current, Pump(current),
         AsyncEnabled', inFlight' = None
  PROVE  AllRest'
<1>1. \A next \in pending' : next.id # None
  OBVIOUS
<1>2. ~ \E next \in First({j \in pending' : j.path \notin failedPaths'}) : inFlight' = next.id
  BY <1>1 DEF First
<1>3. {j \in pending' : j.path \notin failedPaths'} = {}
  BY <1>2 DEF Pump, AsyncEnabled
<1> QED
  BY <1>3 DEF AllRest

(* A handler that ends in the pump, with no flush under way, leaves every  *)
(* pending job owed to somebody.                                           *)
LEMMA PumpingOwes ==
  ASSUME TypeOK, TypeOK', OwedInv, NEW current, Pump(current), generation' = generation,
         UNCHANGED <<wpc, task, results, thread, slow>>,
         slow = 0 /\ thread = "running" /\ attached' /\ current # None => PieceUnderWay,
         ~attached' /\ ~hasControl' => AllRest'
  PROVE  OwedInv'
<1>1. pending' \subseteq Job
  BY DEF TypeOK, QueueOK
<1>2. NothingToSend'
  BY <1>1, PumpLeavesNothing DEF NothingToSend
<1>3. OrphansRest'
  BY DEF OrphansRest
<1>4. InFlightIsUnderWay'
  BY <1>1, PumpKeepsPiece DEF InFlightIsUnderWay
<1> QED
  BY <1>2, <1>3, <1>4 DEF OwedInv

(* A step that leaves the queue, the thread and the work alone, and does   *)
(* not leave a flush, keeps what is owed.                                  *)
LEMMA QuietStepOwes ==
  ASSUME OwedInv, Settled' => Settled,
         UNCHANGED <<pending, failedPaths, inFlight, attached, hasControl, slow,
                     inbox, results, wpc, task, generation>>,
         enabled' => enabled, thread' = "running" => thread = "running"
  PROVE  OwedInv'
<1>1. PieceUnderWay <=> PieceUnderWay'
  BY DEF PieceUnderWay
<1>2. AllRest <=> AllRest'
  BY DEF AllRest
<1> QED
  BY <1>1, <1>2 DEF OwedInv, InFlightIsUnderWay, NothingToSend, OrphansRest, AsyncEnabled

(* The head of a flush either goes into it, or finds nothing pending.      *)
LEMMA StartFlushOwes ==
  ASSUME OwedInv, NEW returnTo, StartFlush(returnTo), pc = "idle",
         UNCHANGED <<pending, failedPaths, inFlight, attached, hasControl, enabled, slow,
                     inbox, results, wpc, task, thread>>
  PROVE  OwedInv'
<1>1. CASE pc' \in {"lock", "write"}
  BY <1>1 DEF OwedInv, InFlightIsUnderWay, NothingToSend, OrphansRest, Settled
<1>2. CASE generation' = generation
  BY <1>2, QuietStepOwes DEF Settled
<1> QED
  BY <1>1, <1>2 DEF StartFlush

(* What the worker does with its message leaves a piece under way.         *)
LEMMA WorkerOwes ==
  ASSUME TypeOK, TypeOK', OwedInv, WorkerStep
  PROVE  OwedInv'
<1>1. /\ UNCHANGED <<pc, pending, failedPaths, inFlight, enabled, attached, hasControl,
                     slow, thread, generation>>
      /\ inbox \in Seq(Task) /\ results \in Seq(Result)
  BY DEF WorkerStep, WorkerTakes, WorkerLocks, WorkerChecks, WorkerRenames, WorkerPosts,
         WorkerGoes, TypeOK, WorkerOK
<1>2. PieceUnderWay => PieceUnderWay'
  <2>1. CASE WorkerTakes
    <3>1. /\ wpc = "idle" /\ wpc' # "idle" /\ inbox # <<>>
          /\ task' = Head(inbox) /\ inbox' = Tail(inbox) /\ results' = results
      BY <2>1 DEF WorkerTakes, WorkerGoes
    <3>2. ASSUME NEW i \in 1..Len(inbox), inbox[i].gen = generation
          PROVE  PieceUnderWay'
      <4>1. /\ Head(inbox) = inbox[1] /\ Len(inbox') = Len(inbox) - 1 /\ Len(inbox) \in Nat
            /\ \A k \in 1..Len(inbox') : inbox'[k] = inbox[k + 1]
        BY <1>1, <3>1, TailElements
      <4>2. CASE i = 1
        BY <1>1, <3>1, <3>2, <4>1, <4>2 DEF PieceUnderWay
      <4>3. CASE i # 1
        <5>1. i - 1 \in 1..Len(inbox') /\ inbox'[i - 1] = inbox[i]
          BY <4>1, <4>3
        <5> QED
          BY <1>1, <3>2, <5>1 DEF PieceUnderWay
      <4> QED
        BY <4>2, <4>3
    <3> QED
      BY <1>1, <3>1, <3>2 DEF PieceUnderWay
  <2>2. CASE WorkerPosts
    <3> DEFINE r == [id |-> task.id, gen |-> task.gen, outcome |-> wpc]
    <3>1. /\ wpc # "idle" /\ inbox' = inbox /\ results' = Append(results, r)
          /\ wpc \in {"ok", "aborted", "error"}
      BY <2>2 DEF WorkerPosts, WorkerGoes
    <3>2. r \in Result /\ r.gen = task.gen
      BY <3>1 DEF TypeOK, WorkerOK
    <3> HIDE DEF r
    <3>3. /\ Len(results') = Len(results) + 1 /\ Len(results) \in Nat
          /\ \A i \in 1..Len(results) : results'[i] = results[i]
          /\ results'[Len(results) + 1] = r
      BY <1>1, <3>1, <3>2, AppendElements
    <3>4. ASSUME NEW i \in 1..Len(results), results[i].gen = generation
          PROVE  PieceUnderWay'
      BY <1>1, <3>3, <3>4 DEF PieceUnderWay
    <3>5. ASSUME task.gen = generation
          PROVE  PieceUnderWay'
      <4>1. Len(results) + 1 \in 1..Len(results')
        BY <3>3
      <4> QED
        BY <1>1, <3>2, <3>3, <3>5, <4>1 DEF PieceUnderWay
    <3> QED
      BY <1>1, <3>1, <3>4, <3>5 DEF PieceUnderWay
  <2>3. CASE WorkerLocks \/ WorkerChecks \/ WorkerRenames
    <3>1. UNCHANGED <<task, inbox, results>> /\ wpc' # "idle"
      BY <2>3 DEF WorkerLocks, WorkerChecks, WorkerRenames, WorkerGoes
    <3> QED
      BY <1>1, <3>1 DEF PieceUnderWay
  <2> QED
    BY <2>1, <2>2, <2>3 DEF WorkerStep
<1>3. AllRest <=> AllRest'
  BY <1>1 DEF AllRest
<1> QED
  BY <1>1, <1>2, <1>3
     DEF OwedInv, InFlightIsUnderWay, NothingToSend, OrphansRest, AsyncEnabled, Settled

(* A result that counts ends the work in flight, and the pump takes over;  *)
(* one that is ignored was nobody's work.                                  *)
LEMMA ResultOwes ==
  ASSUME IInv, TypeOK', OwedInv, IgnoreResult \/ HandleResult
  PROVE  OwedInv'
<1>1. /\ results # <<>> /\ results' = Tail(results) /\ results \in Seq(Result)
      /\ UNCHANGED <<pc, enabled, attached, hasControl, slow, thread, generation, wpc, task>>
  BY DEF IgnoreResult, HandleResult, IInv, TypeOK, WorkerOK
<1>2. /\ Len(results) \in Nat \ {0} /\ Head(results) = results[1]
      /\ Len(results') = Len(results) - 1
      /\ \A k \in 1..Len(results') : results'[k] = results[k + 1]
  BY <1>1, TailElements
<1>3. CASE IgnoreResult
  <2>1. /\ ~attached \/ Head(results).gen # generation
        /\ UNCHANGED <<pending, failedPaths, inFlight, inbox>>
    BY <1>3 DEF IgnoreResult
  <2>2. attached /\ PieceUnderWay => PieceUnderWay'
    <3>1. ASSUME NEW i \in 1..Len(results), attached, results[i].gen = generation
          PROVE  PieceUnderWay'
      <4>1. i - 1 \in 1..Len(results') /\ results'[i - 1] = results[i]
        BY <1>2, <2>1, <3>1
      <4> QED
        BY <1>1, <3>1, <4>1 DEF PieceUnderWay
    <3> QED
      BY <1>1, <2>1, <3>1 DEF PieceUnderWay
  <2>3. AllRest <=> AllRest'
    BY <2>1 DEF AllRest
  <2> QED
    BY <1>1, <2>1, <2>2, <2>3
       DEF OwedInv, InFlightIsUnderWay, NothingToSend, OrphansRest, AsyncEnabled, Settled
<1>4. CASE HandleResult
  <2>1. attached /\ Head(results).gen = generation
    BY <1>4 DEF HandleResult
  <2>2. inFlight = Head(results).id
    BY <1>2, <2>1 DEF IInv, InFlightWork
  <2>3. Pump(None)
    BY <1>4, <2>2 DEF HandleResult
  <2>4. pending' \subseteq Job
    BY DEF TypeOK, QueueOK
  <2>5. NothingToSend'
    BY <2>3, <2>4, PumpLeavesNothing DEF NothingToSend
  <2>6. InFlightIsUnderWay'
    <3>1. ASSUME NEW next \in pending',
                 inbox' = Append(inbox, [id |-> next.id, path |-> next.path,
                                         gen |-> generation'])
          PROVE  PieceUnderWay'
      <4>1. /\ inbox \in Seq(Task) /\ generation \in Nat
            /\ [id |-> next.id, path |-> next.path, gen |-> generation'] \in Task
        BY <1>1, <2>4 DEF IInv, TypeOK, WorkerOK, MainOK
      <4>2. Len(inbox') \in Nat \ {0} /\ inbox'[Len(inbox')].gen = generation'
        BY <3>1, <4>1, AppendElements
      <4>3. Len(inbox') \in 1..Len(inbox')
        BY <4>2
      <4> QED
        BY <4>2, <4>3 DEF PieceUnderWay
    <3> QED
      BY <2>3, <3>1, PumpSends DEF InFlightIsUnderWay
  <2>7. OrphansRest'
    BY <1>1, <2>1 DEF OrphansRest
  <2> QED
    BY <2>5, <2>6, <2>7 DEF OwedInv
<1> QED
  BY <1>3, <1>4

(* The invariant behind NoFileIsStranded is kept by every step. *)
LEMMA OwedInductive == IInv /\ IInv' /\ OwedInv /\ [Next]_vars => OwedInv'
<1> SUFFICES ASSUME IInv, IInv', OwedInv, [Next]_vars
             PROVE  OwedInv'
  OBVIOUS
<1>1. TypeOK /\ TypeOK' /\ Control /\ FlushLoop
  BY DEF IInv
<1>2. ASSUME NEW p \in Paths, SaveQueued(p)
      PROVE  OwedInv'
  <2>1. /\ Pump(inFlight) /\ pc = "idle" /\ attached'
        /\ UNCHANGED <<attached, generation, wpc, task, results, thread, slow>>
    BY <1>2 DEF SaveQueued, AsyncEnabled
  <2>2. slow = 0 /\ thread = "running" /\ attached' /\ inFlight # None => PieceUnderWay
    BY <2>1 DEF OwedInv, InFlightIsUnderWay, Settled
  <2> QED
    BY <1>1, <2>1, <2>2, PumpingOwes
<1>3. ASSUME NEW p \in Paths, SaveFallsBack(p)
      PROVE  OwedInv'
  BY <1>3, StartFlushOwes DEF SaveFallsBack
<1>4. CASE ReadThroughQueue \/ ShutdownDiskWriteQueue \/ ProcessExit
  BY <1>4, StartFlushOwes DEF ReadThroughQueue, ShutdownDiskWriteQueue, ProcessExit
<1>5. CASE RetryFailedDiskWrites
  <2>1. CASE ~AsyncEnabled
    <3>1. /\ StartFlush("idle") /\ pc = "idle"
          /\ UNCHANGED <<pending, failedPaths, inFlight, attached, hasControl, enabled, slow,
                         inbox, results, wpc, task, thread>>
      BY <1>5, <2>1 DEF RetryFailedDiskWrites
    <3> QED
      BY <3>1, StartFlushOwes
  <2>2. CASE AsyncEnabled
    <3>1. /\ Pump(inFlight) /\ pc = "idle" /\ attached'
          /\ UNCHANGED <<attached, generation, wpc, task, results, thread, slow>>
      BY <1>5, <2>2 DEF RetryFailedDiskWrites, AsyncEnabled
    <3>2. slow = 0 /\ thread = "running" /\ attached' /\ inFlight # None => PieceUnderWay
      BY <3>1 DEF OwedInv, InFlightIsUnderWay, Settled
    <3> QED
      BY <1>1, <3>1, <3>2, PumpingOwes
  <2> QED
    BY <2>1, <2>2
<1>6. CASE EnableAsyncDiskWrites \/ ProcessEnds
  <2>1. pending' = {} /\ inFlight' = None
    BY <1>1, <1>6 DEF EnableAsyncDiskWrites, ProcessEnds, Pump, Control
  <2> QED
    BY <2>1 DEF OwedInv, InFlightIsUnderWay, NothingToSend, OrphansRest, AllRest
<1>7. CASE SyncSave
  <2>1. /\ pc = "sync"
        /\ UNCHANGED <<inFlight, enabled, attached, hasControl, thread, slow, inbox, results,
                       wpc, task, generation>>
    BY <1>7 DEF SyncSave
  <2>2. AllRest => AllRest'
    <3>1. CASE UNCHANGED <<pending, failedPaths>>
      BY <3>1 DEF AllRest
    <3>2. CASE Acknowledge(saving.path, nextJobId - 1)
      <4>1. \A j \in pending : j.id \in Nat /\ j.id < nextJobId /\ nextJobId \in Nat
        BY <1>1 DEF IInv, IdsInOrder, TypeOK, QueueOK, MainOK
      <4>2. \A j \in pending' : j \in pending /\ j.path # saving.path
        BY <3>2, <4>1 DEF Acknowledge
      <4> QED
        BY <3>2, <4>2 DEF AllRest, Acknowledge
    <3> QED
      BY <1>7, <3>1, <3>2 DEF SyncSave
  <2>3. PieceUnderWay <=> PieceUnderWay'
    BY <2>1 DEF PieceUnderWay
  <2> QED
    BY <2>1, <2>2, <2>3
       DEF OwedInv, InFlightIsUnderWay, NothingToSend, OrphansRest, AsyncEnabled, Settled
<1>8. CASE FlushTimesOut
  <2>1. /\ thread = "stopped" \/ slow' = slow + 1
        /\ AllRest' /\ hasControl' /\ thread' = thread
    BY <1>1, <1>8 DEF FlushTimesOut, AllRest, Control
  <2>2. slow \in Nat
    BY <1>1 DEF TypeOK, MainOK
  <2> QED
    BY <2>1, <2>2 DEF OwedInv, InFlightIsUnderWay, NothingToSend, OrphansRest
<1>9. CASE FlushReturns
  <2>1. /\ Pump(None) /\ UNCHANGED <<pending, failedPaths, enabled, attached>>
        /\ pc = "write" /\ todo = {}
    BY <1>9 DEF FlushReturns
  <2>2. AllRest /\ AllRest'
    BY <1>1, <2>1 DEF FlushLoop, AllRest
  <2>3. inFlight' = None
    BY <2>1, <2>2 DEF Pump, AllRest
  <2> QED
    BY <2>2, <2>3 DEF OwedInv, InFlightIsUnderWay, NothingToSend, OrphansRest
<1>10. CASE FlushLocks \/ FlushWrites
  BY <1>10 DEF FlushLocks, FlushWrites, Settled, OwedInv, InFlightIsUnderWay, NothingToSend,
               OrphansRest
<1>11. CASE IgnoreResult \/ HandleResult
  BY <1>1, <1>11, ResultOwes
<1>12. CASE WorkerExitEvent
  <2>1. /\ ~attached' /\ (pending = {} \/ pc' \in {"lock", "write"})
        /\ pending' = pending
    BY <1>12 DEF WorkerExitEvent, StartFlush
  <2> QED
    BY <2>1 DEF OwedInv, InFlightIsUnderWay, NothingToSend, OrphansRest, AsyncEnabled,
                Settled, AllRest
<1>13. CASE FinishShutdown
  <2>1. /\ ~attached' /\ (~hasControl' => ~attached /\ ~hasControl) /\ pc = "shutdown"
        /\ UNCHANGED <<pending, failedPaths>>
    BY <1>1, <1>13 DEF FinishShutdown, Control
  <2> QED
    BY <2>1 DEF OwedInv, InFlightIsUnderWay, NothingToSend, OrphansRest, AsyncEnabled,
                Settled, AllRest
<1>14. CASE ReadFile \/ WorkerErrorEvent \/ WorkerStops \/ UNCHANGED vars
  <2>1. /\ Settled' => Settled
        /\ UNCHANGED <<pending, failedPaths, inFlight, attached, hasControl, slow,
                       inbox, results, wpc, task, generation>>
        /\ enabled' => enabled
        /\ thread' = "running" => thread = "running"
    BY <1>14 DEF ReadFile, WorkerErrorEvent, AsyncEnabled, WorkerStops, Settled, vars
  <2> QED
    BY <2>1, QuietStepOwes
<1>15. CASE WorkerStep
  BY <1>1, <1>15, WorkerOwes
<1> QED
  BY <1>2, <1>3, <1>4, <1>5, <1>6, <1>7, <1>8, <1>9, <1>10, <1>11, <1>12, <1>13, <1>14,
     <1>15 DEF Next, MainStep, Caller

(* In the event loop, a file that is behind its newest accepted snapshot   *)
(* has a step owed to it: an autosave that retries it, the exit event of a *)
(* worker that is gone or going, or the result of the work under way.      *)
THEOREM FilesAreNotStranded == Spec => []NoFileIsStranded
<1>1. Init => OwedInv
  BY DEF Init, OwedInv, InFlightIsUnderWay, NothingToSend, OrphansRest, AllRest
<1>2. IInv /\ OwedInv => NoFileIsStranded
  <2> SUFFICES ASSUME IInv, OwedInv, pc = "idle", slow = 0, ~ShutDown,
                      NEW p \in Paths, disk[p] < accepted[p]
               PROVE  \/ p \in failedPaths
                      \/ attached /\ (~enabled \/ thread = "stopped")
                      \/ AsyncEnabled /\ PieceUnderWay
    BY DEF NoFileIsStranded
  <2>1. PICK j \in pending : j.path = p
    BY DEF IInv, NothingLost
  <2>2. AllRest => p \in failedPaths
    BY <2>1 DEF AllRest
  <2>3. thread \in {"running", "stopped"}
    BY <2>1 DEF IInv, Control, TypeOK, WorkerOK
  <2>4. CASE ~attached
    BY <2>2, <2>3, <2>4 DEF OwedInv, OrphansRest, Settled, ShutDown
  <2>5. CASE attached
    BY <2>2, <2>3, <2>5
       DEF OwedInv, InFlightIsUnderWay, NothingToSend, AsyncEnabled, Settled
  <2> QED
    BY <2>4, <2>5
<1> QED
  BY <1>1, <1>2, Invariance, OwedInductive, PTL DEF Spec
=============================================================================

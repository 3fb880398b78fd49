# Vibisual: a verification project

Vibisual is a development environment for AI coding agents: an Electron
application whose main process also runs the server core
(`packages/server`), with any number of windows (`packages/client`) that draw
the server's graph of projects, agents, files and commands. Agents are child
processes of model command-line tools; phones join over a web socket.

The project holds TLA+ modules translated from the source, TLC runs that check
them on small instances, and proofs that TLAPS checks for every instance. The
claims are about this code; names follow it.

## Inventory

What the system keeps, what changes it, and what makes it hard.

| component | state | operations | hard because |
|---|---|---|---|
| **Checkpoint writer** `diskWriteQueue.ts` | `pending`, `inFlightId`, `failedPaths`, a flush generation and a commit lock in shared memory; the files | queue a snapshot, fall back to a synchronous write, flush, retry, shut down, exit; a worker thread takes, locks, checks, renames, posts | two threads and the file system; crashes; failures; a wait that times out; late results |
| **Checkpoint files** `statePersistence.ts` | files, backups, guards | save, load, recover | corrupt or missing files, shrinking content |
| **Checkpoint coalescer** `checkpointCoalescer.ts` | a dirty flag, a timer | request, flush, shut down | a save requested during a save |
| **Snapshot wire** `broadcastBus.ts`, `keyedSliceDelta.ts`, `sliceScope.ts`, `websocket.ts`, `projectGraphManager.ts`, `useWebSocket.ts` | one baseline for all windows, the declarations of the windows, queues of messages, the maps every window rebuilt | change, broadcast, welcome, declare, drop, deliver | deltas against a baseline no window holds; scopes that shrink and widen; reconnection |
| **Broadcast scheduler** `snapshotBroadcastScheduler.ts` | a timer, a delay | request, flush, dispose | feedback of its own diagnostics |
| **Dispatch jobs** `taskEdgeDispatchJobs.ts`, its routes in `index.ts`, `subAgentManager.ts` | the jobs kept, the index of request keys, the held calls, deliveries | dispatch, retry, resume, ask, settle, prune, cancel; the end of the requesting turn | answers racing time-outs, lost connections and retries; a bounded ledger |
| **Live follow-up** `liveFollowUp.ts`, `claudeLiveFollowUp.ts`, `commandDeliveryRestore.ts`, `queueWatchdog.ts`, `immediateFollowUpQueue.ts` | the queue of a session, the inputs it has put into the running turn, what is known of each | send, receipt, taken, refused, unknown, recorded, restored, prioritised, pushed again | receipts racing results, time limits and dead processes; a text given twice or never |
| **Permission broker** `permissionBroker.ts`, `permissionSessionGrants.ts`, `askUserQuestionBroker.ts`; in a window `pendingPromptSync.ts`, `pendingPrompts.ts`, `graphStore.ts` | pending questions, grants; the cards on screen, what is uncertain about them | ask, answer, time out, stop, disconnect; list, announce | late answers, two surfaces answering, lists that race announcements |
| **Session turns** `subAgentManager.ts`, `turnSeal.ts` | the process of a session, the command in flight, the held end of its turn | dispatch, lines of the engine, results, held seals, interrupts, stops, crashes | the end of a turn is decided by four things that race |
| **Session life cycle from hooks** `sessionLifecycle.ts` | the phase of an outside session | hook events, sweeps | events out of order |
| **Autonomous goals** `autoGoalLifecycle.ts`, `autoGoalService.ts` | a SKILL.md per procedure with its review and its confirmed completions; assessments in memory | mine, list, review, replace, retire, assess, report, delete | agents, reviewers and editors change documents and files between any two requests |
| **Start-up jobs** `startupJobs.ts` | stages | run, fail, retry | ordering |
| **Orchestra, pipelines, path locks, worktree reaper, insurance ledger, render queue** | see `PROJECT.json` | | |
| **Everything else**: the graph store, HTTP routes, window management, process adapters, the client's views, plugins, media tools | maps and I/O | | little that a model checker adds |

How they interact: routes and hook events change the graph; every change asks
for a broadcast (snapshot wire) and for a checkpoint (coalescer, then
`statePersistence`, then the checkpoint writer). Windows send commands and
declarations back over the same channel. Commands go to sub-agent processes,
whose hook events re-enter as graph changes, dispatch results and permission
questions.

What makes each correct is stated module by module below; `PROJECT.json` lists
the hazards at their lines with the properties that cover them.

## The checkpoint writer

`DurableFiles` is the promise: a file holds whole snapshots in the order they
were handed over, it only moves forward, and an acceptance is revoked only by
the end of the process. `DiskWriteQueue` is the code.

*State.* `pending`, `inFlight`, `failedPaths`, `enabled`, `attached`
(`worker !== null`), `hasControl` (`commitControl !== null`), `nextJobId` are
the variables of `diskWriteQueue.ts`; `generation` and `lock` are the two cells
of the shared array; `inbox` and `results` are the message ports; `thread`,
`wpc`, `task` the worker; `disk` the version each file holds. A job's id doubles
as the version of its content. The main thread is single-threaded but not
atomic with respect to the worker: `pc` cuts a flush into waiting for the lock,
one step per file, and the release; `after` says where the flush that runs returns
(`sync`: the caller then writes its own snapshot; `read`, `shutdown`, `exit`).

*Actions* are the exported functions (`SaveQueued`, `SaveFallsBack` +
`SyncSave`, `ReadThroughQueue` + `ReadFile`, `RetryFailedDiskWrites`,
`ShutdownDiskWriteQueue` + `FinishShutdown`, `EnableAsyncDiskWrites`), the
steps of a flush, the worker's events (`HandleResult`, `IgnoreResult`,
`WorkerErrorEvent`, `WorkerExitEvent`), the worker's own steps, its end at any
point, and the end of the process at any point, after which only `disk` is
left. The order write, fsync, rename is one commit step (`WorkerRenames`,
`WriteFile`): the rename is what replaces the file.

*Abstractions.* The byte limit and a missing directory are reasons for which
`queueAtomicWrite()` may return `false`, so `SaveFallsBack` is always possible.
A failed worker start leaves no trace and is not a step. Contents, statistics
and logging are left out.

| run | instance | shows |
|---|---|---|
| `disk_safety` | 2 files, queue of 3, 3 saves, 2 flush generations, 2 failures, 1 slow commit | `NothingLost`, `CurrentWorkIsPending`, `CommitExclusion`, `ReadsAreFresh`, `TwoVersionsPerFile` (a queue of 3 lets a third version in if coalescing fails), the refinement `ImplementsDurableFiles`, and under fairness `EventuallyOnDisk` |
| `disk_slow_commit` | 1 file, 1 slow commit | `TimedOutWritesAreRecovered` **fails** |

The bounds let a file have a version in flight, one queued behind it and a
synchronous one after both, let a flush interrupt a commit at every point, twice,
and let the worker, the retry or the flush fail. Two failures are what `HandleResult` needs:
the worker reports one, and the synchronous retry of the same job fails too
(`diskWriteQueue.ts:168-178`), with a newer version of the file queued behind it or
without. `EventuallyOnDisk` leaves out what the finding below is about: a commit that
outlasts the wait of a flush (`slow`).

*Fairness* (`FairSpec`): the event loop takes an enabled step (`MainStep`), the
worker thread runs, a terminated worker ends, an exiting process ends, and
autosave keeps calling `retryFailedDiskWrites()` (it is called on every autosave
tick). Saves, loads, crashes and the death of a healthy worker are never forced.

*Finding.* `disk_slow_commit`: a flush that gives up on the lock
(`COMMIT_LOCK_WAIT_MS`) has already raised the generation. The worker then
finishes its rename, but its result is of an old generation and is dropped
before `inFlightId` is cleared: the queue sends nothing any more, autosaves
included, until a later flush (a load, a full queue, the exit) resets it. The
comment at `diskWriteQueue.ts:281` promises the next autosave.

### Proofs

`DiskWriteQueueProofs` proves, for every set of files, queue size and bound, the
safety properties above as theorems of `Spec`, and the refinement
(`Implementation`). All rest on `Invariance`: `Spec => []IInv`. `IInv`
(`DiskWriteQueueInv`) strengthens the properties until they are inductive:

* `IdsInOrder`, `PendingIsNewer`: versions are handed out in order, and a
  pending job is not older than its file; so writing the oldest first never
  regresses a file.
* `Control`: who holds the lock where, and what the absence of a worker implies.
* `Generations`, `InFlightWork`, `OnePiece`: at most one live piece of work is
  anywhere between the two threads; it is the job in flight, and the oldest
  pending of its file. That is why its rename, whenever it comes, moves the file
  forward, and why its result may be trusted.
* `SuccessIsOnDisk`: a success that will count has reached the file, so that
  acknowledging it loses nothing.
* `Quiet`: once a flush has raised the generation no message in the system is
  live, and once it has the lock none is being committed.
* `FlushLoop`: what the loop has passed and left behind rests.

`TwoVersionsPerFile` rests on one more invariant, `AtMostTwo`: two jobs stand for all the
pending versions of a file, because a newly accepted snapshot replaces every one but the one
in flight (`QueueIsBounded`).

`FilesAreNotStranded` is the safety half of `EventuallyOnDisk`, which itself is
model-checked only (the prover does not do fairness): a file that is behind while the event
loop is idle rests until the next autosave, or the exit of its worker will flush the queue, or
work of the current generation is under way and its result will pump (`NoFileIsStranded`). Its
invariant `OwedInv` says that a job marked as in flight really is somewhere between the
threads, that with none in flight `pump()` has nothing left to send, and that without a worker
all that is left rests. It speaks of moments without a commit that outlasted a flush
(`slow = 0`), whose dropped result is the finding above.

The proof has a lemma per conjunct and, in each, a step per action. The constants
need only `QueueAssumption`. TLC checked `IInv` and `OwedInv` on the instance of the
safety run first.

## The snapshot wire

`SnapshotDelta` models how windows follow the graph. A slice is a map from keys
to versions (0: absent); values are compared by reference in the code, so a
version is fresh at every change.

*State.* `graph` and `dirty` (a broadcast is scheduled); `baseline` is
`lastSentSlices`; `scope` and `everDeclared` are the declarations kept by
`ProjectGraphManager`; `wire` holds the messages under way to a window, in
order; `shadow` and `last` are `keyedShadowRef` and `lastWireRef` of
`useWebSocket.ts`. `ahead` is history, used by properties only.

*Actions.* `Change` (and the scheduled broadcast), `Broadcast` (encode against
the baseline, move it, fan out), `Open` (a desktop window is reached by the
fan-out before it was welcomed), `Join` (the welcome: a full snapshot outside the
baseline), `Declare` (`set-project-scope`: the union changes and the window gets
a full snapshot at once), `Drop` (the queue is lost; the declaration and the
window's maps may or may not survive, which covers closing, reloading,
reconnecting and a phone's lost socket), `Deliver` (`materializeSnapshot()`).

*Abstractions.* Painting, coalescing to 16 ms and structural sharing do not change
the map a window holds, so `Deliver` is the arrival. The folder axis filters
slices that do not travel as deltas. A declaration takes effect when the server
handles it. Hydrating a project is a change like any other. A slow phone is
disconnected rather than skipped, so the wire loses nothing but its tail.

| run | instance | shows |
|---|---|---|
| `snapshot_projects` | 2 windows, 2 projects, a slice that is always sent, 2 changes | `ViewsAreComplete`, `OnlyUnannouncedKeysLinger` |
| `snapshot_slices` | 2 windows that declare their slices, an optional slice with 2 keys, 2 changes | `ViewsAreComplete`, `ViewsNeverGoBack`, `LiveValuesStay` |

Two keys are what a delta needs (one of two changed is not more than half), two
messages under way to two windows what reordered scopes need; declarations, joins
and drops are not bounded.

*Proofs.* `SnapshotDeltaProofs` proves the four properties from `ScopeAssumption`, for any
number of windows, keys, changes and messages under way. The inductive invariant
(`IInv`) follows one key of one slice of one window: what its map holds, what it shows,
and what each message under way says of it. Along that line no value is older than one
before it (`AllOrdered`, which gives `ViewsNeverGoBack`). Some value on it is the current
one and every later message is silent about the key, unless a broadcast is due that will
say it (`AllCurrent`): a delta is silent only where the baseline has the value already,
and the baseline never holds a stale value while nothing is due (`BaseOK`). This gives
`ViewsAreComplete`. `LiveValuesStay` is about the last message: it says the value, or is
silent because the window was told before, or nobody has told the window (`AllSteady`).
A key that all later messages leave alone is in the baseline, so that its removal will be
announced, or was shown ahead of it (`AllAccounted`), and a window that is up to date
shows the map the next delta applies to (`HeldIsShown`): together
`OnlyUnannouncedKeysLinger`. The scopes enter at two places only: the maps that are sent
hold what a declared window draws (`DrawnIsSent`), and a message says so (`Refreshes`).
`StepCases` reduces a step to what it does to a window.

*Remarks no run checks.* The full replies neither read nor move the baseline. (1) A key they
show that appeared after the last broadcast and vanishes before the next is never
in a `removed` list: the window keeps a ghost, although `broadcastBus.ts:18` calls
the older baseline safe. (2) A slice that leaves the scope and returns without a
broadcast in between is still cut against the old baseline, although
`broadcastBus.ts:29` says it returns in full; a window whose last reply left it
out would rebuild a partial map. A window that has declared the slice is not hurt
(`ViewsAreComplete`), one that has not declared yet is: it does not count in the
union.

## Work handed along task edges

`DispatchJobs` models how one agent hands work to another: the ledger of jobs and the
hub of held calls (`taskEdgeDispatchJobs.ts`), the routes before them and the places
where a command leaves its queue (`index.ts`), and the guard at the end of the
requesting turn (`subAgentManager.ts`). The ledger is in memory; a restart forgets it,
as the code says.

*State.* `job` is the registry's `jobs` (a job that is dropped leaves its domain),
`index` its `byRequestKey`, `finished` the kept jobs that are finished in the order of
`finishedAt`; `cmd` says whether a job's command is queued, executing, or in no queue
(`"taken"`: removed without being settled); `waiters` and `call` are the hub and the
HTTP calls, one being held or having its response on the way; `edges`, `turn` the
edges and the requesting turns. `received` is history: whose response carried which
result.

*Actions.* A dispatch call does one of four things: `Retry` (its key is known), `Resume`
(the same session asks for the same work again while its result is out), `Launch`,
`LaunchFails` (the command ends before the call is answered). `Status` is the GET with
`waitMs`. `TimesOut`, `HangsUp`, `GoesOut` and `IsLost` are what becomes of a call; the
result counts as delivered at the response's `finish` event only. `Ends`, `Removed` and
`Cancel` are the callers of `settleDispatchCommand`: the job is finished, the ledger
pruned (`Over`) and all who wait told (`Settle`), in one step. `Taken` is the two ways
out of a queue that settle nothing: `POST .../pop`, called by the Stop hook
(`hooks/handler.mjs:511`), and `DELETE` of a command that has started. `Expire` is the
six-hour limit, applied by the next call in the code and at once here: nothing reads
the ledger without pruning it first. `TurnEnds` is a turn that comes to its end, with
`failIfDispatchResultMissing`. `TurnStopped` is one that fails, that the user stops or
whose session is removed. The code does not look for missing results then
(`if (!userStopped)`, `subAgentManager.ts:4758`, `5564`, `5795`, `6200`; the seals of
`index.ts:7559`, `7617`, `7702`), although the command of a stopped turn is recorded as
completed, with `[Stopped by user]`: such a turn is `"over"`, and `"completed"` is only one
that completed by itself.

*Abstractions.* Completed, failed and cancelled jobs are finished alike. Refusals
(400, 403, 404, 409, 429) change nothing and are the guards. Fingerprints are `Texts`.
Left out: delegated reading (`statusGrants`), the orchestra collector, edge status.

| run | instance | shows |
|---|---|---|
| `dispatch` | 2 jobs and 2 calls at a time, 1 session, 1 edge that returns results, 1 key, 1 finished job kept | the four invariants, `UndeliveredResultsGoLast`, `CompletedTurnsHaveTheirResults`, `HeldCallsAreAnswered` |

*Bounds.* `Jobs` and `Calls` bound what is open at one time, not how often: an id that
nothing knows any more is used again. Two jobs are what a duplicate or a pruned job
needs, two calls what a retry beside a held call needs. `MaxTaken` is 1, so that one
job can be stuck beside one that is not.

*Fairness.* The queue hands out its commands (turn ends push it, and a watchdog every
5 s) and a turn ends (its process exits, or the zombie sweep seals it). Nothing is
assumed of callers, time limits or connections.

*Proofs.* `DispatchJobsProofs` proves every property of the run but the liveness property
`HeldCallsAreAnswered`, from `DispatchAssumption`, for any sessions, edges, keys, jobs,
calls and limit. The argument has three layers.

* `DispatchInv`: a key in `index` names a kept job of its edge and key, and every kept job
  with a key is found by it (`TableOK`), so that a key that finds nothing is free; a command
  that is in its queue, running or taken out belongs to a kept job that is not finished
  (`CommandsOpen`), so that what `Finish` appends was not there before; the waiters are
  exactly the held calls and their jobs are open (`WaitersOpen`). Every change of the ledger
  is shown to be one of three: jobs keep what they are about and lose at most their claim to
  delivery (`Alike`), a new job enters under a key nobody holds (`LaunchedTable`), or
  finished jobs leave together with their keys (`ForgetKeeps`). `NobodyWaits`,
  `RunsOncePerKey` and `WorkIsNotDuplicated` follow from it.
* `FinishedOK`: `finished` lists the kept jobs that are over, each once, and no more than
  `MaxFinished`. With it, whatever `prune` takes after a step, the jobs ranked before an
  undelivered one that goes include every delivered one (`OwedResultsGoLast`). That needs
  counting: the lemmas on `Kept` and on the size of an array without repetition are in
  `ListsProofs`. `LedgerTypes` combines both with the types.
* `OwedOK`: a job, its asker and the session that was sent its result belong to the agent at
  the source of its edge. So a turn completes by itself only when the results it is owed were sent to
  its agent (`AgentsHaveTheirResults`, for any sessions). That they were sent to the session
  itself (`NoTurnCompletesTooEarly`) takes the hypothesis that no two sessions have the same
  agent: with two sessions of one agent TLC finds a turn that completes without a result its
  sibling was sent, in six states (remark 2).

The converse of `CommandsOpen` is inductive as well: every kept job that is not over has a
command that is queued, running or taken (`RunsOn`). With `WaitersOpen` it is the safety half
of `HeldCallsAreAnswered` (`WaitersAreServed`): whoever is held waits for a command whose end
tells it, unless that command was taken.

The order in which a result that is owed may be forgotten is stated with the removal by age
(`Expires`) as an alternative of its own: the six-hour limit is the one way that does not
look at deliveries.

*Remarks no run checks.* (1) `HeldCallsAreAnswered` excludes taken commands. The comment
at `index.ts:17494` says that every place where a command leaves its queue settles its
job; the two ways of `Taken` do not, and a call without a limit is then held for ever.
(2) Delivery is recorded per agent (`index.ts:17839` compares agents): with two sessions
of one agent, a status request of one counts as the delivery to the other.
`CompletedTurnsHaveTheirResults` is stated for a session that is the only one of its
agent, as in the instance. (3) `CompletedTurnsHaveTheirResults` is about turns that complete
by themselves. A command whose turn the user stopped has the status `completed` as well
(its stop reason says `cancelled`), and results may be missing from it.

## The turns of a session

A session is one engine process that lives from turn to turn and one queue of commands
in front of it. A message the user sends while a turn runs waits (`wait`), goes into that
turn (`steer`), or cuts it short (`immediate`). `LiveFollowUp` holds the queue and the
channel that carries inputs into a running turn; it has no variables, because a handler
of the server runs to its end and calls the next one synchronously: each function is an
operator from the session before it to the session after it. `SessionTurns` composes
them with the process and the ends of its turns, one action per event.

*State.* `session` is the server's: `queue`, the fields of each command (`cmds`),
`followUps` (the inputs recorded under a turn), `pending` and `sender`
(`pendingCommands`, `pendingSessions` of `liveFollowUp.ts`), `chan` (the channel of
`claudeLiveFollowUp.ts`: a phase per input, the timers, the held result and the
promises that have settled but whose continuation has not run, `due`), `turn`
(`PersistentInFlight` and the flags of an interrupt, an early result, a stop), `seal`
(`deferredSeals`), `child` (the process and its background tasks), `stdin` (what was
written to it). `given` is history: how often a command's text was written. `stdout` is
the pipe back, `engine` the process itself, modelled from what the code expects of it.

*Actions.* `Post`, `ChangeMode`, `Delete`, `Reorder`, `StopSession` are the routes of a
queue; `ReadLine` is a line of the engine through the channel and `onLine`; `Continue`
is what follows a settled promise (`trySendLiveFollowUp` after its `await`, then
`onSettled`); `HeldResultEnds`, `ReceiptTimesOut`, `EarlyResultExpires`, `SealExpires`,
`InterruptExpires`, `StopSettles` the timers and the callbacks; `ChildExits` and
`ChildCloses` the two events of a dying process; `Watchdog`, `TranscriptShows`
(`reconcileLockedLiveFollowUps`), `Restart`. A continuation comes before the next event
of the server (`Quiet`), as microtasks do, except that a line may already be
read in the same chunk.

*A result is not the end of a turn.* It is held while an input is open (`Defer`), put
aside if the command has not spoken (`early`), and held for a grace period while a
background task may resume the turn (`SealTurn`); a stop, an immediate command, a line
of the model, a crash or a newer result may come first. The properties say that one of
them, exactly, ends the command.

| run | instance | shows |
|---|---|---|
| `turns` | 3 commands, 1 background task, 1 crash, inputs may be dropped by the engine | `EveryCommandHasItsPlace`, `OneTurnAtATime`, `TurnsEndWithTheirInputs` |
| `turns_live` | 2 commands, 1 background task, 1 crash, 1 restart of the server, fairness | `NothingIsGivenTwice`, `UnknownStaysUnknown`, `InputsSettle`, `CommandsMoveOn` |
| `turns_crash` | 2 commands, 1 background task, 1 crash within the grace period | `NobodyRunsUnwatched` **fails** |

*Bounds.* Three commands are a turn that runs, an input in it and a command behind it;
one line in the pipe and two items in the input are what lets results and receipts cross
(the engine holds any number of inputs itself). Commands are not reused: `MaxTasks`,
`MaxExits`, `MaxRestarts` bound the faults. One background task is enough for the end
of a turn to be held, and for the grace period to run out, in both runs; a held end that
is dropped instead of run breaks `CommandsMoveOn`.

*Fairness.* `Loop`: as long as the server has a line to read, a continuation, a timer
that is due, a process it told to end or a queue the watchdog finds idle (5 s,
`index.ts:19408`), it handles one of them; which one is left open. `EngineGoesOn`: a living
engine reads its input, starts what it was given and ends it. Nothing is assumed of users,
tasks, crashes, restarts or the transcript: a task need not end, for the grace period bounds
what it holds.

*Assumptions, each a constant.* `ClosesInGrace = FALSE` keeps the finding below out of
the other runs. `EngineDrops`: receipt clears an input's timer, so an engine that then drops the
input leaves a result with queued work held for ever
(`claudeLiveFollowUp.ts:140`); the liveness run assumes it drops nothing.
`Deletable = {"queued"}`: what the client offers (`CommandQueue.tsx:528`).

*Proofs* (`ListsProofs`, `SessionTurnsInv`, `SessionTurnsProofs`). The five safety
properties of the passing runs are theorems for any set of commands, any `OwnTurn`, and any number of lines,
tasks, crashes and restarts; the two liveness properties stay with TLC. A handler is a
composition of operators, so the invariant is said of a state `w` of the session:
`Good(w, n, T)`, for `n` restarts and `T` the inputs the engine took, and each operator
has a lemma that it keeps `Good` (from `NoHold` out to `Dispatched`, `Closed` and
`Restored`), which the actions then cite. Its parts: the queue, the statuses and
the records agree (`Placed`; the splices are the subject of `ListsProofs`); only
a command still in the queue has a delivery (`Tried`); the open inputs are exactly those
the channel has not settled or whose continuation is due, and none of them is left when
the process is not alive or when the end of a turn that spoke is held (`OpenInputs`);
what is in flight or held is of a command that ran, and a turn that an early result may end
has not spoken (`TurnKnown`); how often a text was written (`GivenOnce`); what is accepted or recorded
was taken (`TakenOnly`). `EngineGood` says that the engine reports only what it took.
None of the properties is inductive without them: that a record is unique needs that an
input with a delivery is still queued, and that a rejected input may be called unknown
needs the channel to be in step with `pending`. Beside `Good`, each lemma says what the operator does
to the turn: inputs whose delivery is unknown stay (`Leaves`), and a turn that was one
stays one and ends only in order (`Orderly`).

`InputsAreTraced` is the safety half of `InputsSettle`: an input the queue waits for has its
continuation due, or its receipt timer running, or its process lives and, unless it drops
what it queued, holds the input or has a line in the pipe that tells what became of it. Its
invariant `TraceInv` follows an input from the server's writing through the engine and back:
what is written or announced was handed out, so that it is not handed out again while an old
receipt is on its way; what is sent is timed; what is received, or sent and announced, is
with the engine or told. Each operator has a second lemma for it (`Carries`: nothing handed
out is taken back, and what becomes sent is timed and new), and a line that is read settles
whatever it told (`CarriesHandleLine`).

`TurnsComeOneAtATime` has hypotheses, and TLC shows that they are needed: `~ClosesInGrace`
(else `turns_crash`, the finding) and `Deletable \subseteq {"queued"}` (remark 1). The other
theorems hold of every value of these constants, so the finding, late deletes and early
results lose or double no command and send nothing twice. Assumed:
`FollowUpAssumption` and `SessionAssumption`.

*Finding.* `turns_crash`: the crash branch of `onChildClose()` (5218-5234) completes the
command but leaves `deferredSeals`; the stale seal then takes the next command's turn for
its own (5379-5390), and that command is executing for ever with nothing in flight. The
comments at `subAgentManager.ts:6080` and `:1696` say the opposite.

*Remarks no run checks.* (1) A `DELETE` that meets a command which has just started does
not stop its process; the next command is dispatched over the running one, which
`index.ts:3669` forbids. (2) If the held end is a sleep (`5432`), an immediate command
flushes it, takes that for an interruption and does not interrupt the turn that started
meanwhile (`index.ts:2990`). (3) The 90 s timer of an early result (`subAgentManager.ts:5416-5421`) looks
at the command in flight and at whether it has spoken, not at its inputs: it ends, or holds
as ended, a turn whose input is still open, although such an input "belongs to the same app
command" (`claudeLiveFollowUp.ts:137`). It is the exception of `TurnsEndWithTheirInputs`
(`GivesUp`), which holds of all other ends; without it TLC finds, in eight states, a turn
that ends over its input. Afterwards the queue starts nothing until the input
settles (`OneTurnAtATime`, `InputsSettle`). (4) `currentTurnId` always equals the id in
flight, so `foreignTurn` (5315-5319) is never true. (5) A command put back when an idle
process crashed waits for the watchdog.

*Not modelled here.* The merge mode, silent compaction, Codex's, local and one-shot
engines, failing spawns, error results and slash commands, respawning for another
model, the zombie sweep, rejected deliveries, the limit of turns, dependencies between
commands, token-saver admission, archive limits, notice holds that stretch a seal,
several sessions of one agent; `POST .../pop` is in `DispatchJobs` (`Taken`).
`OwnTurn` (commands that never share a turn) is empty in the runs.

## The permission cards

A tool call that needs a person is held open until its card is closed.
`PermissionBroker` models the two brokers of the server with what their callers do
around them, `OneAnswer` what they promise, `PermissionWindow` one window of the
client in front of them.

*State of the broker.* `pending` is the two maps of open cards, `timers` and
`listening` the 60 s timers and the abort listeners, `outcome` what each promise was
resolved with, `call` what each card asks, `blocked` the set
`permissionWaitingAgents` of the graph. A card's `kind` says who waits: a hook over
HTTP, the local engine in process (no connection to lose, no mark), a hook that put a
question to the user (the second broker, which has no way to cancel).

*Actions.* `Ask` and `AskAborted` (the connection was gone first) are `request()`;
`Answer` is the decide route with its 404 and 400, `AnswerQuestion` its twin;
`TimedOut`, `CallerGone`, `StopSession` and `StopAgent` the other ways a card closes.
All go through `Settle`, as in `resolveInternal()`. The waiting route's `finally`
drops the agent's mark in the microtask after the promise resolves, before any other
callback, hence in the same step. `stopped` is history: the cards open when their
session or agent was stopped.

*State of the window.* `shown`, `failed` and `token` are the store's
`pendingPermissions`, `permissionSendFailures` and the `decisions` of
`PendingPromptSync`; `journal` is its `restore`; `list` the GET under way, `posts` the
answers under way, `wire` the announcements under way. `inSync` and `revived` are
history.

*Actions.* `ServerMoves` is any step of the broker and what it broadcasts (the answers
of other windows are among them); `Drop` and `SocketOpens` the socket; `Deliver`
the two announcements; `ServeList`, `ListFails`, `ListArrives` the GET;
`Respond`, `ServePost`, `PostFails`, `PostReturns` an answer. HTTP and socket are not
ordered with each other.

*Abstractions.* What "always" writes is reduced to whether the card offers it; the
deciding `reason` text to who decided. Question cards have a second instance of the
same client class and are not repeated in the window. A window that is reloaded is the
initial state again.

| run | instance | shows |
|---|---|---|
| `permission_cards` | 3 cards of 6 kinds, 3 sessions of 2 agents | the four invariants, `AskedIsAnswered`, and that the brokers implement `OneAnswer` |
| `window` | 1 card, 2 answers, 2 lost sockets, 2 failed calls | `NoCardIsMissed`, `NoOtherGhostCards`, `OneAnswerUnderWay`, `AnswersAreNotLost` |
| `window_ghost` | 1 card, 2 answers, 1 lost socket, 1 failed call | `NoGhostCards` **fails** |

*Bounds.* `Cards`, because ids are never used twice; `MaxDrops`, `MaxFailures`,
`MaxAnswers`. Three cards give two of one agent and one of another. In a window one card
is enough: marks and journal are kept per card, and two cards meet only in the
order of the socket and in a list that is asked for again, which two lost sockets and
two answers bring about too.

*Fairness.* `AskedIsAnswered` assumes only that `setTimeout` fires.
`AnswersAreNotLost` assumes that announcements are delivered and that HTTP calls
come back, with success or not; no timer, so that it is not the 60 s default that
rescues an answer.

*Proofs* (`PermissionBrokerProofs`). The inductive invariant is the four invariants
together: a closed card leaves nothing only because its outcome, entry, timer and
listener move in one step, and an agent's mark is justified only by entries. Every
step asks, asks and is aborted, or settles a set of open cards (`StepsCloseOrAsk`),
so three lemmas cover eight actions; `FirstAnswerWins` and the refinement follow
because only open cards settle and only unresolved ones are open. Assumed:
`CardAssumption`.

*Proofs of the window* (`PermissionWindowProofs`). None of its three invariants is
inductive: whether a card is missed depends on everything under way at once. `WindowInv`
says what each part knows. A closing on the wire is of a closed card, and the opening of
a closed card has its closing behind it (`IsTrue`); what the list that was read lacks,
the journal holds or the wire brings, and what it holds wrongly is about to be closed
(`ListIsGood`); the same of the screen once the list is merged (`ScreenIsGood`); what the
journal keeps on the screen is open, about to be closed, or put back
(`JournalKeepsNoGhosts`); a card hidden by its answer has its call in `posts`
(`PostsInv`). Every step of the broker announces what it changed, so the
lemmas of `PermissionBrokerProofs` on steps carry over. TLC checked `WindowInv` first, also
with two cards. Assumed: `CardAssumption` and that the bounds are numbers
(`WindowAssumption`). `AnswersAreNotLost` is a liveness property and stays with TLC; its
safety half is proved: an answer the window waits for has its call under way and is not on
the screen to be given twice (`NoWaitIsForgotten`), and a step that ends the wait leaves the
card closed or shown again (`WaitsEndWithNews`).

*Finding.* `window_ghost`: a 4xx that comes back while the list is being fetched counts as a
live change: a card closed while the socket was down is put back and overrules the list
that says so (`pendingPromptSync.ts:24`); nothing closes it any more.

*Remarks no run checks.* (1) The first connection does not fetch because the window did at
mount (`useWebSocket.ts:389`, `reconnectResync.ts:5`); a card that opened between that
fetch and the connection, or after that fetch failed, is not shown: `inSync` in
`NoCardIsMissed` begins with a list read over an open socket. (2) The agent's mark has no
count, so the first of two cards of one agent to close unpins it (`projectGraph.ts:1476`);
`BlockedAgentsHaveAnOpenCard` says only that no mark outlives the last card.

## The procedures agents reuse

Work that repeats is written down as a procedure, a SKILL.md in the project. Once it is
reviewed, agents may run it, and skip a task whose confirmed result still stands.
`AutoGoalLifecycle` models the procedures of one project and what agents, reviewers and
people do to them.

*State.* `doc` is the file: `body` and `files` (what `procedureFingerprint()` covers),
`visible` the status line anybody can edit, `stored` the review state in its frontmatter
(`Lifecycle`: status, review, completions). `content` is what the project's files hold; a
hash is the content. `tokens` are the assessments that are out, in memory only. `reviews`
counts reviews and stands for the time of one. `proven`, `outdated` and `stopped` are
history.

*Actions.* `Look` is the list, which writes down every stop it observes (`Observed`) unless
that write fails, an error `summarizeAutoGoalDocument()` ignores
(`autoGoalLifecycle.ts:257`, `:268`): `kept` are the documents whose write works,
`Mine` a new candidate, `Review` approval and revision, `Retire`, `Supersede`,
`RequestReview`, `Delete`, `Assess` the question of an agent, and `Failed`, `Skipped`,
`Completed` its report, which may be refused and still leave an observed stop behind
(`Refused`). `Expire` and `Restart` take assessments away; `EditFile` and `EditDocument`
are everybody else.

*Abstractions.* The handlers are synchronous: one step each. An edit by another process
during a handler counts as before or after it; the revision is compared with the file
again before every write (`patchAutoGoalDocument()`), and a request with a stale revision, one whose own write fails,
or from an agent that does not own the assessment, changes nothing. The cache of hashes
is trusted. Edits by hand are of the status line, the instructions and the files; the review
record in the frontmatter is the server's and nobody else writes it (the test at
`autoGoalLifecycle.test.ts:156` edits it and expects the procedure to close; whoever can write
it can of course also write an approval into it). Counters, applicability, the copies of old revisions, the two directories a
procedure may live in, dismissals and the matching of procedures to prompts are left out.

| run | instance | shows |
|---|---|---|
| `goal_reuse` | 1 procedure in use and 1 replacement, 1 input, 1 output, 2 assessments out, 2 reviews, 2 edits, 1 completion kept | `SkipsAreProven`, `OutcomesBelongToTheirReview`, `StoppedStaysStopped` |

*Bounds.* Two edits let a file or the status be changed and put back, or two of
instructions, input, output and status move at once; two reviews let a procedure be
closed and approved again under an assessment; two assessments let one complete what the
other skips. Assessments are unbounded in number: an id is used again once dropped.

*Proofs.* `AutoGoalLifecycleProofs` proves the three properties from `GoalAssumption`, of
which it needs that procedures in use are procedures, that at least one completion is kept
and that `None` is no receipt. They hold whichever observations fail to be written. None of them is inductive: they speak of the standing derived
from a file that anybody edits, and an edit comes and goes. `GoalInv` is about what is
stored instead, which only the server writes: a stop that was seen, and not lost to a
failed write, is stored as closed (`Shut`), and an outdated assessment no longer meets a stored review (`Alive`). The second
needs that no later review equals an old one; reviews carry their time, and every time in a
document or an assessment is past (`ReviewsArePast`). `Handled` says what one handler may do
to one document: close it, leave its review, or approve it now. `BecomeKeepsInv` shows that
this is enough, and every action is shown to be of that kind.

`ProvenOK` is the second layer, for `SkipsAreProven`: the completions stored of a procedure
are among those reported since its last failure or review request (`Backed`), through every
handler that keeps, empties, filters or cuts the list; and an assessment that says skip has
one of them with its own task, inputs and outputs for as long as the review it was given
under stands (`Shown`). The second half is why the first is not enough: between the
assessment and the report of the skip the completion may be replaced or cut from the list,
and a failure or a review request may revoke it. Whatever revokes it closes the procedure,
so the assessment is dead, and by `AliveBefore` no later step revives it. TLC checked
`ProvenOK` on the instance first.

*Remarks no run checks.* A stop that was seen while its write failed can be undone by putting
back the marker or the file: only what is stored stays closed. The comment at
`autoGoalLifecycle.ts:255` ("Once a manual stop has been observed, changing only the visible
marker back cannot revive it") holds only when that write succeeds, which is why `stopped`,
and with it `StoppedStaysStopped`, leaves those stops out. The request that saw the stop is
still answered with it (`IsActive` does not depend on the write), as the comment at `:257`
says.

The comments at `autoGoalLifecycle.ts:264` and `:307` say that a
re-approval on changed evidence makes the old completions not match. The fingerprint
covers the instructions and the names of the evidence files, not their content, so they do
match; the test at `autoGoalLifecycle.test.ts:239` expects that, and `SkipsAreProven` is
stated accordingly: same instructions, inputs and outputs.

## Plan

In this order, most important behaviour first; done ones are described above.

1. `DurableFiles`, `DiskWriteQueue` and its proofs: done.
2. `SnapshotDelta` and its proofs: done.
3. `DispatchJobs`: done but for what its section lists; left are delegated reading
   (`DispatchGrants`) and the orchestra collector (`OrchestraResults`), a run with two
   sessions of one agent, and a run for `EveryHeldCallIsAnswered`.
4. `LiveFollowUp`, `SessionTurns` and their proofs: done but for what their section lists.
5. `OneAnswer`, `PermissionBroker` and its proofs, `PermissionWindow`: done; left are
   the session grants and the check route that reads them.
6. `CheckpointCoalescer`, composed with `DiskWriteQueue` at shutdown;
   `CheckpointLoad` for the primary file and its backups.
7. `AutoGoalLifecycle` and its proofs: done.
8. `StartupJobs`, `RenderQueue`, `InsuranceLedger`, `SnapshotScheduler`, `PathLocks`.

Runs stay below five minutes: two or three actors, two or three items, one or two
faults.

## What is proved, and what is only checked

Every invariant and every action property of a passing run is a theorem of its
specification, for all values of the constants its assumptions admit; so are the two
refinements (`DurableFiles`, `OneAnswer`). The theorems with hypotheses of their own say so
above (`TurnsComeOneAtATime`, `NoTurnCompletesTooEarly`), with the
counterexample that TLC finds without them. Only checked, on the instances of the runs, are
the liveness properties (`EventuallyOnDisk`, `HeldCallsAreAnswered`, `AskedIsAnswered`,
`AnswersAreNotLost`, `InputsSettle`, `CommandsMoveOn`): they need fairness and ENABLED,
which the prover does not handle. Proved is the safety half of five of them, that whatever
waits has somebody who owes it a step: `FilesAreNotStranded` (of `EventuallyOnDisk`),
`WaitersAreServed` (`HeldCallsAreAnswered`), `NothingIsLeftBehind` (`AskedIsAnswered`),
`NoWaitIsForgotten` with `WaitsEndWithNews` (`AnswersAreNotLost`) and `InputsAreTraced`
(`InputsSettle`). The statements no run lists hold in TLC on the runs' instances too.
`CommandsMoveOn` has no such half: it would have to say which timer, line or answer each
command in flight is owed.

## What is not modelled

`PROJECT.json` lists every component that is left out with its reason: the graph
store and the HTTP routes (large, but assignments to maps), window management and
process adapters (operating-system I/O), the client's views, plugins and media
tools (no state shared between actors), scripts (not part of the program).

## Layout

`Lists.tla` and `ListsProofs.tla` hold the operations on arrays that `DispatchJobs` and
`LiveFollowUp` share, and what they do. `X.tla` is a component (its `TypeOK` says what the
variables hold, whether or not a run lists it), `XInv.tla` its inductive invariant,
`XProofs.tla` its theorems, `MCX.tla` with `X_*.cfg` its instances for TLC. Operators that change one
definition the way a bug would (named for the bug, next to the definition) are used
to see that each property can fail; `PROJECT.json` pairs them.

----------------------------- MODULE DispatchJobs -----------------------------
(***************************************************************************)
(* Work that one agent hands to another along a task edge: the registry of *)
(* jobs and the hub of waiting calls (services/taskEdgeDispatchJobs.ts),   *)
(* the routes in front of them and the places where a command leaves its   *)
(* queue (index.ts), and the guard at the end of the requesting turn       *)
(* (services/subAgentManager.ts).                                          *)
(*                                                                         *)
(* The result of a job outlives the call that started it: a call may time  *)
(* out or lose its connection, and a later one (a retry with the same key, *)
(* the same instruction again, a status request) picks the job up.  Until  *)
(* a finished result has gone out to its requester, the requesting turn    *)
(* may not complete by itself.                                             *)
(***************************************************************************)
EXTENDS Lists

CONSTANTS
  Jobs,        \* bound: command ids; one that is forgotten stands for a new one
  Calls,       \* bound: HTTP calls that are open at one time
  Agents, Sessions,
  Edges,       \* task edges
  Keys,        \* request keys
  Texts,       \* instructions (their fingerprints)
  AgentOf,     \* the agent a session belongs to
  Source,      \* the agent an edge starts from
  Returning,   \* the edges whose result goes back to a live agent
  Timed,       \* the edges with a time limit
  NoJob, NoKey, NoSession,
  MaxFinished, \* DISPATCH_JOB_MAX_FINISHED
  MaxTaken     \* bound: how many commands leave their queue unsettled

ASSUME DispatchAssumption ==
  /\ AgentOf \in [Sessions -> Agents] /\ Source \in [Edges -> Agents]
  /\ Returning \subseteq Edges /\ Timed \subseteq Edges
  /\ NoJob \notin Jobs /\ NoKey \notin Keys /\ NoSession \notin Sessions
  /\ MaxFinished \in Nat /\ MaxTaken \in Nat

VARIABLES
  job,       \* the jobs that are kept: createDispatchJobRegistry's `jobs`
  index,     \* byRequestKey, per edge (an edge has one source)
  finished,  \* the kept jobs that are finished, by finishedAt
  cmd,       \* where the command of a job is: in a queue, in none, or taken out unsettled
  waiters,   \* createDispatchWaiterHub's `waiters`
  call,      \* the HTTP calls
  edges,     \* the task edges of the graph
  turn,      \* the last turn of a session: running, completed by itself, over (or none yet)
  received   \* history: the results of kept jobs that went out, and to whom

registry == DOMAIN job
ledger == <<job, index, finished>>
running == { s \in Sessions : turn[s] = "running" }
vars == <<ledger, cmd, waiters, call, edges, turn, received>>

\* Completed, failed and cancelled work is finished alike: its result is to be received.
Statuses == {"queued", "executing", "finished"}

JobType ==
  [edge: Edges, session: Sessions \cup {NoSession}, key: Keys \cup {NoKey}, text: Texts,
   status: Statuses, cancelAsked: BOOLEAN, delivered: BOOLEAN]
NoCall == [stage |-> "none"]

Init ==
  /\ job = <<>> /\ finished = <<>>
  /\ index = [x \in Edges \X Keys |-> NoJob]
  /\ cmd = [j \in Jobs |-> "none"]
  /\ waiters = {} /\ call = [c \in Calls |-> NoCall]
  /\ edges = Edges
  /\ turn = [s \in Sessions |-> "over"]
  /\ received = {}

\* `isDispatchResultUndelivered` in a table of jobs.
Undelivered(table, j) ==
  /\ table[j].edge \in Returning
  /\ ~table[j].delivered /\ ~table[j].cancelAsked

\* `currentDispatchJob`: whoever looks at a job writes down that its command started.
Looked(j) ==
  IF j \in registry /\ job[j].status = "queued" /\ cmd[j] = "executing"
  THEN [job EXCEPT ![j].status = "executing"] ELSE job

(***************************************************************************)
(* Calls.  A response is on its way until its `finish` event; only then is *)
(* the result of a job that somebody must receive marked as delivered.     *)
(***************************************************************************)
Reply(s, j, status) ==
  [stage |-> "sent", by |-> s, job |-> j, result |-> status = "finished"]

Hold(kind, s, j, timed) ==
  [stage |-> "held", by |-> s, job |-> j, kind |-> kind, timed |-> timed]

\* The call is about a job that is there: it is held if the caller waits for a
\* result to come, and answered at once otherwise.
Attach(c, kind, s, j, waits, timed) ==
  LET status == Looked(j)[j].status IN
  /\ job' = Looked(j)
  /\ \/ /\ waits /\ status # "finished"
        /\ call' = [call EXCEPT ![c] = Hold(kind, s, j, timed)]
        /\ waiters' = waiters \cup {c}
     \/ /\ ~waits \/ status = "finished"
        /\ call' = [call EXCEPT ![c] = Reply(s, j, status)]
        /\ UNCHANGED waiters
  /\ UNCHANGED <<index, finished, cmd, edges, turn, received>>

\* `resolveDispatchRequesterSub`: the session the caller names, else the only
\* session of the agent that has a turn running.
Asker(s, named) ==
  LET busy == { r \in running : AgentOf[r] = AgentOf[s] } IN
  IF named THEN s
  ELSE IF Cardinality(busy) = 1 THEN CHOOSE r \in busy : TRUE ELSE NoSession

\* `findByRequestKey` and `findUndeliveredDuplicate`.
Retried(e, k) == IF k = NoKey THEN NoJob ELSE index[<<e, k>>]
DuplicatesStillRunning(asker, e, t) ==
  { j \in registry : /\ Undelivered(job, j) /\ job[j].status # "finished"
                     /\ job[j].edge = e /\ job[j].session = asker /\ job[j].text = t }
Duplicates(asker, e, t) ==
  { j \in registry : /\ Undelivered(job, j)
                     /\ job[j].edge = e /\ job[j].session = asker /\ job[j].text = t }

CanDispatch(c, s, e) == call[c] = NoCall /\ e \in edges /\ AgentOf[s] = Source[e]

\* The same key again: the job it started, whatever has become of it.  (The key with
\* another instruction is refused with a 409, which changes nothing.)
Retry(c, s, e, k, t, waits) ==
  /\ CanDispatch(c, s, e)
  /\ Retried(e, k) # NoJob /\ job[Retried(e, k)].text = t
  /\ Attach(c, "dispatch", s, Retried(e, k), waits /\ e \in Returning, e \in Timed)

\* The same instruction again, under another key or none, while its result is still out.
Resume(c, s, e, k, t, named, waits) ==
  /\ CanDispatch(c, s, e)
  /\ Retried(e, k) = NoJob
  /\ e \in Returning /\ Asker(s, named) # NoSession
  /\ \E j \in Duplicates(Asker(s, named), e, t) :
       Attach(c, "dispatch", s, j, waits, e \in Timed)

NewJob(s, e, k, t, status) ==
  [edge |-> e, session |-> s, key |-> k, text |-> t,
   status |-> status, cancelAsked |-> FALSE, delivered |-> FALSE]
\* Command ids are never used twice: an id that nothing knows any more is a new one.
Fresh(j) == j \notin registry /\ cmd[j] = "none" /\ \A c \in Calls : call[c] # NoCall => call[c].job # j
CanLaunch(c, s, e, k, t, named, j) ==
  /\ CanDispatch(c, s, e)
  /\ Retried(e, k) = NoJob
  /\ ~(e \in Returning /\ Asker(s, named) # NoSession /\ Duplicates(Asker(s, named), e, t) # {})
  /\ Fresh(j)

IndexedNever(e, k, j) == index
Indexed(e, k, j) == IF k = NoKey THEN index ELSE [index EXCEPT ![<<e, k>>] = j]

\* A new job: it is registered before its command is queued, so that whatever ends
\* the command finds it.  The command may start at once.
Launch(c, s, e, k, t, named, waits, j) ==
  /\ CanLaunch(c, s, e, k, t, named, j)
  /\ \E started \in {"queued", "executing"} :
       /\ job' = [i \in registry \cup {j} |->
                     IF i = j THEN NewJob(Asker(s, named), e, k, t, started) ELSE job[i]]
       /\ cmd' = [cmd EXCEPT ![j] = started]
       /\ call' = [call EXCEPT ![c] = IF waits /\ e \in Returning
                                      THEN Hold("dispatch", s, j, e \in Timed)
                                      ELSE Reply(s, j, started)]
  /\ index' = Indexed(e, k, j)
  /\ waiters' = IF waits /\ e \in Returning THEN waiters \cup {c} ELSE waiters
  /\ UNCHANGED <<finished, edges, turn, received>>

\* GET /api/task-edges/dispatch/:cmdId by an agent that owns the job.
Status(c, s, j, waits) ==
  /\ call[c] = NoCall
  /\ j \in registry /\ Source[job[j].edge] = AgentOf[s]
  /\ Attach(c, "status", s, j, waits, TRUE)

\* The time a call may be held is over: the job goes on.
TimesOut(c) ==
  /\ call[c].stage = "held" /\ call[c].timed
  /\ waiters' = waiters \ {c}
  /\ job' = Looked(call[c].job)
  /\ call' = [call EXCEPT ![c] = Reply(@.by, @.job, IF @.job \in registry THEN job'[@.job].status ELSE "unknown")]
  /\ UNCHANGED <<index, finished, cmd, edges, turn, received>>

\* The caller hung up while it was held: the job goes on.
HangsUp(c) ==
  /\ c \in waiters
  /\ waiters' = waiters \ {c}
  /\ call' = [call EXCEPT ![c] = NoCall]
  /\ UNCHANGED <<ledger, cmd, edges, turn, received>>

\* The response went out: `markDelivered`.
GoesOut(c) ==
  /\ call[c].stage = "sent"
  /\ LET j == call[c].job IN
     \/ /\ call[c].result /\ j \in registry
        /\ job' = [job EXCEPT ![j].delivered = job[j].edge \in Returning]
        /\ received' = received \cup {<<call[c].by, j>>}
     \/ (~call[c].result \/ j \notin registry) /\ UNCHANGED <<job, received>>
  /\ call' = [call EXCEPT ![c] = NoCall]
  /\ UNCHANGED <<index, finished, cmd, waiters, edges, turn>>

IsLostButMarked(c) ==
  /\ call[c].stage = "sent"
  /\ job' = IF call[c].result /\ call[c].job \in registry THEN [job EXCEPT ![call[c].job].delivered = TRUE] ELSE job
  /\ call' = [call EXCEPT ![c] = NoCall]
  /\ UNCHANGED <<index, finished, cmd, waiters, edges, turn, received>>
\* The connection was lost before the response went out.
IsLost(c) ==
  /\ call[c].stage = "sent"
  /\ call' = [call EXCEPT ![c] = NoCall]
  /\ UNCHANGED <<ledger, cmd, waiters, edges, turn, received>>

(***************************************************************************)
(* The end of a job: `settleDispatchCommand`.                              *)
(***************************************************************************)
ForgetKeepingTheIndex(gone, order, table, keys) ==
  /\ job' = [j \in DOMAIN table \ gone |-> table[j]]
  /\ finished' = Kept(order, DOMAIN table \ gone)
  /\ index' = keys
  /\ received' = { x \in received : x[2] \notin gone }
\* `drop`, of jobs that are kept and found by their keys.
Forget(gone, order, table, keys) ==
  /\ job' = [j \in DOMAIN table \ gone |-> table[j]]
  /\ finished' = Kept(order, DOMAIN table \ gone)
  /\ index' = [x \in Edges \X Keys |-> IF keys[x] \in gone THEN NoJob ELSE keys[x]]
  /\ received' = { x \in received : x[2] \notin gone }

OldestOver(table, order) ==
  { order[i] : i \in 1 .. (IF Len(order) > MaxFinished THEN Len(order) - MaxFinished ELSE 0) }
\* `prune`: of the finished jobs, those over the limit go, results already collected first,
\* then the oldest.
At(order, j) == CHOOSE i \in DOMAIN order : order[i] = j
Over(table, order) ==
  LET done == { j \in DOMAIN table : table[j].status = "finished" }
      Sooner(i, j) == IF Undelivered(table, i) = Undelivered(table, j)
                      THEN At(order, i) < At(order, j)
                      ELSE Undelivered(table, j)
  IN { j \in done : Cardinality({ i \in done : Sooner(i, j) }) + MaxFinished < Cardinality(done) }

\* Those who wait are told: a held dispatch call gets the result it is handed, a
\* held status call asks the registry again.
SettleDispatchCallsOnly(j, kept) ==
  LET told == { c \in waiters : call[c].job = j /\ call[c].kind = "dispatch" } IN
  /\ waiters' = waiters \ told
  /\ call' = [c \in Calls |-> IF c \in told THEN Reply(call[c].by, j, "finished") ELSE call[c]]
Settle(j, kept) ==
  LET told == { c \in waiters : call[c].job = j } IN
  /\ waiters' = waiters \ told
  /\ call' = [c \in Calls |->
       IF c \notin told THEN call[c]
       ELSE IF call[c].kind = "dispatch" \/ j \in kept THEN Reply(call[c].by, j, "finished")
       ELSE NoCall]

\* The command leaves its queue and the job is finished in the table it is given.
Finish(j, table) ==
  LET ended == [table EXCEPT ![j].status = "finished"]
      order == Append(finished, j) IN
  /\ cmd' = [cmd EXCEPT ![j] = "none"]
  /\ Forget(Over(ended, order), order, ended, index)
  /\ Settle(j, DOMAIN job')
  /\ UNCHANGED <<edges, turn>>

\* A new job whose command ends before the call is answered (it could not be spawned).
\* Nobody waits yet; a call that would find its job forgotten gets no result.
LaunchFails(c, s, e, k, t, named, j) ==
  LET table == [i \in registry \cup {j} |->
                 IF i = j THEN NewJob(Asker(s, named), e, k, t, "finished") ELSE job[i]]
      order == Append(finished, j) IN
  /\ CanLaunch(c, s, e, k, t, named, j)
  /\ Forget(Over(table, order), order, table, Indexed(e, k, j))
  /\ call' = [call EXCEPT ![c] = Reply(s, j, IF j \in DOMAIN job' THEN "finished" ELSE "unknown")]
  /\ UNCHANGED <<cmd, waiters, edges, turn>>

\* `processNextCommand` gives the command to a new session of the target.
Start(j) ==
  /\ cmd[j] = "queued"
  /\ cmd' = [cmd EXCEPT ![j] = "executing"]
  /\ UNCHANGED <<ledger, waiters, call, edges, turn, received>>

\* Its turn ends, is stopped, or is sealed because its process is gone.
Ends(j) == cmd[j] = "executing" /\ Finish(j, job)

RemovedQuietly(j) ==
  LET table == [job EXCEPT ![j].status = "finished"]
      order == Append(finished, j) IN
  /\ cmd[j] = "queued"
  /\ cmd' = [cmd EXCEPT ![j] = "none"]
  /\ Forget(Over(table, order), order, table, index)
  /\ UNCHANGED <<waiters, call, edges, turn>>
\* It is deleted, stopped, or its session closed, before it started.
Removed(j) == cmd[j] = "queued" /\ Finish(j, job)

\* POST .../cancel by the owner: a queued command is removed, an executing one is
\* told to stop and ends by itself.
CancelAsked(j) == [Looked(j) EXCEPT ![j].cancelAsked = TRUE]
Cancel(j) ==
  /\ j \in registry /\ job[j].status # "finished"
  /\ \/ cmd[j] = "queued" /\ Finish(j, CancelAsked(j))
     \/ /\ cmd[j] = "executing"
        /\ job' = CancelAsked(j)
        /\ UNCHANGED <<index, finished, cmd, waiters, call, edges, turn, received>>

\* Two ways out of the queue that settle nothing: an interactive session pops its
\* next command when it stops (hooks/handler.mjs), and a command is deleted that
\* has started meanwhile.
Taken(j) ==
  /\ cmd[j] \in {"queued", "executing"}
  /\ Cardinality({ i \in Jobs : cmd[i] = "taken" }) < MaxTaken
  /\ cmd' = [cmd EXCEPT ![j] = "taken"]
  /\ UNCHANGED <<ledger, waiters, call, edges, turn, received>>

\* Six hours: the oldest finished jobs are forgotten by the next call.
Expire(n) ==
  /\ Forget({ j \in registry : job[j].status = "finished" /\ At(finished, j) <= n },
            finished, job, index)
  /\ UNCHANGED <<cmd, waiters, call, edges, turn>>

(***************************************************************************)
(* The requesting side.                                                    *)
(***************************************************************************)
RemoveEdge(e) ==
  /\ e \in edges
  /\ edges' = edges \ {e}
  /\ UNCHANGED <<ledger, cmd, waiters, call, turn, received>>

TurnStarts(s) ==
  /\ s \notin running
  /\ turn' = [turn EXCEPT ![s] = "running"]
  /\ UNCHANGED <<ledger, cmd, waiters, call, edges, received>>

\* `pendingDispatchResultsFor`, `failIfDispatchResultMissing`
Missing(s) ==
  { j \in registry : job[j].session = s /\ job[j].edge \in edges /\ Undelivered(job, j) }

\* The turn has come to its end without an error.
TurnEnds(s) ==
  /\ s \in running
  /\ turn' = [turn EXCEPT ![s] = IF Missing(s) = {} THEN "completed" ELSE "over"]
  /\ UNCHANGED <<ledger, cmd, waiters, call, edges, received>>

\* It fails, or the user stops it or removes its session: nobody asks what is missing.  The
\* command of a turn the user stopped is recorded as completed, with `[Stopped by user]`.
TurnStopped(s) ==
  /\ s \in running
  /\ turn' = [turn EXCEPT ![s] = "over"]
  /\ UNCHANGED <<ledger, cmd, waiters, call, edges, received>>

Dispatch(c, s, e, k, t, named, waits) ==
  \/ Retry(c, s, e, k, t, waits)
  \/ Resume(c, s, e, k, t, named, waits)
  \/ \E j \in Jobs : Launch(c, s, e, k, t, named, waits, j) \/ LaunchFails(c, s, e, k, t, named, j)

Ask ==
  \E c \in Calls, s \in Sessions, waits \in BOOLEAN :
    \/ \E e \in Edges, k \in Keys \cup {NoKey}, t \in Texts, named \in BOOLEAN :
         Dispatch(c, s, e, k, t, named, waits)
    \/ \E j \in Jobs : Status(c, s, j, waits)
CallGoesOn == \E c \in Calls : TimesOut(c) \/ HangsUp(c) \/ GoesOut(c) \/ IsLost(c)
Expires == \E n \in 1 .. Len(finished) : Expire(n)
JobGoesOn ==
  \/ \E j \in Jobs : Start(j) \/ Ends(j) \/ Removed(j) \/ Cancel(j) \/ Taken(j)
  \/ Expires
TurnGoesOn == \/ \E s \in Sessions : TurnStarts(s) \/ TurnEnds(s) \/ TurnStopped(s)
              \/ \E e \in Edges : RemoveEdge(e)

Next == Ask \/ CallGoesOn \/ JobGoesOn \/ TurnGoesOn

\* The queue hands out its commands (turn ends and the 5 s watchdog push it), and a
\* turn ends: its process exits, or the zombie sweep seals it.
Fairness ==
  \A j \in Jobs : WF_vars(Start(j)) /\ WF_vars(Ends(j))

Spec == Init /\ [][Next]_vars /\ Fairness

(***************************************************************************)
(* What the ledger and the waiting calls promise.                          *)
(***************************************************************************)
IsFinished(j) == job[j].status = "finished"

\* Types.  A key finds only a kept job of its edge, and `finished` lists the kept jobs
\* that are finished, each once and no more of them than DISPATCH_JOB_MAX_FINISHED.
TypeOK ==
  /\ registry \subseteq Jobs /\ job \in [registry -> JobType]
  /\ \A x \in Edges \X Keys : \/ index[x] = NoJob
                              \/ /\ index[x] \in registry
                                 /\ <<job[index[x]].edge, job[index[x]].key>> = x
  /\ finished \in Seq(registry) /\ Len(finished) <= MaxFinished
  /\ { finished[i] : i \in DOMAIN finished } = { j \in registry : IsFinished(j) }
  /\ Cardinality({ j \in registry : IsFinished(j) }) = Len(finished)
  /\ cmd \in [Jobs -> {"none", "queued", "executing", "taken"}]
  /\ waiters = { c \in Calls : call[c].stage = "held" }
  /\ edges \subseteq Edges
  /\ turn \in [Sessions -> {"running", "completed", "over"}]
  /\ received \subseteq Sessions \X registry

\* A call is held only for a job that is kept and not finished: whatever ends a job
\* (index.ts, all the callers of `settleDispatchCommand`) tells everybody who waits for
\* it, and a job that is waited for is never pruned.
NobodyWaitsOnAFinishedJob ==
  \A c \in waiters : call[c].job \in registry /\ ~IsFinished(call[c].job)

\* A key that is used again never starts a second command while the job it started is
\* kept (`register`, `findByRequestKey`), however the first call ended.
OneRunPerKey ==
  \A i, j \in registry :
    (i # j /\ job[i].edge = job[j].edge) => (job[i].key # job[j].key \/ job[i].key = NoKey)

\* A session that asks for the same work again, under another key or none, gets the job
\* whose result it has not received yet, running or finished (`findUndeliveredDuplicate`).
NoDuplicateWork ==
  \A i, j \in registry :
    (/\ i # j /\ Undelivered(job, i) /\ Undelivered(job, j)
     /\ job[i].edge = job[j].edge /\ job[i].session = job[j].session /\ job[i].session # NoSession)
      => job[i].text # job[j].text

\* Unless its six hours are over, a result nobody received is forgotten only when every
\* other result that is kept is one nobody received either (`prune`).
UndeliveredResultsGoLast ==
  [][ \/ Expires
      \/ (\E j \in registry : j \notin registry' /\ IsFinished(j) /\ Undelivered(job, j))
           => \A i \in registry' : job'[i].status = "finished" => Undelivered(job', i) ]_vars

\* When a turn completes by itself, its session has been sent the result of every job it
\* started and is owed, save those it cancelled, whose edge the user removed or which the
\* ledger had to forget (`failIfDispatchResultMissing`).  For a session that is the only
\* one of its agent: any session of the agent may receive the agent's results.  A turn the
\* user stopped is not asked (`if (!userStopped)`) although it is recorded as completed.
CompletedTurnsHaveTheirResults ==
  [][ \A s \in Sessions : (turn[s] = "running" /\ turn'[s] = "completed") =>
        \A j \in registry : (/\ job[j].session = s /\ job[j].edge \in edges \cap Returning
                             /\ ~job[j].cancelAsked)
                            => <<s, j>> \in received ]_vars

\* A held call is let go, limit or not (every caller of `settleDispatchCommand`), unless
\* its command was taken out of the queue by one of the two ways that settle nothing.
HeldCallsAreAnswered ==
  \A c \in Calls : (c \in waiters) ~> (c \notin waiters \/ cmd[call[c].job] = "taken")
=============================================================================

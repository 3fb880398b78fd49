--------------------------- MODULE DispatchJobsProofs ---------------------------
(***************************************************************************)
(* The invariants of DispatchJobs for any number of jobs, calls, sessions, *)
(* edges and keys, and any limit on finished jobs: work that is asked for  *)
(* again is not started again while its job is kept, nobody waits for a    *)
(* job that is over, and results that are owed are forgotten last and hold *)
(* up the end of the turn that they are owed to.                           *)
(*                                                                         *)
(* The invariant DispatchInv has two halves.  The ledger (LedgerOK): keys  *)
(* and jobs find each other, and no two kept jobs are the same work.  The  *)
(* others (CommandsOpen, WaitersOpen): a command in its queue or running,  *)
(* and a call that is held, belong to a job that is kept and not finished. *)
(* On it rest FinishedOK, the order in which finished jobs are forgotten,  *)
(* and OwedOK, which agent a job and its delivered result belong to.       *)
(***************************************************************************)
EXTENDS DispatchJobs, ListsProofs

\* ---- the invariant ----
Open(t, j) == j \in DOMAIN t /\ t[j].status # "finished"

SameWork(t, i, j) ==
  /\ Undelivered(t, i) /\ Undelivered(t, j)
  /\ t[i].edge = t[j].edge /\ t[i].session = t[j].session /\ t[i].session # NoSession
  /\ t[i].text = t[j].text

TableOK(t, keys) ==
  /\ DOMAIN t \subseteq Jobs /\ t \in [DOMAIN t -> JobType]
  /\ keys = [x \in Edges \X Keys |-> keys[x]]
  /\ \A x \in Edges \X Keys :
       keys[x] # NoJob => keys[x] \in DOMAIN t /\ <<t[keys[x]].edge, t[keys[x]].key>> = x
  /\ \A j \in DOMAIN t : t[j].key # NoKey => keys[<<t[j].edge, t[j].key>>] = j
  /\ \A i, j \in DOMAIN t : i # j => ~SameWork(t, i, j)
LedgerOK == TableOK(job, index)
CommandsOpen ==
  /\ cmd = [j \in Jobs |-> cmd[j]]
  /\ \A j \in Jobs : cmd[j] # "none" => Open(job, j)
WaitersOpen ==
  /\ call = [c \in Calls |-> call[c]]
  /\ waiters = { c \in Calls : call[c].stage = "held" }
  /\ \A c \in waiters : Open(job, call[c].job)

DispatchInv == LedgerOK /\ CommandsOpen /\ WaitersOpen

\* ---- the ledger ----
\* A step that leaves what a job is about, and delivers or cancels at most, keeps the table.
Alike(t, u) ==
  /\ DOMAIN u = DOMAIN t /\ u \in [DOMAIN t -> JobType]
  /\ \A j \in DOMAIN t :
       /\ u[j].edge = t[j].edge /\ u[j].session = t[j].session
       /\ u[j].key = t[j].key /\ u[j].text = t[j].text
       /\ Undelivered(u, j) => Undelivered(t, j)

LEMMA AlikeKeeps ==
  ASSUME NEW t, NEW keys, TableOK(t, keys), NEW u, Alike(t, u)
  PROVE  TableOK(u, keys)
<1>1. \A i, j \in DOMAIN u : SameWork(u, i, j) => SameWork(t, i, j)
  BY DEF Alike, SameWork
<1> QED
  BY <1>1 DEF Alike, TableOK

LEMMA LookedIsAlike ==
  ASSUME NEW j, LedgerOK
  PROVE  /\ Alike(job, Looked(j))
         /\ \A i : Open(job, i) => Open(Looked(j), i)
         /\ \A i \in DOMAIN job : (Looked(j)[i].status = "finished") = (job[i].status = "finished")
<1>1. job \in [DOMAIN job -> JobType]
  BY DEF LedgerOK, TableOK
<1>2. CASE Looked(j) = job
  BY <1>1, <1>2 DEF Alike, Open
<1>3. CASE j \in registry /\ job[j].status = "queued" /\ Looked(j) = [job EXCEPT ![j].status = "executing"]
  BY <1>1, <1>3 DEF Alike, Open, JobType, Statuses, Undelivered, registry
<1> QED
  BY <1>2, <1>3 DEF Looked

\* Forgetting finished jobs and their keys.
LEMMA ForgetKeeps ==
  ASSUME NEW table, NEW keys, TableOK(table, keys), NEW gone, NEW order,
         Forget(gone, order, table, keys)
  PROVE  /\ TableOK(job', index')
         /\ DOMAIN job' = DOMAIN table \ gone
         /\ \A j \in DOMAIN job' : job'[j] = table[j]
<1>1. /\ job' = [j \in DOMAIN table \ gone |-> table[j]]
      /\ index' = [x \in Edges \X Keys |-> IF keys[x] \in gone THEN NoJob ELSE keys[x]]
  BY DEF Forget
<1>2. /\ DOMAIN job' = DOMAIN table \ gone
      /\ \A j \in DOMAIN job' : job'[j] = table[j]
  BY <1>1
<1>3. \A i, j \in DOMAIN job' : SameWork(job', i, j) => SameWork(table, i, j)
  BY <1>2 DEF SameWork, Undelivered
<1>4. DOMAIN job' \subseteq Jobs /\ job' \in [DOMAIN job' -> JobType]
  BY <1>1, <1>2 DEF TableOK
<1>5. \A x \in Edges \X Keys :
        index'[x] # NoJob => index'[x] \in DOMAIN job' /\ <<job'[index'[x]].edge, job'[index'[x]].key>> = x
  <2> SUFFICES ASSUME NEW x \in Edges \X Keys, index'[x] # NoJob
               PROVE  index'[x] \in DOMAIN job' /\ <<job'[index'[x]].edge, job'[index'[x]].key>> = x
    OBVIOUS
  <2>1. index'[x] = keys[x] /\ keys[x] \notin gone /\ keys[x] # NoJob
    BY <1>1
  <2>2. keys[x] \in DOMAIN table /\ <<table[keys[x]].edge, table[keys[x]].key>> = x
    BY <2>1 DEF TableOK
  <2> QED
    BY <1>2, <2>1, <2>2
<1>6. \A j \in DOMAIN job' : job'[j].key # NoKey => index'[<<job'[j].edge, job'[j].key>>] = j
  <2> SUFFICES ASSUME NEW j \in DOMAIN table, j \notin gone, table[j].key # NoKey
               PROVE  index'[<<table[j].edge, table[j].key>>] = j
    BY <1>2
  <2>1. <<table[j].edge, table[j].key>> \in Edges \X Keys
    BY DEF TableOK, JobType
  <2>2. keys[<<table[j].edge, table[j].key>>] = j
    BY DEF TableOK
  <2> QED
    BY <1>1, <2>1, <2>2
<1>7. index' = [x \in Edges \X Keys |-> index'[x]]
  BY <1>1
<1>8. \A i, j \in DOMAIN job' : i # j => ~SameWork(job', i, j)
  BY <1>2, <1>3 DEF TableOK
<1> QED
  BY <1>2, <1>4, <1>5, <1>6, <1>7, <1>8 DEF TableOK

LEMMA OverIsFinished ==
  ASSUME NEW table, NEW order
  PROVE  \A j \in Over(table, order) : j \in DOMAIN table /\ table[j].status = "finished"
BY DEF Over

\* ---- calls ----
\* Everybody who waits for j is told, and j is out of its queue; other jobs stay open.
LEMMA FinishKeeps ==
  ASSUME DispatchInv, NEW j \in Jobs, NEW table, cmd[j] # "none",
         Alike(job, table), \A i : Open(job, i) => Open(table, i),
         Finish(j, table)
  PROVE  DispatchInv'
<1> DEFINE ended == [table EXCEPT ![j].status = "finished"]
           order == Append(finished, j)
           told == { c \in waiters : call[c].job = j }
<1>1. /\ cmd' = [cmd EXCEPT ![j] = "none"]
      /\ Forget(Over(ended, order), order, ended, index)
      /\ waiters' = waiters \ told
      /\ \A c \in Calls : c \notin told => call'[c] = call[c]
      /\ \A c \in told : call'[c].stage # "held"
      /\ call' = [c \in Calls |-> call'[c]]
  BY DEF Finish, Settle, Reply, NoCall, DispatchInv, WaitersOpen
<1>2. Open(job, j) /\ j \in DOMAIN table /\ table \in [DOMAIN table -> JobType]
  BY DEF DispatchInv, CommandsOpen, Open, Alike
<1>3. Alike(job, ended)
  BY <1>2 DEF Alike, JobType, Statuses, Undelivered
<1>4. \A i : i # j /\ Open(job, i) => Open(ended, i)
  BY <1>2 DEF Open
<1> HIDE DEF ended, order
<1>5. TableOK(ended, index)
  BY <1>3, AlikeKeeps DEF DispatchInv, LedgerOK
<1>6. /\ TableOK(job', index')
      /\ DOMAIN job' = DOMAIN ended \ Over(ended, order)
      /\ \A i \in DOMAIN job' : job'[i] = ended[i]
  BY <1>1, <1>5, ForgetKeeps
<1>7. \A i : i # j /\ Open(job, i) => Open(job', i)
  BY <1>4, <1>6, OverIsFinished DEF Open
<1>8. CommandsOpen'
  BY <1>1, <1>7 DEF DispatchInv, CommandsOpen
<1>9. WaitersOpen'
  <2>1. waiters' = { c \in Calls : call'[c].stage = "held" }
    BY <1>1 DEF DispatchInv, WaitersOpen
  <2>2. \A c \in waiters' : Open(job', call'[c].job)
    BY <1>1, <1>7 DEF DispatchInv, WaitersOpen
  <2> QED
    BY <1>1, <2>1, <2>2 DEF WaitersOpen
<1> QED
  BY <1>6, <1>8, <1>9 DEF DispatchInv, LedgerOK

\* What is open stays open: all that an action owes which changes one call or none.
LEMMA CommandsStayOpen ==
  ASSUME DispatchInv, \A i : Open(job, i) => Open(job', i), cmd' = cmd
  PROVE  CommandsOpen'
BY DEF DispatchInv, CommandsOpen

LEMMA CallLetGo ==
  ASSUME DispatchInv, NEW c \in Calls, NEW new, new.stage # "held",
         call' = [call EXCEPT ![c] = new], waiters' = waiters \ {c},
         \A i : Open(job, i) => Open(job', i)
  PROVE  WaitersOpen'
<1>1. call' = [d \in Calls |-> IF d = c THEN new ELSE call[d]]
  BY DEF DispatchInv, WaitersOpen
<1> QED
  BY <1>1 DEF DispatchInv, WaitersOpen

LEMMA CallHeld ==
  ASSUME DispatchInv, NEW c \in Calls, NEW new, new.stage = "held", Open(job', new.job),
         call' = [call EXCEPT ![c] = new], waiters' = waiters \cup {c},
         \A i : Open(job, i) => Open(job', i)
  PROVE  WaitersOpen'
<1>1. call' = [d \in Calls |-> IF d = c THEN new ELSE call[d]]
  BY DEF DispatchInv, WaitersOpen
<1> QED
  BY <1>1 DEF DispatchInv, WaitersOpen

LEMMA CallsStay ==
  ASSUME DispatchInv, \A i : Open(job, i) => Open(job', i), call' = call, waiters' = waiters
  PROVE  WaitersOpen'
BY DEF DispatchInv, WaitersOpen

LEMMA NotWaiting ==
  ASSUME DispatchInv, NEW c \in Calls, call[c].stage # "held"
  PROVE  waiters = waiters \ {c}
BY DEF DispatchInv, WaitersOpen

LEMMA AttachKeeps ==
  ASSUME DispatchInv, NEW c \in Calls, call[c] = NoCall, NEW kind, NEW s, NEW j \in registry,
         NEW waits, NEW timed, Attach(c, kind, s, j, waits, timed)
  PROVE  DispatchInv'
<1>1. /\ job' = Looked(j) /\ index' = index /\ cmd' = cmd
  BY DEF Attach
<1>2. /\ Alike(job, job')
      /\ \A i : Open(job, i) => Open(job', i)
      /\ (job'[j].status = "finished") = (job[j].status = "finished")
  BY <1>1, LookedIsAlike DEF DispatchInv, registry
<1>3. LedgerOK'
  BY <1>1, <1>2, AlikeKeeps DEF DispatchInv, LedgerOK
<1>4. CommandsOpen'
  BY <1>1, <1>2, CommandsStayOpen
<1>5. CASE /\ Looked(j)[j].status # "finished"
           /\ call' = [call EXCEPT ![c] = Hold(kind, s, j, timed)]
           /\ waiters' = waiters \cup {c}
  <2>1. Open(job', j)
    BY <1>1, <1>2, <1>5 DEF Open, Alike, registry
  <2>2. Hold(kind, s, j, timed).stage = "held" /\ Hold(kind, s, j, timed).job = j
    BY DEF Hold
  <2>3. WaitersOpen'
    BY <1>2, <1>5, <2>1, <2>2, CallHeld
  <2> QED
    BY <1>3, <1>4, <2>3 DEF DispatchInv
<1>6. CASE /\ call' = [call EXCEPT ![c] = Reply(s, j, Looked(j)[j].status)]
           /\ waiters' = waiters
  <2>1. Reply(s, j, Looked(j)[j].status).stage # "held"
    BY DEF Reply
  <2>2. waiters' = waiters \ {c}
    BY <1>6, NotWaiting DEF NoCall
  <2>3. WaitersOpen'
    BY <1>2, <1>6, <2>1, <2>2, CallLetGo
  <2> QED
    BY <1>3, <1>4, <2>3 DEF DispatchInv
<1> QED
  BY <1>5, <1>6 DEF Attach

\* ---- asking ----
LEMMA RetryKeeps ==
  ASSUME DispatchInv, NEW c \in Calls, NEW s, NEW e \in Edges, NEW k \in Keys \cup {NoKey}, NEW t,
         NEW waits, Retry(c, s, e, k, t, waits)
  PROVE  DispatchInv'
<1>1. call[c] = NoCall /\ Retried(e, k) \in registry
  BY DEF Retry, CanDispatch, Retried, DispatchInv, LedgerOK, TableOK, registry
<1> QED
  BY <1>1, AttachKeeps DEF Retry

LEMMA ResumeKeeps ==
  ASSUME DispatchInv, NEW c \in Calls, NEW s, NEW e, NEW k, NEW t, NEW named, NEW waits,
         Resume(c, s, e, k, t, named, waits)
  PROVE  DispatchInv'
<1>1. PICK j \in Duplicates(Asker(s, named), e, t) :
        Attach(c, "dispatch", s, j, waits, e \in Timed)
  BY DEF Resume
<1>2. call[c] = NoCall /\ j \in registry
  BY DEF Resume, CanDispatch, Duplicates
<1> QED
  BY <1>1, <1>2, AttachKeeps

LEMMA StatusKeeps ==
  ASSUME DispatchInv, NEW c \in Calls, NEW s, NEW j, NEW waits, Status(c, s, j, waits)
  PROVE  DispatchInv'
BY AttachKeeps DEF Status

LEMMA AskerIsASession ==
  ASSUME NEW s \in Sessions, NEW named
  PROVE  Asker(s, named) \in Sessions \cup {NoSession}
<1> DEFINE busy == { r \in running : AgentOf[r] = AgentOf[s] }
<1>1. CASE named
  BY <1>1 DEF Asker
<1>2. CASE ~named /\ Cardinality(busy) = 1
  <2>1. busy # {}
    BY <1>2, FS_EmptySet
  <2>2. (CHOOSE r \in busy : TRUE) \in busy
    BY <2>1
  <2> QED
    BY <1>2, <2>2 DEF Asker, running
<1>3. CASE ~named /\ Cardinality(busy) # 1
  BY <1>3 DEF Asker
<1> QED
  BY <1>1, <1>2, <1>3

\* The table with a new job, under its key.
Launched(s, e, k, t, named, j, status) ==
  [i \in registry \cup {j} |->
     IF i = j THEN NewJob(Asker(s, named), e, k, t, status) ELSE job[i]]

LEMMA LaunchedTable ==
  ASSUME DispatchInv, NEW c \in Calls, NEW s \in Sessions, NEW e \in Edges,
         NEW k \in Keys \cup {NoKey}, NEW t \in Texts, NEW named, NEW j \in Jobs,
         CanLaunch(c, s, e, k, t, named, j), NEW status \in Statuses
  PROVE  LET table == Launched(s, e, k, t, named, j, status)
         IN /\ TableOK(table, Indexed(e, k, j))
            /\ \A i : Open(job, i) => Open(table, i)
            /\ j \notin registry /\ cmd[j] = "none" /\ call[c] = NoCall
<1> DEFINE asker == Asker(s, named)
           new == NewJob(asker, e, k, t, status)
           table == Launched(s, e, k, t, named, j, status)
<1>1. j \notin registry /\ cmd[j] = "none" /\ call[c] = NoCall
  BY DEF CanLaunch, CanDispatch, Fresh
<1>2. TableOK(job, index)
  BY DEF DispatchInv, LedgerOK
<1>3. asker \in Sessions \cup {NoSession}
  BY AskerIsASession
<1>4. /\ new \in JobType /\ new.edge = e /\ new.key = k /\ new.text = t /\ new.session = asker
      /\ new.status = status
  <2> HIDE DEF asker
  <2> QED
    BY <1>3 DEF NewJob, JobType
<1>5. (k # NoKey => index[<<e, k>>] = NoJob)
      /\ ~(e \in Returning /\ asker # NoSession /\ Duplicates(asker, e, t) # {})
  BY DEF CanLaunch, Retried
<1> HIDE DEF asker, new, table
<1>6. /\ DOMAIN table = registry \cup {j} /\ table[j] = new
      /\ \A i \in registry : table[i] = job[i]
      /\ table = [i \in registry \cup {j} |-> table[i]]
  BY <1>1 DEF new, asker, table, Launched
<1>7. DOMAIN table \subseteq Jobs /\ table \in [DOMAIN table -> JobType]
  BY <1>2, <1>4, <1>6 DEF TableOK, registry
<1>8. /\ Indexed(e, k, j) = [x \in Edges \X Keys |-> Indexed(e, k, j)[x]]
      /\ \A x \in Edges \X Keys :
           Indexed(e, k, j)[x] # NoJob =>
             /\ Indexed(e, k, j)[x] \in DOMAIN table
             /\ <<table[Indexed(e, k, j)[x]].edge, table[Indexed(e, k, j)[x]].key>> = x
  <2>1. Indexed(e, k, j) = [x \in Edges \X Keys |-> IF k # NoKey /\ x = <<e, k>> THEN j ELSE index[x]]
    BY <1>2 DEF Indexed, TableOK
  <2>2. \A x \in Edges \X Keys : index[x] # NoJob =>
          index[x] \in DOMAIN table /\ <<table[index[x]].edge, table[index[x]].key>> = x
    BY <1>2, <1>6 DEF TableOK, registry
  <2>3. j \in DOMAIN table /\ <<table[j].edge, table[j].key>> = <<e, k>>
    BY <1>4, <1>6
  <2> QED
    BY <2>1, <2>2, <2>3
<1>9. \A i \in DOMAIN table :
        table[i].key # NoKey => Indexed(e, k, j)[<<table[i].edge, table[i].key>>] = i
  <2> SUFFICES ASSUME NEW i \in DOMAIN table, table[i].key # NoKey
               PROVE  Indexed(e, k, j)[<<table[i].edge, table[i].key>>] = i
    OBVIOUS
  <2>1. CASE i = j
    BY <1>2, <1>4, <1>6, <2>1 DEF Indexed, TableOK
  <2>2. CASE i # j
    <3>1. i \in registry /\ table[i] = job[i] /\ job[i] \in JobType
      BY <1>2, <1>6, <2>2 DEF TableOK, registry
    <3>2. job[i].edge \in Edges /\ job[i].key \in Keys
      BY <3>1 DEF JobType
    <3>3. index[<<job[i].edge, job[i].key>>] = i /\ i # NoJob
      BY <1>2, <3>1, DispatchAssumption DEF TableOK, registry
    <3>4. k # NoKey => <<job[i].edge, job[i].key>> # <<e, k>>
      BY <1>5, <3>3
    <3> QED
      BY <1>2, <3>1, <3>2, <3>3, <3>4 DEF Indexed, TableOK
  <2> QED
    BY <2>1, <2>2
<1>10. \A i, l \in DOMAIN table : i # l => ~SameWork(table, i, l)
  <2>1. \A i \in registry : ~SameWork(table, i, j) /\ ~SameWork(table, j, i)
    <3> SUFFICES ASSUME NEW i \in registry, SameWork(table, i, j) \/ SameWork(table, j, i)
                 PROVE  FALSE
      OBVIOUS
    <3>1. /\ Undelivered(job, i) /\ job[i].edge = e /\ job[i].session = asker /\ job[i].text = t
          /\ asker # NoSession /\ e \in Returning
      BY <1>4, <1>6 DEF SameWork, Undelivered
    <3>2. i \in Duplicates(asker, e, t)
      BY <3>1 DEF Duplicates
    <3> QED
      BY <1>5, <3>1, <3>2
  <2>2. \A i, l \in registry : SameWork(table, i, l) => SameWork(job, i, l)
    BY <1>6 DEF SameWork, Undelivered
  <2>3. \A i, l \in registry : i # l => ~SameWork(table, i, l)
    BY <1>2, <2>2 DEF TableOK, registry
  <2> QED
    BY <1>6, <2>1, <2>3
<1>11. \A i : Open(job, i) => Open(table, i)
  BY <1>6 DEF Open, registry
<1> QED
  BY <1>1, <1>7, <1>8, <1>9, <1>10, <1>11 DEF TableOK, table

LEMMA LaunchKeeps ==
  ASSUME DispatchInv, NEW c \in Calls, NEW s \in Sessions, NEW e \in Edges,
         NEW k \in Keys \cup {NoKey}, NEW t \in Texts, NEW named, NEW waits, NEW j \in Jobs,
         Launch(c, s, e, k, t, named, waits, j)
  PROVE  DispatchInv'
<1>1. PICK started \in {"queued", "executing"} :
        /\ job' = Launched(s, e, k, t, named, j, started)
        /\ cmd' = [cmd EXCEPT ![j] = started]
        /\ call' = [call EXCEPT ![c] = IF waits /\ e \in Returning
                                       THEN Hold("dispatch", s, j, e \in Timed)
                                       ELSE Reply(s, j, started)]
  BY DEF Launch, Launched
<1>2. /\ CanLaunch(c, s, e, k, t, named, j) /\ index' = Indexed(e, k, j)
      /\ waiters' = IF waits /\ e \in Returning THEN waiters \cup {c} ELSE waiters
      /\ started \in Statuses
  BY DEF Launch, Statuses
<1>3. /\ TableOK(job', index')
      /\ \A i : Open(job, i) => Open(job', i)
      /\ call[c] = NoCall
  BY <1>1, <1>2, LaunchedTable
<1>4. Open(job', j)
  BY <1>1 DEF Open, NewJob, Launched
<1>5. CommandsOpen'
  BY <1>1, <1>3, <1>4 DEF DispatchInv, CommandsOpen
<1>6. CASE waits /\ e \in Returning
  <2>1. Hold("dispatch", s, j, e \in Timed).stage = "held" /\ Hold("dispatch", s, j, e \in Timed).job = j
    BY DEF Hold
  <2>2. WaitersOpen'
    BY <1>1, <1>2, <1>3, <1>4, <1>6, <2>1, CallHeld
  <2> QED
    BY <1>3, <1>5, <2>2 DEF DispatchInv, LedgerOK
<1>7. CASE ~(waits /\ e \in Returning)
  <2>1. Reply(s, j, started).stage # "held" /\ waiters = waiters \ {c}
    BY <1>3, NotWaiting DEF Reply, NoCall
  <2>2. WaitersOpen'
    BY <1>1, <1>2, <1>3, <1>7, <2>1, CallLetGo
  <2> QED
    BY <1>3, <1>5, <2>2 DEF DispatchInv, LedgerOK
<1> QED
  BY <1>6, <1>7

LEMMA LaunchFailsKeeps ==
  ASSUME DispatchInv, NEW c \in Calls, NEW s \in Sessions, NEW e \in Edges,
         NEW k \in Keys \cup {NoKey}, NEW t \in Texts, NEW named, NEW j \in Jobs,
         LaunchFails(c, s, e, k, t, named, j)
  PROVE  DispatchInv'
<1> DEFINE table == Launched(s, e, k, t, named, j, "finished")
           order == Append(finished, j)
           answer == Reply(s, j, IF j \in DOMAIN job' THEN "finished" ELSE "unknown")
<1>1. /\ CanLaunch(c, s, e, k, t, named, j)
      /\ Forget(Over(table, order), order, table, Indexed(e, k, j))
      /\ call' = [call EXCEPT ![c] = answer]
      /\ cmd' = cmd /\ waiters' = waiters
  BY DEF LaunchFails, Launched
<1>2. "finished" \in Statuses
  BY DEF Statuses
<1>3. /\ TableOK(table, Indexed(e, k, j))
      /\ \A i : Open(job, i) => Open(table, i)
      /\ call[c] = NoCall
  BY <1>1, <1>2, LaunchedTable
<1> HIDE DEF table, order
<1>4. /\ TableOK(job', index')
      /\ DOMAIN job' = DOMAIN table \ Over(table, order)
      /\ \A i \in DOMAIN job' : job'[i] = table[i]
  BY <1>1, <1>3, ForgetKeeps
<1>5. \A i : Open(job, i) => Open(job', i)
  BY <1>3, <1>4, OverIsFinished DEF Open
<1>6. CommandsOpen'
  BY <1>1, <1>5, CommandsStayOpen
<1>7. answer.stage # "held" /\ waiters = waiters \ {c}
  BY <1>3, NotWaiting DEF Reply, NoCall
<1> HIDE DEF answer
<1>8. WaitersOpen'
  BY <1>1, <1>5, <1>7, CallLetGo
<1> QED
  BY <1>4, <1>6, <1>8 DEF DispatchInv, LedgerOK

\* ---- what becomes of a call ----
LEMMA TimesOutKeeps ==
  ASSUME DispatchInv, NEW c \in Calls, TimesOut(c)
  PROVE  DispatchInv'
<1> DEFINE j == call[c].job
           answer == Reply(call[c].by, j, IF j \in registry THEN job'[j].status ELSE "unknown")
<1>1. /\ job' = Looked(j) /\ index' = index /\ cmd' = cmd /\ waiters' = waiters \ {c}
      /\ call' = [call EXCEPT ![c] = answer]
  BY DEF TimesOut, DispatchInv, WaitersOpen
<1>2. Alike(job, job') /\ \A i : Open(job, i) => Open(job', i)
  BY <1>1, LookedIsAlike DEF DispatchInv
<1>3. answer.stage # "held"
  BY DEF Reply
<1> HIDE DEF j, answer
<1>4. LedgerOK'
  BY <1>1, <1>2, AlikeKeeps DEF DispatchInv, LedgerOK
<1>5. CommandsOpen'
  BY <1>1, <1>2, CommandsStayOpen
<1>6. WaitersOpen'
  BY <1>1, <1>2, <1>3, CallLetGo
<1> QED
  BY <1>4, <1>5, <1>6 DEF DispatchInv

LEMMA HangsUpKeeps ==
  ASSUME DispatchInv, NEW c \in Calls, HangsUp(c)
  PROVE  DispatchInv'
<1>1. /\ job' = job /\ index' = index /\ cmd' = cmd /\ waiters' = waiters \ {c}
      /\ call' = [call EXCEPT ![c] = NoCall] /\ NoCall.stage # "held"
  BY DEF HangsUp, ledger, NoCall
<1>2. LedgerOK'
  BY <1>1 DEF DispatchInv, LedgerOK
<1>3. CommandsOpen'
  BY <1>1, CommandsStayOpen
<1>4. WaitersOpen'
  BY <1>1, CallLetGo
<1> QED
  BY <1>2, <1>3, <1>4 DEF DispatchInv

LEMMA GoesOutKeeps ==
  ASSUME DispatchInv, NEW c \in Calls, GoesOut(c) \/ IsLost(c)
  PROVE  DispatchInv'
<1> DEFINE j == call[c].job
<1>1. /\ index' = index /\ cmd' = cmd /\ waiters' = waiters /\ call[c].stage # "held"
      /\ call' = [call EXCEPT ![c] = NoCall] /\ NoCall.stage # "held"
  BY DEF GoesOut, IsLost, ledger, NoCall
<1>2. job \in [DOMAIN job -> JobType]
  BY DEF DispatchInv, LedgerOK, TableOK
<1>3. Alike(job, job') /\ \A i : Open(job, i) => Open(job', i)
  <2>1. CASE job' = job
    BY <1>2, <2>1 DEF Alike
  <2>2. CASE j \in registry /\ job' = [job EXCEPT ![j].delivered = job[j].edge \in Returning]
    <3> DEFINE b == job[j].edge \in Returning
    <3>1. b \in BOOLEAN /\ (job[j].edge \in Returning => b = TRUE)
          /\ job' = [job EXCEPT ![j].delivered = b]
      BY <2>2
    <3> HIDE DEF b, j
    <3>2. Alike(job, job')
      <4>1. \A i \in DOMAIN job : i # j => job'[i] = job[i]
        BY <1>2, <3>1
      <4>2. DOMAIN job' = DOMAIN job /\ job' \in [DOMAIN job -> JobType]
        BY <1>2, <2>2, <3>1 DEF JobType, registry
      <4>3. /\ job'[j].edge = job[j].edge /\ job'[j].session = job[j].session
            /\ job'[j].key = job[j].key /\ job'[j].text = job[j].text
            /\ job'[j].delivered = b
        BY <1>2, <2>2, <3>1 DEF JobType, registry
      <4>4. ~Undelivered(job', j)
        BY <3>1, <4>3 DEF Undelivered
      <4> QED
        BY <4>1, <4>2, <4>3, <4>4 DEF Alike, Undelivered
    <3>3. \A i : Open(job, i) => Open(job', i)
      BY <1>2, <2>2 DEF Open, registry
    <3> QED
      BY <3>2, <3>3
  <2> QED
    BY <2>1, <2>2 DEF GoesOut, IsLost, ledger
<1>4. LedgerOK'
  BY <1>1, <1>3, AlikeKeeps DEF DispatchInv, LedgerOK
<1>5. CommandsOpen'
  BY <1>1, <1>3, CommandsStayOpen
<1>6. WaitersOpen'
  BY <1>1, <1>3, NotWaiting, CallLetGo
<1> QED
  BY <1>4, <1>5, <1>6 DEF DispatchInv

\* ---- what becomes of a job ----
LEMMA FinishedAsItIs ==
  ASSUME DispatchInv, NEW j \in Jobs, Ends(j) \/ Removed(j)
  PROVE  DispatchInv'
<1>1. Finish(j, job) /\ cmd[j] # "none"
  BY DEF Ends, Removed
<1>2. Alike(job, job)
  BY DEF Alike, DispatchInv, LedgerOK, TableOK
<1> QED
  BY <1>1, <1>2, FinishKeeps

LEMMA CancelKeeps ==
  ASSUME DispatchInv, NEW j \in Jobs, Cancel(j)
  PROVE  DispatchInv'
<1> DEFINE table == CancelAsked(j)
<1>1. Alike(job, table) /\ \A i : Open(job, i) => Open(table, i)
  <2>1. Alike(job, Looked(j)) /\ \A i : Open(job, i) => Open(Looked(j), i)
    BY LookedIsAlike DEF DispatchInv
  <2>2. /\ j \in DOMAIN Looked(j) /\ Looked(j) \in [DOMAIN Looked(j) -> JobType]
        /\ table = [Looked(j) EXCEPT ![j].cancelAsked = TRUE]
    BY <2>1 DEF Cancel, CancelAsked, Alike, registry
  <2> DEFINE u == Looked(j)
  <2> HIDE DEF u, table
  <2>3. Alike(u, table)
    <3>1. u \in [DOMAIN u -> JobType] /\ j \in DOMAIN u /\ table = [u EXCEPT ![j].cancelAsked = TRUE]
      BY <2>2 DEF u
    <3>2. \A i \in DOMAIN u : i # j => table[i] = u[i]
      BY <3>1
    <3>3. DOMAIN table = DOMAIN u /\ table \in [DOMAIN u -> JobType]
      BY <3>1 DEF JobType
    <3>4. /\ table[j].edge = u[j].edge /\ table[j].session = u[j].session
          /\ table[j].key = u[j].key /\ table[j].text = u[j].text
          /\ ~Undelivered(table, j)
      BY <3>1 DEF JobType, Undelivered
    <3> QED
      BY <3>2, <3>3, <3>4 DEF Alike, Undelivered
  <2>4. \A i : Open(Looked(j), i) => Open(table, i)
    BY <2>2 DEF Open
  <2> QED
    BY <2>1, <2>3, <2>4 DEF Alike, u
<1> HIDE DEF table
<1>2. CASE cmd[j] = "queued" /\ Finish(j, table)
  BY <1>1, <1>2, FinishKeeps
<1>3. CASE /\ job' = table
           /\ UNCHANGED <<index, finished, cmd, waiters, call, edges, turn, received>>
  <2>1. LedgerOK'
    BY <1>1, <1>3, AlikeKeeps DEF DispatchInv, LedgerOK
  <2>2. CommandsOpen'
    BY <1>1, <1>3, CommandsStayOpen
  <2>3. WaitersOpen'
    BY <1>1, <1>3, CallsStay
  <2> QED
    BY <2>1, <2>2, <2>3 DEF DispatchInv
<1> QED
  BY <1>2, <1>3 DEF Cancel, table

LEMMA ExpireKeeps ==
  ASSUME DispatchInv, NEW n, Expire(n)
  PROVE  DispatchInv'
<1> DEFINE gone == { j \in registry : job[j].status = "finished" /\ At(finished, j) <= n }
<1>1. /\ Forget(gone, finished, job, index)
      /\ cmd' = cmd /\ waiters' = waiters /\ call' = call
  BY DEF Expire
<1>2. /\ TableOK(job', index')
      /\ DOMAIN job' = DOMAIN job \ gone
      /\ \A i \in DOMAIN job' : job'[i] = job[i]
  <2> HIDE DEF gone
  <2> QED
    BY <1>1, ForgetKeeps DEF DispatchInv, LedgerOK
<1>3. \A i : Open(job, i) => Open(job', i)
  BY <1>2 DEF Open
<1>4. CommandsOpen'
  BY <1>1, <1>3, CommandsStayOpen
<1>5. WaitersOpen'
  BY <1>1, <1>3, CallsStay
<1> QED
  BY <1>2, <1>4, <1>5 DEF DispatchInv, LedgerOK

\* A command that moves to another place is still the command of an open job.
LEMMA MovedKeeps ==
  ASSUME DispatchInv, NEW j \in Jobs, Start(j) \/ Taken(j)
  PROVE  DispatchInv'
<1>1. /\ cmd[j] # "none" /\ job' = job /\ index' = index /\ call' = call /\ waiters' = waiters
      /\ \E place : cmd' = [cmd EXCEPT ![j] = place]
  BY DEF Start, Taken, ledger
<1>2. CommandsOpen'
  BY <1>1 DEF DispatchInv, CommandsOpen
<1>3. LedgerOK' /\ WaitersOpen'
  BY <1>1 DEF DispatchInv, LedgerOK, WaitersOpen
<1> QED
  BY <1>2, <1>3 DEF DispatchInv

LEMMA ElsewhereKeeps ==
  ASSUME DispatchInv, UNCHANGED <<ledger, cmd, waiters, call>>
  PROVE  DispatchInv'
BY DEF DispatchInv, LedgerOK, CommandsOpen, WaitersOpen, ledger

\* ---- the theorems ----
LEMMA DispatchInit == Init => DispatchInv
<1> SUFFICES ASSUME Init
             PROVE  DispatchInv
  OBVIOUS
<1>1. job = <<>> /\ DOMAIN job = {}
  BY DEF Init
<1>2. TableOK(job, index)
  BY <1>1 DEF Init, TableOK
<1>3. CommandsOpen /\ WaitersOpen
  BY DEF Init, CommandsOpen, WaitersOpen, NoCall
<1> QED
  BY <1>2, <1>3 DEF DispatchInv, LedgerOK

LEMMA DispatchStep == DispatchInv /\ [Next]_vars => DispatchInv'
<1> SUFFICES ASSUME DispatchInv, [Next]_vars
             PROVE  DispatchInv'
  OBVIOUS
<1>1. CASE Ask
  <2>1. ASSUME NEW c \in Calls, NEW s \in Sessions, NEW waits \in BOOLEAN, NEW e \in Edges,
               NEW k \in Keys \cup {NoKey}, NEW t \in Texts, NEW named \in BOOLEAN,
               Dispatch(c, s, e, k, t, named, waits)
        PROVE  DispatchInv'
    BY <2>1, RetryKeeps, ResumeKeeps, LaunchKeeps, LaunchFailsKeeps DEF Dispatch
  <2>2. ASSUME NEW c \in Calls, NEW s \in Sessions, NEW waits \in BOOLEAN, NEW j \in Jobs,
               Status(c, s, j, waits)
        PROVE  DispatchInv'
    BY <2>2, StatusKeeps
  <2> QED
    BY <1>1, <2>1, <2>2 DEF Ask
<1>2. CASE CallGoesOn
  BY <1>2, TimesOutKeeps, HangsUpKeeps, GoesOutKeeps DEF CallGoesOn
<1>3. CASE JobGoesOn
  BY <1>3, FinishedAsItIs, CancelKeeps, ExpireKeeps, MovedKeeps DEF JobGoesOn, Expires
<1>4. CASE TurnGoesOn
  BY <1>4, ElsewhereKeeps DEF TurnGoesOn, TurnStarts, TurnEnds, TurnStopped, RemoveEdge
<1>5. CASE UNCHANGED vars
  BY <1>5, ElsewhereKeeps DEF vars
<1> QED
  BY <1>1, <1>2, <1>3, <1>4, <1>5 DEF Next

\* The invariant holds whatever becomes of the calls, the commands and the turns.
THEOREM DispatchInvariance == Spec => []DispatchInv
BY DispatchInit, DispatchStep, PTL DEF Spec

\* For every number of jobs and calls and every limit of the ledger: a held call waits for a
\* job that is kept and not over, so pruning never takes a job that somebody waits for and no
\* way of ending a job forgets the calls that wait for it.
THEOREM NobodyWaits == Spec => []NobodyWaitsOnAFinishedJob
<1>1. DispatchInv => NobodyWaitsOnAFinishedJob
  BY DEF DispatchInv, WaitersOpen, Open, NobodyWaitsOnAFinishedJob, IsFinished, registry
<1> QED
  BY <1>1, DispatchInvariance, PTL

\* For every number of calls and jobs: as long as the job of a key is kept, the key is not the
\* key of another one, whether its calls were cut off, timed out or are still held.
THEOREM RunsOncePerKey == Spec => []OneRunPerKey
<1>1. DispatchInv => OneRunPerKey
  BY DEF DispatchInv, LedgerOK, TableOK, OneRunPerKey, registry
<1> QED
  BY <1>1, DispatchInvariance, PTL

\* For every number of sessions and jobs: no session is owed the results of two jobs with the
\* same instruction along the same edge.
THEOREM WorkIsNotDuplicated == Spec => []NoDuplicateWork
<1>1. DispatchInv => NoDuplicateWork
  BY DEF DispatchInv, LedgerOK, TableOK, SameWork, NoDuplicateWork, registry
<1> QED
  BY <1>1, DispatchInvariance, PTL

-----------------------------------------------------------------------------
(***************************************************************************)
(* The finished jobs, in their order (`finishedAt`).                       *)
(***************************************************************************)
Ended(t) == { j \in DOMAIN t : t[j].status = "finished" }
InOrder(t, order) == /\ order \in Seq(DOMAIN t) /\ NoRepeat(order)
                     /\ Members(order) = Ended(t)
FinishedOK == InOrder(job, finished) /\ Len(finished) <= MaxFinished

LEMMA PlaceInOrder ==
  ASSUME NEW t, NEW order, InOrder(t, order)
  PROVE  \A j \in Ended(t) : At(order, j) \in DOMAIN order /\ order[At(order, j)] = j
<1> SUFFICES ASSUME NEW j \in Ended(t)
             PROVE  At(order, j) \in DOMAIN order /\ order[At(order, j)] = j
  OBVIOUS
<1>1. \E i \in DOMAIN order : order[i] = j
  BY DEF InOrder, Members
<1> QED
  BY <1>1 DEF At

LEMMA EndedIsFinite ==
  ASSUME NEW t, NEW order, InOrder(t, order)
  PROVE  IsFiniteSet(Ended(t)) /\ Cardinality(Ended(t)) = Len(order) /\ Len(order) \in Nat
BY LengthCounts DEF InOrder

\* What `prune` takes first.
Before(t, order, i, j) ==
  IF Undelivered(t, i) = Undelivered(t, j) THEN At(order, i) < At(order, j) ELSE Undelivered(t, j)
Rank(t, order, j) == Cardinality({ i \in Ended(t) : Before(t, order, i, j) })

LEMMA OverByRank ==
  ASSUME NEW t, NEW order
  PROVE  Over(t, order) =
           { j \in Ended(t) : Rank(t, order, j) + MaxFinished < Cardinality(Ended(t)) }
BY DEF Over, Ended, Rank, Before

\* A full ledger is pruned.
LEMMA OverIsFound ==
  ASSUME NEW t, NEW order, InOrder(t, order), Len(order) > MaxFinished
  PROVE  Over(t, order) # {}
<1> DEFINE collected == { j \in Ended(t) : ~Undelivered(t, j) }
           D == IF collected # {} THEN collected ELSE Ended(t)
           P == { At(order, j) : j \in D }
<1>1. /\ Cardinality(Ended(t)) = Len(order) /\ Len(order) \in Nat /\ MaxFinished \in Nat
      /\ Ended(t) # {}
  BY EndedIsFinite, FS_EmptySet, DispatchAssumption
<1>2. D \subseteq Ended(t) /\ D # {}
  BY <1>1
<1>3. \A j \in D : At(order, j) \in Nat
  BY <1>2, PlaceInOrder DEF InOrder
<1>4. \A i \in Ended(t), j \in D : (Undelivered(t, i) = Undelivered(t, j)) => i \in D
  OBVIOUS
<1>5. \A i \in Ended(t), j \in D : (Undelivered(t, i) # Undelivered(t, j)) => ~Undelivered(t, j)
  OBVIOUS
<1> HIDE DEF D
<1>6. P \subseteq Nat /\ P # {}
  BY <1>2, <1>3
<1>7. PICK n \in P : \A m \in P : n <= m
  BY <1>6, Least
<1>8. PICK j \in D : n = At(order, j)
  BY <1>7
<1>9. \A i \in Ended(t) : ~Before(t, order, i, j)
  <2> SUFFICES ASSUME NEW i \in Ended(t), Before(t, order, i, j)
               PROVE  FALSE
    OBVIOUS
  <2>1. CASE Undelivered(t, i) = Undelivered(t, j)
    <3>1. i \in D /\ At(order, i) < At(order, j)
      BY <1>4, <2>1 DEF Before
    <3>2. At(order, j) <= At(order, i)
      BY <3>1, <1>7, <1>8
    <3> QED
      BY <1>3, <3>1, <3>2
  <2>2. CASE Undelivered(t, i) # Undelivered(t, j)
    BY <1>5, <2>2 DEF Before
  <2> QED
    BY <2>1, <2>2
<1>10. Rank(t, order, j) = 0
  <2>1. { i \in Ended(t) : Before(t, order, i, j) } = {}
    BY <1>9
  <2> QED
    BY <2>1, FS_EmptySet DEF Rank
<1>11. j \in Over(t, order)
  BY <1>1, <1>2, <1>10, OverByRank
<1> QED
  BY <1>11

\* A result that was not received goes only after all that were.
LEMMA OverTakesReceivedFirst ==
  ASSUME NEW t, NEW order, InOrder(t, order),
         NEW j \in Over(t, order), Undelivered(t, j),
         NEW i \in Ended(t), ~Undelivered(t, i)
  PROVE  i \in Over(t, order)
<1> DEFINE A == { l \in Ended(t) : Before(t, order, l, i) }
           B == { l \in Ended(t) : Before(t, order, l, j) }
<1>1. A \subseteq B
  BY DEF Before
<1>2. IsFiniteSet(Ended(t)) /\ Cardinality(Ended(t)) \in Nat /\ MaxFinished \in Nat
  BY EndedIsFinite, DispatchAssumption
<1>3. IsFiniteSet(B)
  BY <1>2, FS_Subset
<1>4. Cardinality(B) + MaxFinished < Cardinality(Ended(t))
  BY OverByRank DEF Rank
<1> HIDE DEF A, B
<1>5. /\ IsFiniteSet(A) /\ Cardinality(A) <= Cardinality(B)
      /\ Cardinality(A) \in Nat /\ Cardinality(B) \in Nat
  BY <1>1, <1>3, FS_Subset, FS_CardinalityType
<1>6. Cardinality(A) + MaxFinished < Cardinality(Ended(t))
  BY <1>2, <1>4, <1>5
<1> QED
  BY <1>6, OverByRank DEF A, Rank

\* Forgetting finished jobs takes them out of the order.
LEMMA ForgetLists ==
  ASSUME NEW table, NEW keys, NEW gone, NEW order, InOrder(table, order), gone \subseteq Ended(table),
         Forget(gone, order, table, keys),
         Len(order) <= MaxFinished \/ (Len(order) = MaxFinished + 1 /\ gone # {})
  PROVE  FinishedOK'
<1> DEFINE stay == DOMAIN table \ gone
<1>1. /\ job' = [j \in stay |-> table[j]]
      /\ finished' = Kept(order, stay)
  BY DEF Forget
<1>2. /\ finished' \in Seq(DOMAIN table)
      /\ NoRepeat(finished')
      /\ Members(finished') = Ended(table) \cap stay
  BY <1>1, Filtered DEF InOrder
<1>3. finished' \in Seq(DOMAIN job')
  <2>1. Members(finished') \subseteq DOMAIN job'
    BY <1>1, <1>2
  <2> QED
    BY <1>2, <2>1, ListOfMembers
<1>4. Members(finished') = Ended(job')
  BY <1>1, <1>2 DEF Ended
<1>5. Len(finished') <= MaxFinished
  <2>1. /\ Len(finished') = Cardinality(Members(finished')) /\ Len(finished') \in Nat
        /\ Cardinality(Ended(table)) = Len(order) /\ IsFiniteSet(Ended(table))
        /\ Len(order) \in Nat /\ MaxFinished \in Nat
    <3>1. Len(finished') = Cardinality(Members(finished')) /\ Len(finished') \in Nat
      <4>1. \A q \in Seq(DOMAIN table) :
              NoRepeat(q) => Len(q) = Cardinality(Members(q)) /\ Len(q) \in Nat
        BY LengthCounts
      <4> QED
        BY <1>2, <4>1
    <3> QED
      BY <3>1, EndedIsFinite, DispatchAssumption
  <2>2. Members(finished') \subseteq Ended(table)
    BY <1>2
  <2>3. /\ Cardinality(Members(finished')) <= Cardinality(Ended(table))
        /\ Cardinality(Ended(table)) = Cardinality(Members(finished')) => Ended(table) = Members(finished')
    BY <2>1, <2>2, FS_Subset
  <2>4. gone # {} => Ended(table) # Members(finished')
    BY <1>2
  <2> QED
    BY <2>1, <2>3, <2>4
<1> QED
  BY <1>2, <1>3, <1>4, <1>5 DEF FinishedOK, InOrder

\* One more job is finished and put at the end; the ledger is pruned.
LEMMA PruneLists ==
  ASSUME FinishedOK, NEW table, NEW keys, NEW j \in DOMAIN table,
         DOMAIN job \subseteq DOMAIN table, Ended(table) = Ended(job) \cup {j}, j \notin Ended(job),
         Forget(Over(table, Append(finished, j)), Append(finished, j), table, keys)
  PROVE  FinishedOK' /\ InOrder(table, Append(finished, j))
<1> DEFINE order == Append(finished, j)
<1>1. finished \in Seq(DOMAIN table) /\ Len(finished) \in Nat /\ MaxFinished \in Nat
  <2>1. Members(finished) \subseteq DOMAIN table
    BY DEF FinishedOK, InOrder, Ended
  <2> QED
    BY <2>1, ListOfMembers, DispatchAssumption DEF FinishedOK, InOrder
<1>2. InOrder(table, order) /\ Len(order) = Len(finished) + 1
  BY <1>1, PutLast DEF FinishedOK, InOrder
<1>3. Over(table, order) \subseteq Ended(table)
  BY OverByRank
<1>4. Len(order) <= MaxFinished \/ (Len(order) = MaxFinished + 1 /\ Over(table, order) # {})
  <2>1. Len(order) <= MaxFinished + 1
    BY <1>1, <1>2 DEF FinishedOK
  <2>2. Len(order) > MaxFinished => Over(table, order) # {}
    BY <1>2, OverIsFound
  <2> HIDE DEF order
  <2> QED
    BY <1>1, <1>2, <2>1, <2>2
<1> HIDE DEF order
<1>5. Forget(Over(table, order), order, table, keys)
  BY DEF order
<1>6. FinishedOK'
  BY <1>2, <1>3, <1>4, <1>5, ForgetLists
<1> QED
  BY <1>2, <1>6 DEF order

\* A step that finishes and forgets nothing.
Steady == DOMAIN job \subseteq DOMAIN job' /\ Ended(job') = Ended(job) /\ finished' = finished
\* A step that finishes job j, kept before or new, and prunes the ledger.
Prunes(j, table, keys) ==
  /\ DOMAIN job \subseteq DOMAIN table /\ j \in DOMAIN table
  /\ j \notin Ended(job) /\ Ended(table) = Ended(job) \cup {j}
  /\ \A i \in DOMAIN job : i # j => table[i] = job[i]
  /\ Forget(Over(table, Append(finished, j)), Append(finished, j), table, keys)
LedgerStep == Steady \/ Expires \/ (\E j, table, keys : Prunes(j, table, keys))

LEMMA AttachIsSteady ==
  ASSUME DispatchInv, NEW c, NEW kind, NEW s, NEW j, NEW waits, NEW timed,
         Attach(c, kind, s, j, waits, timed)
  PROVE  Steady
<1>1. job' = Looked(j) /\ finished' = finished
  BY DEF Attach
<1> QED
  BY <1>1, LookedIsAlike DEF Steady, Ended, Alike, DispatchInv

LEMMA LaunchIsSteady ==
  ASSUME NEW c, NEW s, NEW e, NEW k, NEW t, NEW named, NEW waits, NEW j,
         Launch(c, s, e, k, t, named, waits, j)
  PROVE  Steady
<1>1. PICK started \in {"queued", "executing"} : job' = Launched(s, e, k, t, named, j, started)
  BY DEF Launch, Launched
<1>2. finished' = finished /\ j \notin registry
  BY DEF Launch, CanLaunch, Fresh
<1>3. /\ DOMAIN job' = registry \cup {j} /\ job'[j].status = started
      /\ \A i \in registry : job'[i] = job[i]
  BY <1>1, <1>2 DEF Launched, NewJob
<1> QED
  BY <1>2, <1>3 DEF Steady, Ended, registry

LEMMA LaunchFailsPrunes ==
  ASSUME NEW c, NEW s, NEW e, NEW k, NEW t, NEW named, NEW j,
         LaunchFails(c, s, e, k, t, named, j)
  PROVE  Prunes(j, Launched(s, e, k, t, named, j, "finished"), Indexed(e, k, j))
<1> DEFINE table == Launched(s, e, k, t, named, j, "finished")
<1>1. Forget(Over(table, Append(finished, j)), Append(finished, j), table, Indexed(e, k, j))
  BY DEF LaunchFails, Launched
<1>2. j \notin registry
  BY DEF LaunchFails, CanLaunch, Fresh
<1>3. /\ DOMAIN table = registry \cup {j} /\ table[j].status = "finished"
      /\ \A i \in registry : table[i] = job[i]
  BY <1>2 DEF Launched, NewJob
<1> HIDE DEF table
<1>4. Prunes(j, table, Indexed(e, k, j))
  BY <1>1, <1>2, <1>3 DEF Prunes, Ended, registry
<1> QED
  BY <1>4 DEF table

\* Asking for the end of a job changes this job only, and does not finish it.
LEMMA CancelAskedChanges ==
  ASSUME DispatchInv, NEW j \in registry
  PROVE  /\ DOMAIN CancelAsked(j) = DOMAIN job /\ Ended(CancelAsked(j)) = Ended(job)
         /\ \A i \in DOMAIN job : i # j => CancelAsked(j)[i] = job[i]
<1>1. job \in [DOMAIN job -> JobType]
  BY DEF DispatchInv, LedgerOK, TableOK
<1> DEFINE u == Looked(j)
<1>2. /\ DOMAIN u = DOMAIN job /\ u \in [DOMAIN job -> JobType]
      /\ \A i \in DOMAIN job : (u[i].status = "finished") = (job[i].status = "finished")
  BY LookedIsAlike DEF Alike, DispatchInv
<1>3. \A i \in DOMAIN job : i # j => u[i] = job[i]
  BY <1>1 DEF Looked
<1>4. CancelAsked(j) = [u EXCEPT ![j].cancelAsked = TRUE]
  BY DEF CancelAsked
<1> HIDE DEF u
<1>5. /\ DOMAIN CancelAsked(j) = DOMAIN job
      /\ \A i \in DOMAIN job : i # j => CancelAsked(j)[i] = u[i]
      /\ CancelAsked(j)[j].status = u[j].status
  BY <1>2, <1>4 DEF registry, JobType
<1>6. \A i \in DOMAIN job : (CancelAsked(j)[i].status = "finished") = (job[i].status = "finished")
  BY <1>2, <1>5
<1> QED
  BY <1>3, <1>5, <1>6 DEF Ended

LEMMA FinishPrunes ==
  ASSUME DispatchInv, NEW j \in Jobs, cmd[j] # "none",
         NEW table, DOMAIN table = DOMAIN job, Ended(table) = Ended(job),
         \A i \in DOMAIN job : i # j => table[i] = job[i],
         table \in [DOMAIN job -> JobType], Finish(j, table)
  PROVE  \E t, keys : Prunes(j, t, keys)
<1> DEFINE ended == [table EXCEPT ![j].status = "finished"]
<1>1. Open(job, j)
  BY DEF DispatchInv, CommandsOpen
<1>2. Forget(Over(ended, Append(finished, j)), Append(finished, j), ended, index)
  BY DEF Finish
<1>3. /\ DOMAIN ended = DOMAIN job /\ ended[j].status = "finished"
      /\ \A i \in DOMAIN job : i # j => ended[i] = table[i]
  BY <1>1 DEF Open, JobType
<1> HIDE DEF ended
<1>4. j \notin Ended(job) /\ j \in DOMAIN job
  BY <1>1 DEF Open, Ended
<1>5. Ended(ended) = Ended(job) \cup {j}
  <2>1. \A i \in DOMAIN job : i # j => (i \in Ended(ended)) = (i \in Ended(table))
    BY <1>3 DEF Ended
  <2>2. j \in Ended(ended) /\ Ended(ended) \subseteq DOMAIN job /\ Ended(job) \subseteq DOMAIN job
    BY <1>3, <1>4 DEF Ended
  <2> QED
    BY <1>4, <2>1, <2>2
<1>6. Prunes(j, ended, index)
  BY <1>2, <1>3, <1>4, <1>5 DEF Prunes
<1> QED
  BY <1>6

LEMMA CancelIsALedgerStep ==
  ASSUME DispatchInv, NEW j \in Jobs, Cancel(j)
  PROVE  LedgerStep
<1> DEFINE table == CancelAsked(j)
<1>1. /\ DOMAIN table = DOMAIN job /\ Ended(table) = Ended(job)
      /\ \A i \in DOMAIN job : i # j => table[i] = job[i]
  BY CancelAskedChanges DEF Cancel
<1>2. table \in [DOMAIN job -> JobType]
  <2> DEFINE u == Looked(j)
  <2>1. u \in [DOMAIN job -> JobType] /\ DOMAIN u = DOMAIN job
    BY LookedIsAlike DEF Alike, DispatchInv
  <2>2. table = [u EXCEPT ![j].cancelAsked = TRUE]
    BY DEF CancelAsked
  <2> HIDE DEF u, table
  <2> QED
    BY <2>1, <2>2 DEF JobType
<1>3. \/ cmd[j] = "queued" /\ Finish(j, table)
      \/ job' = table /\ finished' = finished
  BY DEF Cancel
<1> HIDE DEF table
<1>4. CASE cmd[j] = "queued" /\ Finish(j, table)
  BY <1>1, <1>2, <1>4, FinishPrunes DEF LedgerStep
<1>5. CASE job' = table /\ finished' = finished
  BY <1>1, <1>5 DEF LedgerStep, Steady
<1> QED
  BY <1>3, <1>4, <1>5

LEMMA CallsAreSteady ==
  ASSUME DispatchInv, NEW c \in Calls, TimesOut(c) \/ HangsUp(c) \/ GoesOut(c) \/ IsLost(c)
  PROVE  Steady
<1>1. CASE TimesOut(c)
  <2>1. job' = Looked(call[c].job) /\ finished' = finished
    BY <1>1 DEF TimesOut
  <2> QED
    BY <2>1, LookedIsAlike DEF Steady, Ended, Alike, DispatchInv
<1>2. CASE HangsUp(c) \/ IsLost(c)
  BY <1>2 DEF HangsUp, IsLost, ledger, Steady
<1>3. CASE GoesOut(c)
  <2> DEFINE j == call[c].job
             b == job[j].edge \in Returning
  <2>1. /\ job' = job \/ (j \in registry /\ job' = [job EXCEPT ![j].delivered = b])
        /\ finished' = finished
    BY <1>3 DEF GoesOut
  <2>2. job \in [DOMAIN job -> JobType]
    BY DEF DispatchInv, LedgerOK, TableOK
  <2> HIDE DEF j, b
  <2>3. DOMAIN job' = DOMAIN job /\ \A i \in DOMAIN job : job'[i].status = job[i].status
    BY <2>1, <2>2 DEF JobType
  <2> QED
    BY <2>1, <2>3 DEF Steady, Ended
<1> QED
  BY <1>1, <1>2, <1>3

LEMMA EveryStepOnTheLedger == DispatchInv /\ [Next]_vars => LedgerStep
<1> SUFFICES ASSUME DispatchInv, [Next]_vars
             PROVE  LedgerStep
  OBVIOUS
<1>1. CASE Ask
  <2>1. ASSUME NEW c \in Calls, NEW s \in Sessions, NEW waits \in BOOLEAN, NEW e \in Edges,
               NEW k \in Keys \cup {NoKey}, NEW t \in Texts, NEW named \in BOOLEAN,
               Dispatch(c, s, e, k, t, named, waits)
        PROVE  LedgerStep
    <3>1. CASE Retry(c, s, e, k, t, waits) \/ Resume(c, s, e, k, t, named, waits)
      BY <3>1, AttachIsSteady DEF Retry, Resume, LedgerStep
    <3>2. ASSUME NEW j \in Jobs, Launch(c, s, e, k, t, named, waits, j)
          PROVE  LedgerStep
      BY <3>2, LaunchIsSteady DEF LedgerStep
    <3>3. ASSUME NEW j \in Jobs, LaunchFails(c, s, e, k, t, named, j)
          PROVE  LedgerStep
      BY <3>3, LaunchFailsPrunes DEF LedgerStep
    <3> QED
      BY <2>1, <3>1, <3>2, <3>3 DEF Dispatch
  <2>2. ASSUME NEW c \in Calls, NEW s \in Sessions, NEW waits \in BOOLEAN, NEW j \in Jobs,
               Status(c, s, j, waits)
        PROVE  LedgerStep
    BY <2>2, AttachIsSteady DEF Status, LedgerStep
  <2> QED
    BY <1>1, <2>1, <2>2 DEF Ask
<1>2. CASE CallGoesOn
  BY <1>2, CallsAreSteady DEF CallGoesOn, LedgerStep
<1>3. CASE JobGoesOn
  <2>1. ASSUME NEW j \in Jobs, Ends(j) \/ Removed(j)
        PROVE  LedgerStep
    <3>1. Finish(j, job) /\ cmd[j] # "none"
      BY <2>1 DEF Ends, Removed
    <3>2. job \in [DOMAIN job -> JobType]
      BY DEF DispatchInv, LedgerOK, TableOK
    <3> QED
      BY <3>1, <3>2, FinishPrunes DEF LedgerStep
  <2>2. ASSUME NEW j \in Jobs, Start(j) \/ Taken(j)
        PROVE  LedgerStep
    BY <2>2 DEF Start, Taken, ledger, LedgerStep, Steady
  <2> QED
    BY <1>3, <2>1, <2>2, CancelIsALedgerStep DEF JobGoesOn, LedgerStep
<1>4. CASE TurnGoesOn \/ UNCHANGED vars
  BY <1>4 DEF TurnGoesOn, TurnStarts, TurnEnds, TurnStopped, RemoveEdge, vars, ledger, LedgerStep, Steady
<1> QED
  BY <1>1, <1>2, <1>3, <1>4 DEF Next

LEMMA FinishedStep == DispatchInv /\ FinishedOK /\ [Next]_vars => FinishedOK'
<1> SUFFICES ASSUME DispatchInv, FinishedOK, [Next]_vars
             PROVE  FinishedOK'
  OBVIOUS
<1>1. CASE Steady
  <2>1. Members(finished) \subseteq DOMAIN job'
    BY <1>1 DEF FinishedOK, InOrder, Steady, Ended
  <2>2. finished \in Seq(DOMAIN job')
    BY <2>1, ListOfMembers DEF FinishedOK, InOrder
  <2> QED
    BY <1>1, <2>2 DEF Steady, FinishedOK, InOrder
<1>2. CASE Expires
  <2>1. PICK n \in 1..Len(finished) : Expire(n)
    BY <1>2 DEF Expires
  <2> DEFINE gone == { j \in registry : job[j].status = "finished" /\ At(finished, j) <= n }
  <2>2. Forget(gone, finished, job, index) /\ gone \subseteq Ended(job)
    BY <2>1 DEF Expire, Ended, registry
  <2> HIDE DEF gone
  <2> QED
    BY <2>2, ForgetLists DEF FinishedOK
<1>3. ASSUME NEW j, NEW table, NEW keys, Prunes(j, table, keys)
      PROVE  FinishedOK'
  BY <1>3, PruneLists DEF Prunes
<1> QED
  BY <1>1, <1>2, <1>3, EveryStepOnTheLedger DEF LedgerStep

\* Unless its six hours are over, a result nobody received is forgotten only when all the
\* results that stay were not received either, whatever the limit of the ledger and whichever
\* job was finished.
LEMMA PruningStep ==
  ASSUME DispatchInv, FinishedOK, [Next]_vars, ~Expires,
         NEW j \in registry, j \notin registry', IsFinished(j), Undelivered(job, j),
         NEW i \in registry', job'[i].status = "finished"
  PROVE  Undelivered(job', i)
<1>1. ~Steady /\ j \in Ended(job)
  BY DEF Steady, registry, Ended, IsFinished
<1>2. PICK l, table, keys : Prunes(l, table, keys)
  BY <1>1, EveryStepOnTheLedger DEF LedgerStep
<1> DEFINE order == Append(finished, l)
<1>3. /\ InOrder(table, order)
      /\ job' = [x \in DOMAIN table \ Over(table, order) |-> table[x]]
  BY <1>2, PruneLists DEF Prunes, Forget
<1> HIDE DEF order
<1>4. j # l /\ j \in DOMAIN table /\ table[j] = job[j]
  BY <1>1, <1>2 DEF Prunes, registry
<1>5. Undelivered(table, j) /\ j \in Over(table, order)
  BY <1>3, <1>4 DEF Undelivered, registry
<1>6. i \in Ended(table) /\ i \notin Over(table, order) /\ job'[i] = table[i]
  BY <1>3 DEF registry, Ended
<1>7. Undelivered(table, i)
  BY <1>3, <1>5, <1>6, OverTakesReceivedFirst
<1> QED
  BY <1>6, <1>7 DEF Undelivered

\* The order of the finished jobs, and the limit on them, hold in every state.
THEOREM FinishedInvariance == Spec => [](DispatchInv /\ FinishedOK)
<1>1. Init => FinishedOK
  <2> SUFFICES ASSUME Init
               PROVE  FinishedOK
    OBVIOUS
  <2>1. job = <<>> /\ finished = <<>> /\ DOMAIN job = {} /\ Len(finished) = 0 /\ MaxFinished \in Nat
    BY DispatchAssumption DEF Init
  <2>2. <<>> \in Seq(DOMAIN job)
    OBVIOUS
  <2> QED
    BY <2>1, <2>2 DEF FinishedOK, InOrder, NoRepeat, Members, Ended
<1> QED
  BY <1>1, DispatchInit, DispatchStep, FinishedStep, PTL DEF Spec

\* For every limit of the ledger: `prune` never forgets a result that is still owed while it
\* keeps one that its requester has received.
THEOREM OwedResultsGoLast == Spec => UndeliveredResultsGoLast
<1> DEFINE Good ==
      \/ Expires
      \/ (\E j \in registry : j \notin registry' /\ IsFinished(j) /\ Undelivered(job, j))
           => \A i \in registry' : job'[i].status = "finished" => Undelivered(job', i)
<1>1. DispatchInv /\ FinishedOK /\ [Next]_vars => Good
  BY PruningStep
<1>2. DispatchInv /\ FinishedOK /\ [Next]_vars => [Good]_vars
  <2> HIDE DEF Good
  <2> QED
    BY <1>1
<1> QED
  BY <1>2, FinishedInvariance, PTL DEF Spec, UndeliveredResultsGoLast

-----------------------------------------------------------------------------
(***************************************************************************)
(* Who is sent the result of a job: a session of the agent that owns it.   *)
(***************************************************************************)
Active(x) == x.stage \in {"held", "sent"}
CallersOK ==
  \A c \in Calls : Active(call[c]) =>
    /\ call[c].by \in Sessions
    /\ call[c].job \in registry => AgentOf[call[c].by] = Source[job[call[c].job].edge]
AskerOf(j) == job[j].session # NoSession => AgentOf[job[j].session] = Source[job[j].edge]
SentTo(j) == job[j].delivered => \E r \in Sessions : AgentOf[r] = Source[job[j].edge] /\ <<r, j>> \in received
OwedOK ==
  /\ CallersOK
  /\ \A j \in registry : AskerOf(j) /\ SentTo(j)
  /\ received \subseteq Sessions \X registry

\* What a step leaves of the calls but C and of the jobs but J.
CallsMove(C) ==
  \A c \in Calls \ C : Active(call'[c]) =>
    /\ Active(call[c]) /\ call'[c].by = call[c].by /\ call'[c].job = call[c].job
    /\ call[c].job \in registry' =>
         call[c].job \in registry /\ job'[call[c].job].edge = job[call[c].job].edge
JobsMove(J) ==
  /\ \A j \in registry' \ J :
       /\ j \in registry
       /\ job'[j].edge = job[j].edge /\ job'[j].session = job[j].session
       /\ job'[j].delivered => job[j].delivered
  /\ \A r \in Sessions, j \in registry' : <<r, j>> \in received => <<r, j>> \in received'
  /\ received' \subseteq Sessions \X registry'

LEMMA OwedAfter ==
  ASSUME OwedOK, NEW C, NEW J, CallsMove(C), JobsMove(J),
         \A c \in Calls \cap C : Active(call'[c]) =>
           /\ call'[c].by \in Sessions
           /\ call'[c].job \in registry' => AgentOf[call'[c].by] = Source[job'[call'[c].job].edge],
         \A j \in registry' \cap J : AskerOf(j)' /\ SentTo(j)'
  PROVE  OwedOK'
<1>1. CallersOK'
  <2> SUFFICES ASSUME NEW c \in Calls, Active(call'[c])
               PROVE  /\ call'[c].by \in Sessions
                      /\ call'[c].job \in registry' =>
                           AgentOf[call'[c].by] = Source[job'[call'[c].job].edge]
    BY DEF CallersOK
  <2>1. CASE c \in C
    BY <2>1
  <2>2. CASE c \notin C
    BY <2>2 DEF CallsMove, OwedOK, CallersOK
  <2> QED
    BY <2>1, <2>2
<1>2. ASSUME NEW j \in registry', j \notin J
      PROVE  AskerOf(j)' /\ SentTo(j)'
  BY <1>2 DEF JobsMove, OwedOK, AskerOf, SentTo
<1> QED
  BY <1>1, <1>2 DEF OwedOK, JobsMove

\* The calls that a handler answers, or lets go, are those it found.
LEMMA CallsFollow ==
  ASSUME NEW C,
         \A c \in Calls \ C : Active(call'[c]) =>
           Active(call[c]) /\ call'[c].by = call[c].by /\ call'[c].job = call[c].job,
         \A j \in registry' : j \in registry /\ job'[j].edge = job[j].edge
  PROVE  CallsMove(C)
BY DEF CallsMove

LEMMA LookedLeaves ==
  ASSUME DispatchInv, NEW j
  PROVE  /\ DOMAIN Looked(j) = DOMAIN job
         /\ \A i \in DOMAIN job :
              /\ Looked(j)[i].edge = job[i].edge /\ Looked(j)[i].session = job[i].session
              /\ Looked(j)[i].delivered = job[i].delivered
<1>1. job \in [DOMAIN job -> JobType]
  BY DEF DispatchInv, LedgerOK, TableOK
<1>2. CASE Looked(j) = job
  BY <1>2
<1>3. CASE j \in registry /\ Looked(j) = [job EXCEPT ![j].status = "executing"]
  BY <1>1, <1>3 DEF JobType, registry
<1> QED
  BY <1>2, <1>3 DEF Looked

\* A table that is like the ledger but for the jobs of J, when some of it is forgotten.
LEMMA ForgetMoves ==
  ASSUME OwedOK, NEW J, NEW table, NEW gone, NEW order, NEW keys,
         DOMAIN job \subseteq DOMAIN table,
         \A j \in DOMAIN table \ J :
           /\ j \in registry /\ table[j].edge = job[j].edge /\ table[j].session = job[j].session
           /\ table[j].delivered => job[j].delivered,
         Forget(gone, order, table, keys)
  PROVE  JobsMove(J)
<1>1. /\ DOMAIN job' = DOMAIN table \ gone /\ \A j \in DOMAIN job' : job'[j] = table[j]
      /\ received' = { x \in received : x[2] \notin gone }
  BY DEF Forget
<1>2. \A j \in registry' \ J :
       /\ j \in registry
       /\ job'[j].edge = job[j].edge /\ job'[j].session = job[j].session
       /\ job'[j].delivered => job[j].delivered
  BY <1>1 DEF registry
<1>3. \A r \in Sessions, j \in registry' : <<r, j>> \in received => <<r, j>> \in received'
  BY <1>1 DEF registry
<1>4. received' \subseteq Sessions \X registry'
  BY <1>1 DEF OwedOK, registry
<1> QED
  BY <1>2, <1>3, <1>4 DEF JobsMove

LEMMA AttachOwes ==
  ASSUME DispatchInv, OwedOK, NEW c \in Calls, NEW kind, NEW s \in Sessions, NEW j \in registry,
         AgentOf[s] = Source[job[j].edge], NEW waits, NEW timed,
         Attach(c, kind, s, j, waits, timed)
  PROVE  OwedOK'
<1>1. /\ job' = Looked(j) /\ received' = received
      /\ call = [d \in Calls |-> call[d]]
      /\ \/ call' = [call EXCEPT ![c] = Hold(kind, s, j, timed)]
         \/ call' = [call EXCEPT ![c] = Reply(s, j, Looked(j)[j].status)]
  BY DEF Attach, DispatchInv, WaitersOpen
<1>2. /\ DOMAIN job' = DOMAIN job
      /\ \A i \in DOMAIN job :
           /\ job'[i].edge = job[i].edge /\ job'[i].session = job[i].session
           /\ job'[i].delivered = job[i].delivered
  BY <1>1, LookedLeaves
<1>3. call'[c].by = s /\ call'[c].job = j /\ \A d \in Calls : d # c => call'[d] = call[d]
  BY <1>1 DEF Hold, Reply
<1>4. JobsMove({})
  BY <1>1, <1>2 DEF JobsMove, OwedOK, registry
<1>5. CallsMove({c})
  BY <1>2, <1>3 DEF CallsMove, registry
<1>6. AgentOf[s] = Source[job'[j].edge]
  BY <1>2 DEF registry
<1> QED
  BY <1>3, <1>4, <1>5, <1>6, OwedAfter

LEMMA AskOwes ==
  ASSUME DispatchInv, OwedOK, NEW c \in Calls, NEW s \in Sessions, NEW e \in Edges,
         NEW k \in Keys \cup {NoKey}, NEW t, NEW named, NEW waits,
         Retry(c, s, e, k, t, waits) \/ Resume(c, s, e, k, t, named, waits)
  PROVE  OwedOK'
<1>1. AgentOf[s] = Source[e]
  BY DEF Retry, Resume, CanDispatch
<1>2. CASE Retry(c, s, e, k, t, waits)
  <2>1. k # NoKey /\ Retried(e, k) = index[<<e, k>>] /\ index[<<e, k>>] # NoJob
    BY <1>2 DEF Retry, Retried
  <2>2. /\ index[<<e, k>>] \in registry
        /\ <<job[index[<<e, k>>]].edge, job[index[<<e, k>>]].key>> = <<e, k>>
    BY <2>1 DEF DispatchInv, LedgerOK, TableOK, registry
  <2>3. job[index[<<e, k>>]].edge = e
    BY <2>2
  <2> QED
    BY <1>1, <1>2, <2>1, <2>2, <2>3, AttachOwes DEF Retry
<1>3. CASE Resume(c, s, e, k, t, named, waits)
  <2>1. PICK j \in Duplicates(Asker(s, named), e, t) :
          Attach(c, "dispatch", s, j, waits, e \in Timed)
    BY <1>3 DEF Resume
  <2>2. j \in registry /\ job[j].edge = e
    BY DEF Duplicates
  <2> QED
    BY <1>1, <2>1, <2>2, AttachOwes
<1> QED
  BY <1>2, <1>3

LEMMA AskerIsOfTheAgent ==
  ASSUME NEW s \in Sessions, NEW named, Asker(s, named) # NoSession
  PROVE  AgentOf[Asker(s, named)] = AgentOf[s]
<1> DEFINE busy == { r \in running : AgentOf[r] = AgentOf[s] }
<1>1. CASE named
  BY <1>1 DEF Asker
<1>2. CASE ~named /\ Cardinality(busy) = 1
  <2>1. busy # {}
    BY <1>2, FS_EmptySet
  <2>2. (CHOOSE r \in busy : TRUE) \in busy
    BY <2>1
  <2> QED
    BY <1>2, <2>2 DEF Asker
<1> QED
  BY <1>1, <1>2 DEF Asker

\* A new job, forgotten at once or not.
LEMMA LaunchOwes ==
  ASSUME DispatchInv, OwedOK, NEW c \in Calls, NEW s \in Sessions, NEW e \in Edges,
         NEW k, NEW t, NEW named, NEW waits, NEW j \in Jobs,
         Launch(c, s, e, k, t, named, waits, j) \/ LaunchFails(c, s, e, k, t, named, j)
  PROVE  OwedOK'
<1>1. /\ CanLaunch(c, s, e, k, t, named, j) /\ j \notin registry /\ AgentOf[s] = Source[e]
      /\ \A d \in Calls : call[d] # NoCall => call[d].job # j
  BY DEF Launch, LaunchFails, CanLaunch, CanDispatch, Fresh
<1>2. /\ call = [d \in Calls |-> call[d]]
      /\ \E answer : call' = [call EXCEPT ![c] = answer] /\ answer.by = s /\ answer.job = j
  <2>1. call = [d \in Calls |-> call[d]]
    BY DEF DispatchInv, WaitersOpen
  <2>2. CASE Launch(c, s, e, k, t, named, waits, j)
    <3>1. PICK started \in {"queued", "executing"} :
            call' = [call EXCEPT ![c] = IF waits /\ e \in Returning
                                        THEN Hold("dispatch", s, j, e \in Timed)
                                        ELSE Reply(s, j, started)]
      BY <2>2 DEF Launch
    <3>2. /\ Hold("dispatch", s, j, e \in Timed).by = s /\ Hold("dispatch", s, j, e \in Timed).job = j
          /\ Reply(s, j, started).by = s /\ Reply(s, j, started).job = j
      BY DEF Hold, Reply
    <3> QED
      BY <2>1, <3>1, <3>2
  <2>3. CASE LaunchFails(c, s, e, k, t, named, j)
    <3> DEFINE answer == Reply(s, j, IF j \in DOMAIN job' THEN "finished" ELSE "unknown")
    <3>1. call' = [call EXCEPT ![c] = answer]
      BY <2>3 DEF LaunchFails
    <3>2. answer.by = s /\ answer.job = j
      BY DEF Reply
    <3> HIDE DEF answer
    <3> QED
      BY <2>1, <3>1, <3>2
  <2> QED
    BY <2>2, <2>3
<1>3. call'[c].by = s /\ call'[c].job = j /\ \A d \in Calls : d # c => call'[d] = call[d]
  BY <1>2
<1>4. /\ JobsMove({j})
      /\ \A i \in registry : i \in registry' => job'[i].edge = job[i].edge
      /\ \A i \in registry' : i # j => i \in registry
      /\ j \in registry' => \E status : job'[j] = NewJob(Asker(s, named), e, k, t, status)
  <2>1. CASE Launch(c, s, e, k, t, named, waits, j)
    <3>1. PICK started \in {"queued", "executing"} : job' = Launched(s, e, k, t, named, j, started)
      BY <2>1 DEF Launch, Launched
    <3>2. received' = received
      BY <2>1 DEF Launch
    <3>3. /\ DOMAIN job' = registry \cup {j}
          /\ job'[j] = NewJob(Asker(s, named), e, k, t, started)
          /\ \A i \in registry : job'[i] = job[i]
      BY <1>1, <3>1 DEF Launched
    <3> QED
      BY <3>2, <3>3 DEF JobsMove, OwedOK, registry
  <2>2. CASE LaunchFails(c, s, e, k, t, named, j)
    <3> DEFINE table == Launched(s, e, k, t, named, j, "finished")
    <3>1. Forget(Over(table, Append(finished, j)), Append(finished, j), table, Indexed(e, k, j))
      BY <2>2 DEF LaunchFails, Launched
    <3>2. /\ DOMAIN table = registry \cup {j}
          /\ table[j] = NewJob(Asker(s, named), e, k, t, "finished")
          /\ \A i \in registry : table[i] = job[i]
      BY <1>1 DEF Launched
    <3> HIDE DEF table
    <3>3. DOMAIN job' \subseteq DOMAIN table /\ \A i \in DOMAIN job' : job'[i] = table[i]
      BY <3>1 DEF Forget
    <3>4. /\ DOMAIN job \subseteq DOMAIN table
          /\ \A i \in DOMAIN table \ {j} :
               /\ i \in registry /\ table[i].edge = job[i].edge /\ table[i].session = job[i].session
               /\ table[i].delivered => job[i].delivered
      BY <3>2 DEF registry
    <3>5. JobsMove({j})
      BY <3>1, <3>4, ForgetMoves
    <3> QED
      BY <3>2, <3>3, <3>5 DEF registry
  <2> QED
    BY <2>1, <2>2
<1>5. CallsMove({c})
  <2>1. \A d \in Calls : Active(call[d]) => call[d].job # j
    BY <1>1 DEF Active, NoCall
  <2> QED
    BY <1>3, <1>4, <2>1 DEF CallsMove
<1>6. ASSUME j \in registry'
      PROVE  /\ job'[j].edge = e /\ ~job'[j].delivered
             /\ job'[j].session = Asker(s, named)
  <2>1. PICK status : job'[j] = NewJob(Asker(s, named), e, k, t, status)
    BY <1>4, <1>6
  <2> QED
    BY <2>1 DEF NewJob
<1>7. \A i \in registry' \cap {j} : AskerOf(i)' /\ SentTo(i)'
  BY <1>1, <1>6, AskerIsOfTheAgent DEF AskerOf, SentTo
<1>8. \A d \in Calls \cap {c} : Active(call'[d]) =>
           /\ call'[d].by \in Sessions
           /\ call'[d].job \in registry' => AgentOf[call'[d].by] = Source[job'[call'[d].job].edge]
  BY <1>1, <1>3, <1>6
<1> QED
  BY <1>4, <1>5, <1>7, <1>8, OwedAfter

LEMMA CallsOwe ==
  ASSUME DispatchInv, OwedOK, NEW c \in Calls, TimesOut(c) \/ HangsUp(c) \/ IsLost(c)
  PROVE  OwedOK'
<1>1. call = [d \in Calls |-> call[d]]
  BY DEF DispatchInv, WaitersOpen
<1>2. CASE TimesOut(c)
  <2> DEFINE answer == Reply(call[c].by, call[c].job,
                             IF call[c].job \in registry THEN job'[call[c].job].status ELSE "unknown")
  <2>1. /\ job' = Looked(call[c].job) /\ received' = received /\ Active(call[c])
        /\ call' = [call EXCEPT ![c] = answer]
    BY <1>1, <1>2 DEF TimesOut, Active
  <2>2. answer.by = call[c].by /\ answer.job = call[c].job
    BY DEF Reply
  <2> HIDE DEF answer
  <2>3. /\ DOMAIN job' = DOMAIN job
        /\ \A i \in DOMAIN job :
             /\ job'[i].edge = job[i].edge /\ job'[i].session = job[i].session
             /\ job'[i].delivered = job[i].delivered
    BY <2>1, LookedLeaves
  <2>4. \A d \in Calls \ {} : Active(call'[d]) =>
          Active(call[d]) /\ call'[d].by = call[d].by /\ call'[d].job = call[d].job
    BY <1>1, <2>1, <2>2
  <2>5. CallsMove({})
    BY <2>3, <2>4, CallsFollow DEF registry
  <2>6. JobsMove({})
    BY <2>1, <2>3 DEF JobsMove, OwedOK, registry
  <2> QED
    BY <2>5, <2>6, OwedAfter
<1>3. CASE HangsUp(c) \/ IsLost(c)
  <2>1. /\ job' = job /\ received' = received
        /\ call' = [call EXCEPT ![c] = NoCall] /\ ~Active(NoCall)
    BY <1>3 DEF HangsUp, IsLost, ledger, NoCall, Active
  <2>2. CallsMove({})
    BY <1>1, <2>1 DEF CallsMove, registry
  <2>3. JobsMove({})
    BY <2>1 DEF JobsMove, OwedOK, registry
  <2> QED
    BY <2>2, <2>3, OwedAfter
<1> QED
  BY <1>2, <1>3

\* A result that goes out is delivered to the one who asked, of the right agent.
LEMMA GoesOutOwes ==
  ASSUME DispatchInv, OwedOK, NEW c \in Calls, GoesOut(c)
  PROVE  OwedOK'
<1> PICK j : j = call[c].job
  OBVIOUS
<1> DEFINE b == job[j].edge \in Returning
<1>1. /\ call = [d \in Calls |-> call[d]] /\ job \in [DOMAIN job -> JobType]
  BY DEF DispatchInv, WaitersOpen, LedgerOK, TableOK
<1>2. call' = [call EXCEPT ![c] = NoCall] /\ ~Active(NoCall) /\ Active(call[c])
  BY DEF GoesOut, NoCall, Active
<1>3. \/ /\ j \in registry /\ job' = [job EXCEPT ![j].delivered = b]
         /\ received' = received \cup {<<call[c].by, j>>}
      \/ job' = job /\ received' = received
  BY DEF GoesOut
<1>4. call[c].by \in Sessions /\ (j \in registry => AgentOf[call[c].by] = Source[job[j].edge])
  BY <1>2 DEF OwedOK, CallersOK
<1> HIDE DEF b
<1>5. CASE job' = job /\ received' = received
  <2>1. CallsMove({})
    BY <1>1, <1>2, <1>5 DEF CallsMove, registry
  <2>2. JobsMove({})
    BY <1>5 DEF JobsMove, OwedOK, registry
  <2> QED
    BY <2>1, <2>2, OwedAfter
<1>6. CASE /\ j \in registry /\ job' = [job EXCEPT ![j].delivered = b]
           /\ received' = received \cup {<<call[c].by, j>>}
  <2>1. /\ DOMAIN job' = DOMAIN job
        /\ \A i \in DOMAIN job :
             /\ job'[i].edge = job[i].edge /\ job'[i].session = job[i].session
             /\ i # j => job'[i].delivered = job[i].delivered
    BY <1>1, <1>6 DEF JobType, registry
  <2>2. CallsMove({})
    BY <1>1, <1>2, <2>1 DEF CallsMove, registry
  <2>3. JobsMove({j})
    BY <1>4, <1>6, <2>1 DEF JobsMove, OwedOK, registry
  <2>4. AskerOf(j)'
    <3>1. AskerOf(j) /\ j \in DOMAIN job
      BY <1>6 DEF OwedOK, registry
    <3>2. job'[j].edge = job[j].edge /\ job'[j].session = job[j].session
      BY <2>1, <3>1
    <3> QED
      BY <3>1, <3>2 DEF AskerOf
  <2>5. SentTo(j)'
    BY <1>4, <1>6, <2>1 DEF SentTo, registry
  <2> QED
    BY <2>2, <2>3, <2>4, <2>5, OwedAfter
<1> QED
  BY <1>3, <1>5, <1>6

\* The end of a job: those who wait for it are answered, the others stay.
LEMMA FinishOwes ==
  ASSUME DispatchInv, OwedOK, NEW j \in registry, NEW table,
         DOMAIN table = DOMAIN job, table \in [DOMAIN job -> JobType],
         \A i \in DOMAIN job :
           /\ table[i].edge = job[i].edge /\ table[i].session = job[i].session
           /\ table[i].delivered = job[i].delivered,
         Finish(j, table)
  PROVE  OwedOK'
<1> DEFINE ended == [table EXCEPT ![j].status = "finished"]
           order == Append(finished, j)
           told == { c \in waiters : call[c].job = j }
<1>1. Forget(Over(ended, order), order, ended, index)
  BY DEF Finish
<1>2. \A c \in Calls : Active(call'[c]) =>
        Active(call[c]) /\ call'[c].by = call[c].by /\ call'[c].job = call[c].job
  <2>1. /\ \A c \in Calls : c \notin told => call'[c] = call[c]
        /\ \A c \in told : c \in Calls /\ (call'[c] = Reply(call[c].by, j, "finished") \/ call'[c] = NoCall)
    BY DEF Finish, Settle, DispatchInv, WaitersOpen
  <2>2. \A c \in told : Active(call[c]) /\ call[c].job = j
    BY DEF DispatchInv, WaitersOpen, Active
  <2>3. ~Active(NoCall)
    BY DEF Active, NoCall
  <2> HIDE DEF told
  <2>4. ASSUME NEW c \in told, Active(call'[c])
        PROVE  call'[c].by = call[c].by /\ call'[c].job = call[c].job
    <3>1. call'[c] = Reply(call[c].by, j, "finished")
      BY <2>1, <2>3, <2>4
    <3> QED
      BY <2>2, <3>1 DEF Reply
  <2> QED
    BY <2>1, <2>2, <2>4
<1>3. /\ DOMAIN ended = DOMAIN job
      /\ \A i \in DOMAIN job :
           /\ ended[i].edge = job[i].edge /\ ended[i].session = job[i].session
           /\ ended[i].delivered = job[i].delivered
  BY DEF registry, JobType
<1> HIDE DEF ended, order, told
<1>4. JobsMove({})
  BY <1>1, <1>3, ForgetMoves DEF registry
<1>5. CallsMove({})
  BY <1>2, <1>4, CallsFollow DEF JobsMove
<1> QED
  BY <1>4, <1>5, OwedAfter

LEMMA CancelOwes ==
  ASSUME DispatchInv, OwedOK, NEW j \in Jobs, Cancel(j)
  PROVE  OwedOK'
<1> DEFINE u == Looked(j)
           table == CancelAsked(j)
<1>1. /\ DOMAIN u = DOMAIN job /\ u \in [DOMAIN job -> JobType]
      /\ \A i \in DOMAIN job :
           /\ u[i].edge = job[i].edge /\ u[i].session = job[i].session
           /\ u[i].delivered = job[i].delivered
  BY LookedLeaves, LookedIsAlike DEF Alike, DispatchInv
<1>2. table = [u EXCEPT ![j].cancelAsked = TRUE] /\ j \in registry
  BY DEF CancelAsked, Cancel
<1>3. \/ cmd[j] = "queued" /\ Finish(j, table)
      \/ job' = table /\ call' = call /\ received' = received
  BY DEF Cancel
<1> HIDE DEF u, table
<1>4. /\ DOMAIN table = DOMAIN job /\ table \in [DOMAIN job -> JobType]
      /\ \A i \in DOMAIN job :
           /\ table[i].edge = job[i].edge /\ table[i].session = job[i].session
           /\ table[i].delivered = job[i].delivered
  <2> DEFINE new == [u[j] EXCEPT !.cancelAsked = TRUE]
  <2>2. u[j] \in JobType
    BY <1>1, <1>2 DEF registry
  <2>3. /\ new \in JobType
        /\ new.edge = u[j].edge /\ new.session = u[j].session /\ new.delivered = u[j].delivered
    BY <2>2 DEF JobType
  <2>4. table = [u EXCEPT ![j] = new]
    BY <1>2
  <2> HIDE DEF new
  <2>1. /\ DOMAIN table = DOMAIN u /\ table \in [DOMAIN u -> JobType]
        /\ \A i \in DOMAIN u :
             /\ table[i].edge = u[i].edge /\ table[i].session = u[i].session
             /\ table[i].delivered = u[i].delivered
    BY <1>1, <2>3, <2>4
  <2> QED
    BY <1>1, <2>1
<1>5. CASE Finish(j, table)
  BY <1>2, <1>4, <1>5, FinishOwes
<1>6. CASE job' = table /\ call' = call /\ received' = received
  <2>1. CallsMove({}) /\ JobsMove({})
    BY <1>4, <1>6 DEF CallsMove, JobsMove, OwedOK, registry
  <2> QED
    BY <2>1, OwedAfter
<1> QED
  BY <1>3, <1>5, <1>6

LEMMA ExpireOwes ==
  ASSUME DispatchInv, OwedOK, NEW n, Expire(n)
  PROVE  OwedOK'
<1> DEFINE gone == { j \in registry : job[j].status = "finished" /\ At(finished, j) <= n }
<1>1. Forget(gone, finished, job, index) /\ call' = call
  BY DEF Expire
<1> HIDE DEF gone
<1>2. JobsMove({})
  BY <1>1, ForgetMoves DEF registry
<1>3. CallsMove({})
  BY <1>1, <1>2 DEF CallsMove, JobsMove
<1> QED
  BY <1>2, <1>3, OwedAfter

LEMMA OwedStep == DispatchInv /\ OwedOK /\ [Next]_vars => OwedOK'
<1> SUFFICES ASSUME DispatchInv, OwedOK, [Next]_vars
             PROVE  OwedOK'
  OBVIOUS
<1>1. CASE Ask
  <2>1. ASSUME NEW c \in Calls, NEW s \in Sessions, NEW waits \in BOOLEAN, NEW e \in Edges,
               NEW k \in Keys \cup {NoKey}, NEW t \in Texts, NEW named \in BOOLEAN,
               Dispatch(c, s, e, k, t, named, waits)
        PROVE  OwedOK'
    BY <2>1, AskOwes, LaunchOwes DEF Dispatch
  <2>2. ASSUME NEW c \in Calls, NEW s \in Sessions, NEW waits \in BOOLEAN, NEW j \in Jobs,
               Status(c, s, j, waits)
        PROVE  OwedOK'
    BY <2>2, AttachOwes DEF Status
  <2> QED
    BY <1>1, <2>1, <2>2 DEF Ask
<1>2. CASE CallGoesOn
  BY <1>2, CallsOwe, GoesOutOwes DEF CallGoesOn
<1>3. CASE JobGoesOn
  <2>1. ASSUME NEW j \in Jobs, Ends(j) \/ Removed(j)
        PROVE  OwedOK'
    <3>1. Finish(j, job) /\ cmd[j] # "none"
      BY <2>1 DEF Ends, Removed
    <3>2. job \in [DOMAIN job -> JobType] /\ j \in registry
      BY <3>1 DEF DispatchInv, LedgerOK, TableOK, CommandsOpen, Open, registry
    <3> QED
      BY <3>1, <3>2, FinishOwes
  <2>2. ASSUME NEW j \in Jobs, Start(j) \/ Taken(j)
        PROVE  OwedOK'
    BY <2>2 DEF Start, Taken, ledger, OwedOK, CallersOK, AskerOf, SentTo, registry
  <2> QED
    BY <1>3, <2>1, <2>2, CancelOwes, ExpireOwes DEF JobGoesOn, Expires
<1>4. CASE TurnGoesOn \/ UNCHANGED vars
  <2>1. UNCHANGED <<job, call, received>>
    BY <1>4 DEF TurnGoesOn, TurnStarts, TurnEnds, TurnStopped, RemoveEdge, vars, ledger
  <2> QED
    BY <2>1 DEF OwedOK, CallersOK, AskerOf, SentTo, registry
<1> QED
  BY <1>1, <1>2, <1>3, <1>4 DEF Next

\* Every result that counts as delivered went to a session of the agent that owns the job, and
\* every job was started by a session of that agent.
THEOREM OwedInvariance == Spec => [](DispatchInv /\ OwedOK)
<1>1. Init => OwedOK
  <2> SUFFICES ASSUME Init
               PROVE  OwedOK
    OBVIOUS
  <2>1. DOMAIN job = {} /\ received = {} /\ \A c \in Calls : ~Active(call[c])
    BY DEF Init, NoCall, Active
  <2> QED
    BY <2>1 DEF OwedOK, CallersOK, registry
<1> QED
  BY <1>1, DispatchInit, DispatchStep, OwedStep, PTL DEF Spec

\* ---- places: where the commands are, which edges there are, whose turns run ----
PlacesOK ==
  /\ cmd \in [Jobs -> {"none", "queued", "executing", "taken"}]
  /\ edges \subseteq Edges
  /\ turn \in [Sessions -> {"running", "completed", "over"}]

LEMMA CommandsMove ==
  ASSUME [Next]_vars
  PROVE  \/ cmd' = cmd
         \/ \E j \in Jobs, place \in {"none", "queued", "executing", "taken"} :
              cmd' = [cmd EXCEPT ![j] = place]
<1>1. CASE Ask
  <2>1. ASSUME NEW c, NEW s, NEW waits, NEW e, NEW k, NEW t, NEW named,
               Retry(c, s, e, k, t, waits) \/ Resume(c, s, e, k, t, named, waits)
        PROVE  cmd' = cmd
    BY <2>1 DEF Retry, Resume, Attach
  <2>2. ASSUME NEW c, NEW s, NEW j, NEW waits, Status(c, s, j, waits)
        PROVE  cmd' = cmd
    BY <2>2 DEF Status, Attach
  <2>3. ASSUME NEW c, NEW s, NEW waits, NEW e, NEW k, NEW t, NEW named, NEW j \in Jobs,
               Launch(c, s, e, k, t, named, waits, j)
        PROVE  \E place \in {"none", "queued", "executing", "taken"} : cmd' = [cmd EXCEPT ![j] = place]
    BY <2>3 DEF Launch
  <2>4. ASSUME NEW c, NEW s, NEW e, NEW k, NEW t, NEW named, NEW j,
               LaunchFails(c, s, e, k, t, named, j)
        PROVE  cmd' = cmd
    BY <2>4 DEF LaunchFails
  <2> QED
    BY <1>1, <2>1, <2>2, <2>3, <2>4 DEF Ask, Dispatch
<1>2. CASE CallGoesOn
  BY <1>2 DEF CallGoesOn, TimesOut, HangsUp, GoesOut, IsLost
<1>3. CASE JobGoesOn
  <2>1. ASSUME NEW j \in Jobs, Start(j) \/ Ends(j) \/ Removed(j) \/ Cancel(j) \/ Taken(j)
        PROVE  cmd' = cmd \/ \E place \in {"none", "queued", "executing", "taken"} : cmd' = [cmd EXCEPT ![j] = place]
    BY <2>1 DEF Start, Ends, Removed, Cancel, Taken, Finish
  <2>2. CASE Expires
    BY <2>2 DEF Expires, Expire
  <2> QED
    BY <1>3, <2>1, <2>2 DEF JobGoesOn
<1>4. CASE TurnGoesOn \/ UNCHANGED vars
  BY <1>4 DEF TurnGoesOn, TurnStarts, TurnEnds, TurnStopped, RemoveEdge, vars
<1> QED
  BY <1>1, <1>2, <1>3, <1>4 DEF Next

LEMMA RequestersStay ==
  ASSUME Ask \/ CallGoesOn \/ JobGoesOn \/ UNCHANGED vars
  PROVE  edges' = edges /\ turn' = turn
<1>1. CASE Ask
  <2>1. ASSUME NEW c, NEW s, NEW waits, NEW e, NEW k, NEW t, NEW named, NEW j,
               \/ Retry(c, s, e, k, t, waits)
               \/ Resume(c, s, e, k, t, named, waits)
               \/ Status(c, s, j, waits)
        PROVE  edges' = edges /\ turn' = turn
    BY <2>1 DEF Retry, Resume, Status, Attach
  <2>2. ASSUME NEW c, NEW s, NEW waits, NEW e, NEW k, NEW t, NEW named, NEW j,
               \/ Launch(c, s, e, k, t, named, waits, j)
               \/ LaunchFails(c, s, e, k, t, named, j)
        PROVE  edges' = edges /\ turn' = turn
    BY <2>2 DEF Launch, LaunchFails
  <2> QED
    BY <1>1, <2>1, <2>2 DEF Ask, Dispatch
<1>2. CASE CallGoesOn
  BY <1>2 DEF CallGoesOn, TimesOut, HangsUp, GoesOut, IsLost
<1>3. CASE JobGoesOn
  <2>1. ASSUME NEW j, Start(j) \/ Ends(j) \/ Removed(j) \/ Cancel(j) \/ Taken(j)
        PROVE  edges' = edges /\ turn' = turn
    BY <2>1 DEF Start, Ends, Removed, Cancel, Taken, Finish
  <2>2. CASE Expires
    BY <2>2 DEF Expires, Expire
  <2> QED
    BY <1>3, <2>1, <2>2 DEF JobGoesOn
<1>4. CASE UNCHANGED vars
  BY <1>4 DEF vars
<1> QED
  BY <1>1, <1>2, <1>3, <1>4

LEMMA PlacesStep == PlacesOK /\ [Next]_vars => PlacesOK'
<1> SUFFICES ASSUME PlacesOK, [Next]_vars
             PROVE  PlacesOK'
  OBVIOUS
<1>1. cmd' \in [Jobs -> {"none", "queued", "executing", "taken"}]
  BY CommandsMove DEF PlacesOK
<1>2. CASE TurnGoesOn
  <2>1. edges' \subseteq Edges
    BY <1>2 DEF TurnGoesOn, TurnStarts, TurnEnds, TurnStopped, RemoveEdge, PlacesOK
  <2>2. turn' \in [Sessions -> {"running", "completed", "over"}]
    BY <1>2 DEF TurnGoesOn, TurnStarts, TurnEnds, TurnStopped, RemoveEdge, PlacesOK
  <2> QED
    BY <1>1, <2>1, <2>2 DEF PlacesOK
<1>3. CASE edges' = edges /\ turn' = turn
  BY <1>1, <1>3 DEF PlacesOK
<1> QED
  BY <1>2, <1>3, RequestersStay DEF Next

LEMMA PlacesInvariance == Spec => []PlacesOK
<1>1. Init => PlacesOK
  BY DEF Init, PlacesOK
<1> QED
  BY <1>1, PlacesStep, PTL DEF Spec

LEMMA CompletedTurnsAreServed ==
  ASSUME PlacesOK, OwedOK, [Next]_vars, NEW s \in Sessions,
         turn[s] = "running", turn'[s] = "completed",
         NEW j \in registry, job[j].session = s, job[j].edge \in edges \cap Returning,
         ~job[j].cancelAsked
  PROVE  \E r \in Sessions : AgentOf[r] = AgentOf[s] /\ <<r, j>> \in received
<1>1. Missing(s) = {}
  <2>1. turn' # turn
    OBVIOUS
  <2>2. TurnGoesOn
    BY <2>1, RequestersStay DEF Next
  <2>3. PICK r \in Sessions : TurnStarts(r) \/ TurnEnds(r) \/ TurnStopped(r)
    BY <2>1, <2>2 DEF TurnGoesOn, RemoveEdge
  <2>4. turn \in [Sessions -> {"running", "completed", "over"}]
    BY DEF PlacesOK
  <2> QED
    BY <2>3, <2>4 DEF TurnStarts, TurnEnds, TurnStopped, running
<1>2. job[j].delivered
  BY <1>1 DEF Missing, Undelivered
<1>3. PICK r \in Sessions : AgentOf[r] = Source[job[j].edge] /\ <<r, j>> \in received
  BY <1>2 DEF OwedOK, SentTo
<1>4. AgentOf[s] = Source[job[j].edge]
  BY DispatchAssumption DEF OwedOK, AskerOf
<1> QED
  BY <1>3, <1>4

\* For every number of agents and sessions: when a turn completes by itself, every result its
\* session is owed has been sent to a session of its agent (`failIfDispatchResultMissing`;
\* the delivery is recorded for the agent).
THEOREM AgentsHaveTheirResults ==
  Spec => [][ \A s \in Sessions : (turn[s] = "running" /\ turn'[s] = "completed") =>
                \A j \in registry : (/\ job[j].session = s /\ job[j].edge \in edges \cap Returning
                                     /\ ~job[j].cancelAsked)
                  => \E r \in Sessions : AgentOf[r] = AgentOf[s] /\ <<r, j>> \in received ]_vars
<1> DEFINE Owed(s) ==
      \A j \in registry : (/\ job[j].session = s /\ job[j].edge \in edges \cap Returning
                           /\ ~job[j].cancelAsked)
        => \E r \in Sessions : AgentOf[r] = AgentOf[s] /\ <<r, j>> \in received
    Good == \A s \in Sessions : (turn[s] = "running" /\ turn'[s] = "completed") => Owed(s)
<1>1. PlacesOK /\ OwedOK /\ [Next]_vars => Good
  BY CompletedTurnsAreServed
<1>2. PlacesOK /\ OwedOK /\ [Next]_vars => [Good]_vars
  <2> HIDE DEF Good
  <2> QED
    BY <1>1
<1> QED
  BY <1>2, OwedInvariance, PlacesInvariance, PTL DEF Spec

\* For every number of agents, each with one session: a turn that completes by itself has
\* been sent all the results it is owed.  (With two sessions of one agent, either may be sent
\* the results of both.)
THEOREM NoTurnCompletesTooEarly ==
  ASSUME \A r, s \in Sessions : AgentOf[r] = AgentOf[s] => r = s
  PROVE  Spec => CompletedTurnsHaveTheirResults
<1> DEFINE Owed(s) ==
      \A j \in registry :
        (/\ job[j].session = s /\ job[j].edge \in edges \cap Returning
         /\ ~job[j].cancelAsked)
        => <<s, j>> \in received
    Good == \A s \in Sessions : (turn[s] = "running" /\ turn'[s] = "completed") => Owed(s)
<1>1. PlacesOK /\ OwedOK /\ [Next]_vars => Good
  BY CompletedTurnsAreServed
<1>2. PlacesOK /\ OwedOK /\ [Next]_vars => [Good]_vars
  <2> HIDE DEF Good
  <2> QED
    BY <1>1
<1> QED
  BY <1>2, OwedInvariance, PlacesInvariance, PTL DEF Spec, CompletedTurnsHaveTheirResults

\* ---- every job that is not finished has a command that will finish it ----
RunsOn == \A i \in Jobs : Open(job, i) => cmd[i] # "none"

\* What is not finished after a step was so before, and its command is where it was.
LEMMA RunsOnAsBefore ==
  ASSUME RunsOn,
         \A i \in Jobs : Open(job', i) => Open(job, i) /\ (cmd'[i] = cmd[i] \/ cmd'[i] # "none")
  PROVE  RunsOn'
BY DEF RunsOn

LEMMA LookedRunsOn ==
  ASSUME DispatchInv, RunsOn, NEW j, job' = Looked(j), cmd' = cmd
  PROVE  RunsOn'
<1>1. \A i : Open(job', i) => Open(job, i)
  BY LookedIsAlike DEF Open, Alike, DispatchInv
<1> QED
  BY <1>1, RunsOnAsBefore

LEMMA LaunchRunsOn ==
  ASSUME DispatchInv, RunsOn, NEW c, NEW s, NEW e, NEW k, NEW t, NEW named, NEW waits, NEW j \in Jobs,
         Launch(c, s, e, k, t, named, waits, j)
  PROVE  RunsOn'
<1>1. PICK started \in {"queued", "executing"} :
        job' = Launched(s, e, k, t, named, j, started) /\ cmd' = [cmd EXCEPT ![j] = started]
  BY DEF Launch, Launched
<1>2. \A i \in Jobs : i # j /\ Open(job', i) => Open(job, i)
  BY <1>1 DEF Launched, Open, registry
<1>3. cmd'[j] # "none" /\ \A i \in Jobs : i # j => cmd'[i] = cmd[i]
  BY <1>1 DEF DispatchInv, CommandsOpen
<1> QED
  BY <1>2, <1>3 DEF RunsOn

\* Forgetting leaves nothing open that was not.
LEMMA ForgetOpens ==
  ASSUME NEW gone, NEW order, NEW table, NEW keys, Forget(gone, order, table, keys)
  PROVE  \A i : Open(job', i) => Open(table, i)
<1>1. job' = [i \in DOMAIN table \ gone |-> table[i]]
  BY DEF Forget
<1> QED
  BY <1>1 DEF Open

LEMMA LaunchFailsRunsOn ==
  ASSUME RunsOn, NEW c, NEW s, NEW e, NEW k, NEW t, NEW named, NEW j,
         LaunchFails(c, s, e, k, t, named, j)
  PROVE  RunsOn'
<1> DEFINE table == Launched(s, e, k, t, named, j, "finished")
<1>1. Forget(Over(table, Append(finished, j)), Append(finished, j), table, Indexed(e, k, j))
  BY DEF LaunchFails, Launched
<1>2. \A i : Open(table, i) => Open(job, i)
  BY DEF Launched, NewJob, Open, registry
<1> HIDE DEF table
<1>3. \A i : Open(job', i) => Open(job, i)
  BY <1>1, <1>2, ForgetOpens
<1>4. cmd' = cmd
  BY DEF LaunchFails
<1> QED
  BY <1>3, <1>4, RunsOnAsBefore

LEMMA FinishRunsOn ==
  ASSUME DispatchInv, RunsOn, NEW j \in Jobs, NEW table, Finish(j, table),
         \A i : Open(table, i) => Open(job, i)
  PROVE  RunsOn'
<1> DEFINE ended == [table EXCEPT ![j].status = "finished"]
<1>1. Forget(Over(ended, Append(finished, j)), Append(finished, j), ended, index)
  BY DEF Finish
<1>2. \A i : Open(ended, i) => i # j /\ Open(table, i)
  BY DEF Open
<1> HIDE DEF ended
<1>3. \A i : Open(job', i) => i # j /\ Open(job, i)
  BY <1>1, <1>2, ForgetOpens
<1>4. \A i \in Jobs : i # j => cmd'[i] = cmd[i]
  BY DEF Finish, DispatchInv, CommandsOpen
<1> QED
  BY <1>3, <1>4, RunsOnAsBefore

LEMMA CallsRunOn ==
  ASSUME DispatchInv, RunsOn, NEW c \in Calls, TimesOut(c) \/ HangsUp(c) \/ GoesOut(c) \/ IsLost(c)
  PROVE  RunsOn'
<1>1. Steady
  BY CallsAreSteady
<1>2. cmd' = cmd /\ DOMAIN job' = DOMAIN job
  <2>1. CASE TimesOut(c)
    BY <2>1, LookedIsAlike DEF TimesOut, Alike, DispatchInv
  <2>2. CASE GoesOut(c)
    BY <2>2 DEF GoesOut
  <2>3. CASE HangsUp(c) \/ IsLost(c)
    BY <2>3 DEF HangsUp, IsLost, ledger
  <2> QED
    BY <2>1, <2>2, <2>3
<1>3. \A i : Open(job', i) => Open(job, i)
  BY <1>1, <1>2 DEF Open, Steady, Ended
<1> QED
  BY <1>2, <1>3, RunsOnAsBefore

LEMMA JobsRunOn ==
  ASSUME DispatchInv, RunsOn, NEW j \in Jobs, Start(j) \/ Ends(j) \/ Removed(j) \/ Cancel(j) \/ Taken(j)
  PROVE  RunsOn'
<1>1. CASE Start(j) \/ Taken(j)
  <2>1. PICK place \in {"executing", "taken"} : cmd' = [cmd EXCEPT ![j] = place]
    BY <1>1 DEF Start, Taken
  <2>2. \A i \in Jobs : cmd'[i] = cmd[i] \/ cmd'[i] # "none"
    BY <2>1 DEF DispatchInv, CommandsOpen
  <2>3. job' = job
    BY <1>1 DEF Start, Taken, ledger
  <2> QED
    BY <2>2, <2>3, RunsOnAsBefore
<1>2. CASE Ends(j) \/ Removed(j)
  BY <1>2, FinishRunsOn DEF Ends, Removed
<1>3. CASE Cancel(j)
  <2>1. \A i : Open(CancelAsked(j), i) => Open(job, i)
    BY <1>3, CancelAskedChanges DEF Cancel, Open, Ended
  <2>2. CASE Finish(j, CancelAsked(j))
    BY <2>1, <2>2, FinishRunsOn
  <2>3. CASE job' = CancelAsked(j) /\ cmd' = cmd
    BY <2>1, <2>3, RunsOnAsBefore
  <2> QED
    BY <1>3, <2>2, <2>3 DEF Cancel
<1> QED
  BY <1>1, <1>2, <1>3

LEMMA RunsOnStep == DispatchInv /\ RunsOn /\ [Next]_vars => RunsOn'
<1> SUFFICES ASSUME DispatchInv, RunsOn, [Next]_vars
             PROVE  RunsOn'
  OBVIOUS
<1>1. CASE Ask
  <2>1. ASSUME NEW c, NEW s, NEW waits, NEW e, NEW k, NEW t, NEW named, NEW j,
               \/ Retry(c, s, e, k, t, waits)
               \/ Resume(c, s, e, k, t, named, waits)
               \/ Status(c, s, j, waits)
        PROVE  RunsOn'
    BY <2>1, LookedRunsOn DEF Retry, Resume, Status, Attach
  <2> QED
    BY <1>1, <2>1, LaunchRunsOn, LaunchFailsRunsOn DEF Ask, Dispatch
<1>2. CASE CallGoesOn
  BY <1>2, CallsRunOn DEF CallGoesOn
<1>3. CASE JobGoesOn
  <2>1. CASE Expires
    <3>1. PICK n \in 1..Len(finished) : Expire(n)
      BY <2>1 DEF Expires
    <3>2. cmd' = cmd /\ \A i : Open(job', i) => Open(job, i)
      BY <3>1, ForgetOpens DEF Expire
    <3> QED
      BY <3>2, RunsOnAsBefore
  <2> QED
    BY <1>3, <2>1, JobsRunOn DEF JobGoesOn
<1>4. CASE TurnGoesOn \/ UNCHANGED vars
  <2>1. job' = job /\ cmd' = cmd
    BY <1>4 DEF TurnGoesOn, TurnStarts, TurnEnds, TurnStopped, RemoveEdge, vars, ledger
  <2> QED
    BY <2>1, RunsOnAsBefore
<1> QED
  BY <1>1, <1>2, <1>3, <1>4 DEF Next

\* Nobody waits in vain: the job of a held call always has a command that is queued or running,
\* whose end tells the caller (`settleDispatchCommand`), or one that was taken out of the queue by
\* the two ways that settle nothing.  The safety half of HeldCallsAreAnswered.
THEOREM WaitersAreServed ==
  Spec => [](\A c \in waiters : cmd[call[c].job] \in {"queued", "executing", "taken"})
<1>1. Init => RunsOn
  BY DEF Init, RunsOn, Open
<1>2. DispatchInv /\ RunsOn /\ PlacesOK =>
        \A c \in waiters : cmd[call[c].job] \in {"queued", "executing", "taken"}
  BY DEF DispatchInv, LedgerOK, TableOK, WaitersOpen, RunsOn, Open, PlacesOK
<1> QED
  BY <1>1, <1>2, RunsOnStep, DispatchInvariance, PlacesInvariance, PTL DEF Spec

\* The variables keep their types for every number of jobs, calls, edges and keys: a key finds a
\* kept job of its own, and the finished jobs are in order, each once, within the limit.
THEOREM LedgerTypes == Spec => []TypeOK
<1>1. DispatchInv /\ FinishedOK /\ OwedOK /\ PlacesOK => TypeOK
  <2> SUFFICES ASSUME DispatchInv, FinishedOK, OwedOK, PlacesOK
               PROVE  TypeOK
    OBVIOUS
  <2>1. registry \subseteq Jobs /\ job \in [registry -> JobType]
    BY DEF DispatchInv, LedgerOK, TableOK, registry
  <2>2. \A x \in Edges \X Keys : \/ index[x] = NoJob
                                 \/ /\ index[x] \in registry
                                    /\ <<job[index[x]].edge, job[index[x]].key>> = x
    BY DEF DispatchInv, LedgerOK, TableOK, registry
  <2>3. finished \in Seq(registry) /\ Len(finished) <= MaxFinished
    BY DEF FinishedOK, InOrder, registry
  <2>4. { finished[i] : i \in DOMAIN finished } = { j \in registry : IsFinished(j) }
    BY DEF FinishedOK, InOrder, Members, Ended, registry, IsFinished
  <2>5. Cardinality({ j \in registry : IsFinished(j) }) = Len(finished)
    <3>1. Cardinality(Ended(job)) = Len(finished)
      BY EndedIsFinite DEF FinishedOK
    <3>2. Ended(job) = { j \in registry : IsFinished(j) }
      BY DEF Ended, registry, IsFinished
    <3> QED
      BY <3>1, <3>2
  <2>6. waiters = { c \in Calls : call[c].stage = "held" } /\ received \subseteq Sessions \X registry
    BY DEF DispatchInv, WaitersOpen, OwedOK
  <2> QED
    BY <2>1, <2>2, <2>3, <2>4, <2>5, <2>6 DEF TypeOK, PlacesOK
<1> QED
  BY <1>1, PlacesInvariance, FinishedInvariance, OwedInvariance, PTL
=============================================================================

----------------------------- MODULE BatchRunner -----------------------------
(***************************************************************************)
(* The batch runner (jobs.py), the part of the store it keeps its progress *)
(* in (db.py) and the routes that start, resume, retry and purge a batch   *)
(* (web/routes.py).                                                        *)
(*                                                                         *)
(* The program is one asyncio event loop and every database call is        *)
(* synchronous, so what happens between two awaits is one atomic step: an  *)
(* action below is the code from one await to the next.  A batch has a     *)
(* JobRunner task; the task gathers one worker (a child task) per uuid, at *)
(* most GhConcurrency of them past the run's semaphore.                    *)
(*                                                                         *)
(* Abstracted: an event is known by the page it came on, a page by its     *)
(* number; sleeps end at any later moment; messages of the progress log    *)
(* are left out; of the enrichment pass only that it suspends, ends or     *)
(* raises matters here.                                                    *)
(*                                                                         *)
(* A worker outlives its run in one case: when a sibling raises, gather    *)
(* raises at once and the siblings are left running.  Each run of a batch  *)
(* takes the lowest generation number that has no worker left.            *)
(***************************************************************************)
EXTENDS Guardhouse, FiniteSets

CONSTANTS
    Batches,            \* the batch ids ever used
    Uuids,              \* the accounts
    Responses,          \* the answers Guardhouse may give
    GhConcurrency,      \* settings.gh_concurrency
    ReadyPollAttempts,  \* settings.ready_poll_attempts
    UpstreamRetries,    \* UPSTREAM_RETRIES
    PauseCyclesMax,     \* PAUSE_CYCLES_MAX
    UnavailableMaxWait, \* UNAVAILABLE_MAX_WAIT, in seconds
    DefaultRetryAfter,  \* DEFAULT_RETRY_AFTER, in seconds
    Enrich,             \* settings.enrich and an enricher is there
    MaxPages,           \* bound: pages Guardhouse has for one uuid
    MaxCrashes,         \* bound: restarts of the process
    MaxGenerations      \* bound: generations of workers of one batch alive at once

ASSUME ResponsesAssumption == Responses \subseteq Response
ASSUME SettingsAssumption ==
    /\ GhConcurrency \in Nat \ {0}
    /\ ReadyPollAttempts \in Nat
    /\ Enrich \in BOOLEAN
ASSUME LimitsAssumption ==
    /\ UpstreamRetries \in Nat
    /\ PauseCyclesMax \in Nat
    /\ UnavailableMaxWait \in Nat
    /\ DefaultRetryAfter \in Nat \ {0}
ASSUME BoundsAssumption ==
    /\ MaxPages \in Nat \ {0}
    /\ MaxCrashes \in Nat
    /\ MaxGenerations \in Nat \ {0}
ASSUME UuidsAssumption == IsFiniteSet(Uuids)

VARIABLES
    batch,    \* batches.status, "none" before the insert, "purged" after the delete
    row,      \* batch_uuids: status, pages_done and has_more
    stored,   \* events: the pages of each uuid whose events are in the store
    job,      \* JobRunner.jobs and the task of each job
    worker,   \* the child tasks: their place in _process_uuid and its locals
    auth,     \* auth_failed of each generation of workers
    crashes   \* restarts so far

store  == <<batch, row, stored>>
memory == <<job, worker, auth>>
vars   == <<store, memory, crashes>>

-----------------------------------------------------------------------------
(* The state *)

Generations == 1 .. MaxGenerations

Resumable == {"queued", "fetching", "paused"}
Kept      == {"done", "no_events", "unknown"}
Terminal  == Kept \cup {"failed"}

BatchStatus == {"none", "running", "done", "failed", "purged"}
Row == [status : Resumable \cup Terminal \cup {"absent"}, pages : Nat, more : BOOLEAN]

\* "created": scheduled by the request that created the batch, whose id nobody
\* knows yet. "raised": gather has an exception for the task to take; the
\* siblings live on. "doomed": cancelled before its first step, so that its
\* finally never runs.
Task == {"none", "created", "scheduled", "gather", "raised", "enrich",
         "cancelling", "doomed", "ended"}
Job == [task : Task, run : Generations, retry : BOOLEAN,
        phase : {"fetching", "enriching", "done"}, done : BOOLEAN]

\* "waiting" for the semaphore; "fetch" for a page; "backoff" between two
\* tries; "probe" for readyz to come back.
Worker == [pc : {"idle", "waiting", "fetch", "backoff", "probe"}, page : Nat,
           upstream : Nat, waited : Nat, pauses : Nat, polls : Nat]

TypeOK ==
    /\ batch \in [Batches -> BatchStatus]
    /\ row \in [Batches -> [Uuids -> Row]]
    /\ stored \in [Uuids -> SUBSET Nat]
    /\ job \in [Batches -> Job]
    /\ worker \in [Batches -> [Generations -> [Uuids -> Worker]]]
    /\ auth \in [Batches -> [Generations -> BOOLEAN]]
    /\ crashes \in 0 .. MaxCrashes

NoRow == [status |-> "absent", pages |-> 0, more |-> TRUE]
QueuedRowMutant == [NoRow EXCEPT !.status = "pending"]   \* no status of the schema
QueuedRow == [NoRow EXCEPT !.status = "queued"]
NoJob == [task |-> "none", run |-> 1, retry |-> FALSE, phase |-> "fetching", done |-> FALSE]
Idle == [pc |-> "idle", page |-> 0, upstream |-> 0, waited |-> 0, pauses |-> 0, polls |-> 0]
Waiting == [Idle EXCEPT !.pc = "waiting"]

Init ==
    /\ batch = [b \in Batches |-> "none"]
    /\ row = [b \in Batches |-> [u \in Uuids |-> NoRow]]
    /\ stored = [u \in Uuids |-> {}]
    /\ job = [b \in Batches |-> NoJob]
    /\ worker = [b \in Batches |-> [g \in Generations |-> [u \in Uuids |-> Idle]]]
    /\ auth = [b \in Batches |-> [g \in Generations |-> FALSE]]
    /\ crashes = 0

-----------------------------------------------------------------------------
(* Operators on the state *)

Exists(b)     == batch[b] \notin {"none", "purged"}
Present(b, u) == row[b][u].status # "absent"
LiveMutant(b) == job[b].task = "scheduled"               \* forgets a run under way
Live(b)       == job[b].task # "none" /\ ~job[b].done
Active(b, g, u)  == worker[b][g][u].pc # "idle"
Holding(b, g, u) == worker[b][g][u].pc \notin {"idle", "waiting"}
Spent(b, g)   == \A u \in Uuids : ~Active(b, g, u)
Holders(b, g) == {u \in Uuids : Holding(b, g, u)}

\* The rows a run takes up, and the page a worker resumes at.
TakenUpMutant(retry) == {"queued", "fetching"}           \* forgets "paused"
TakenUp(retry) == Resumable \cup (IF retry THEN {"failed"} ELSE {})

NextPageMutant(b, u)      == 1                           \* starts over
NextPageSecondMutant(b, u) == row[b][u].pages + 2        \* skips one
NextPage(b, u) == row[b][u].pages + 1

\* The accounts only this batch lists.
OrphansMutant(b) == {u \in Uuids : Present(b, u)}        \* forgets the others
Orphans(b) == {u \in Uuids : Present(b, u) /\ \A c \in Batches \ {b} : ~Present(c, u)}

\* set_uuid_status and set_batch_status: an UPDATE that may match no row.
WithStatus(r, status) == IF r.status = "absent" THEN r ELSE [r EXCEPT !.status = status]
SetRow(b, u, status) == row' = [row EXCEPT ![b][u] = WithStatus(@, status)]
SetBatch(b, status) ==
    batch' = [batch EXCEPT ![b] = IF @ \in {"none", "purged"} THEN @ ELSE status]

\* insert_events_page: the events and the resume point, in one transaction.
\* The events are inserted whether or not the row is still there.
InsertPage(b, u, page, events, more, status) ==
    /\ stored' = [stored EXCEPT ![u] = IF events THEN @ \cup {page} ELSE @]
    /\ row' = [row EXCEPT ![b][u] =
                 IF @.status = "absent" THEN @
                 ELSE [status |-> status, pages |-> page, more |-> more]]

StepWorker(b, g, u, w) == worker' = [worker EXCEPT ![b][g][u] = w]
EndWorker(b, g, u)     == StepWorker(b, g, u, Idle)
SettleMutant(b, g, u, status) == EndWorker(b, g, u) /\ UNCHANGED row   \* only says so
Settle(b, g, u, status) == SetRow(b, u, status) /\ EndWorker(b, g, u)

\* The end of _run, by its finally clause.
EndJob(b, phase) ==
    job' = [job EXCEPT ![b].task = "ended", ![b].phase = phase, ![b].done = TRUE]

\* JobRunner.start, when it does create a task.
Start(b, task, retry) ==
    \E g \in Generations :
      /\ Spent(b, g)
      /\ \A h \in 1 .. (g - 1) : ~Spent(b, h)
      /\ job' = [job EXCEPT ![b] = [NoJob EXCEPT !.task = task, !.run = g, !.retry = retry]]

-----------------------------------------------------------------------------
(* The routes *)

\* create_batch: the insert, and the first run of the batch.
CreateBatch(b, us) ==
    /\ batch[b] = "none"
    /\ batch' = [batch EXCEPT ![b] = "running"]
    /\ row' = [row EXCEPT ![b] = [u \in Uuids |-> IF u \in us THEN QueuedRow ELSE NoRow]]
    /\ Start(b, "created", FALSE)
    /\ UNCHANGED <<stored, worker, auth, crashes>>

\* batch_page: a running batch without a live job is resumed.
OpenPage(b) ==
    /\ batch[b] = "running"
    /\ ~Live(b)
    /\ Start(b, "scheduled", FALSE)
    /\ UNCHANGED <<store, worker, auth, crashes>>

\* retry_failed; with a live job start() changes nothing.
Retry(b) ==
    /\ Exists(b)
    /\ ~Live(b)
    /\ Start(b, "scheduled", TRUE)
    /\ UNCHANGED <<store, worker, auth, crashes>>

\* purge_batch of the store: the rows, and the events no other batch refers to.
PurgeStore(b) ==
    /\ stored' = [u \in Uuids |-> IF u \in Orphans(b) THEN {} ELSE stored[u]]
    /\ row' = [row EXCEPT ![b] = [u \in Uuids |-> NoRow]]
    /\ batch' = [batch EXCEPT ![b] = "purged"]

\* task.cancel() on a live job: before its first step the coroutine is never
\* entered; while gather is pending the cancellation reaches every child; once
\* gather has raised, or during enrichment, it reaches the task alone.
CancelTask(b) ==
    job' = IF Live(b)
           THEN [job EXCEPT ![b].task = IF @ = "scheduled" THEN "doomed" ELSE "cancelling"]
           ELSE job

CancelWorkersMutant(b) == UNCHANGED worker               \* cancels the task alone
CancelWorkers(b) ==
    worker' = IF Live(b) /\ job[b].task = "gather"
              THEN [worker EXCEPT ![b][job[b].run] = [u \in Uuids |-> Idle]]
              ELSE worker

\* The purge route: cancel, then delete, with no await between the two. Once
\* purged, a second purge finds nothing to do.
Purge(b) ==
    /\ Exists(b)
    /\ job[b].task # "created"
    /\ CancelTask(b)
    /\ CancelWorkers(b)
    /\ PurgeStore(b)
    /\ UNCHANGED <<auth, crashes>>

-----------------------------------------------------------------------------
(* The task of a batch: JobRunner._run *)

\* What follows gather: the auth verdict, else the enrichment pass (which only
\* suspends when some IP is not cached yet), else the end of the run.
AfterGather(b, authFailed) ==
    \/ /\ authFailed
       /\ SetBatch(b, "failed")
       /\ EndJob(b, job[b].phase)
    \/ /\ ~authFailed
       /\ Enrich
       /\ job' = [job EXCEPT ![b].task = "enrich", ![b].phase = "enriching", ![b].retry = FALSE]
       /\ SetBatch(b, "running")
    \/ /\ ~authFailed
       /\ SetBatch(b, "done")
       /\ EndJob(b, "done")

\* The first step of the task. gather() of no workers at all does not suspend.
RunStart(b) ==
    LET pending == {u \in Uuids : row[b][u].status \in TakenUp(job[b].retry)}
        g       == job[b].run
    IN  /\ job[b].task \in {"created", "scheduled"}
        /\ \/ /\ pending # {}
              /\ SetBatch(b, "running")
              /\ worker' = [worker EXCEPT ![b][g] =
                              [u \in Uuids |-> IF u \in pending THEN Waiting ELSE Idle]]
              /\ job' = [job EXCEPT ![b].task = "gather", ![b].retry = FALSE]
           \/ /\ pending = {}
              /\ AfterGather(b, FALSE)
              /\ UNCHANGED worker
        /\ auth' = [auth EXCEPT ![b][g] = FALSE]
        /\ UNCHANGED <<row, stored, crashes>>

\* Every worker of the run has returned.
GatherDone(b) ==
    /\ job[b].task = "gather"
    /\ Spent(b, job[b].run)
    /\ AfterGather(b, auth[b][job[b].run])
    /\ UNCHANGED <<row, stored, worker, auth, crashes>>

EnrichDone(b) ==
    /\ job[b].task = "enrich"
    /\ SetBatch(b, "done")
    /\ EndJob(b, "done")
    /\ UNCHANGED <<row, stored, worker, auth, crashes>>

\* A worker, or the enrichment pass (which survives every failed lookup but not
\* a value the store refuses), raised something _run has no name for.
RunRaisedMutant(b) ==                                    \* says nothing to the store
    /\ job[b].task \in {"raised", "enrich"}
    /\ EndJob(b, job[b].phase)
    /\ UNCHANGED <<store, worker, auth, crashes>>

RunRaised(b) ==
    /\ job[b].task \in {"raised", "enrich"}
    /\ SetBatch(b, "failed")
    /\ EndJob(b, job[b].phase)
    /\ UNCHANGED <<row, stored, worker, auth, crashes>>

\* The cancellation of a purge arrives: _run's finally sets done, unless the
\* task never got to enter _run.
Cancelled(b) ==
    /\ \/ /\ job[b].task = "cancelling"
          /\ EndJob(b, job[b].phase)
       \/ /\ job[b].task = "doomed"
          /\ job' = [job EXCEPT ![b].task = "ended"]
    /\ UNCHANGED <<store, worker, auth, crashes>>

-----------------------------------------------------------------------------
(* The worker of one uuid: one() and _process_uuid *)

\* Past the semaphore, up to the first request.
WorkerStart(b, g, u) ==
    /\ worker[b][g][u].pc = "waiting"
    /\ Cardinality(Holders(b, g)) < GhConcurrency
    /\ \/ /\ auth[b][g]
          /\ Settle(b, g, u, "failed")
       \/ /\ ~auth[b][g]
          /\ row[b][u].pages > 0 /\ ~row[b][u].more
          /\ Settle(b, g, u, "done")
       \/ /\ ~auth[b][g]
          /\ row[b][u].pages = 0 \/ row[b][u].more
          /\ SetRow(b, u, "fetching")
          /\ StepWorker(b, g, u, [Idle EXCEPT !.pc = "fetch", !.page = NextPage(b, u)])
    /\ UNCHANGED <<batch, stored, job, auth, crashes>>

Fetching(b, g, u, r, outcome) ==
    worker[b][g][u].pc = "fetch" /\ Outcome(r) = outcome

\* A page with more to come: commit it and ask for the next one. How many there are
\* is Guardhouse's affair; the code has no cap.
GotPage(b, g, u, r) ==
    LET w == worker[b][g][u] IN
    /\ Fetching(b, g, u, r, "page")
    /\ r.events /\ r.more
    /\ w.page < MaxPages
    /\ InsertPage(b, u, w.page, TRUE, TRUE, "fetching")
    /\ StepWorker(b, g, u, [w EXCEPT !.page = @ + 1, !.upstream = 0])
    /\ UNCHANGED <<batch, job, auth, crashes>>

\* The last page; an empty page that claims more is taken for it. Nothing at all
\* on the first page is "no_events".
GotLastPage(b, g, u, r) ==
    LET page   == worker[b][g][u].page
        status == IF page = 1 /\ ~r.events /\ ~r.more THEN "no_events" ELSE "done" IN
    /\ Fetching(b, g, u, r, "page")
    /\ ~r.events \/ ~r.more
    /\ InsertPage(b, u, page, r.events, FALSE, status)
    /\ EndWorker(b, g, u)
    /\ UNCHANGED <<batch, job, auth, crashes>>

\* The answers that settle a uuid at once.
Verdict == [NotFound |-> "unknown", InvalidParam |-> "failed",
            Desync |-> "no_events", GuardhouseError |-> "failed"]

GotVerdict(b, g, u, r) ==
    /\ worker[b][g][u].pc = "fetch"
    /\ Outcome(r) \in DOMAIN Verdict
    /\ Settle(b, g, u, Verdict[Outcome(r)])
    /\ UNCHANGED <<batch, stored, job, auth, crashes>>

\* A rejected token also stops the workers that have not started yet.
GotAuthError(b, g, u, r) ==
    /\ Fetching(b, g, u, r, "AuthError")
    /\ auth' = [auth EXCEPT ![b][g] = TRUE]
    /\ Settle(b, g, u, "failed")
    /\ UNCHANGED <<batch, stored, job, crashes>>

\* 429 and 503: sleep as long as told, within a budget per worker.
GotUnavailable(b, g, u, r) ==
    LET w == worker[b][g][u]
        waited == w.waited + Wait(r.retryAfter, DefaultRetryAfter) IN
    /\ Fetching(b, g, u, r, "Unavailable")
    /\ \/ /\ waited > UnavailableMaxWait
          /\ Settle(b, g, u, "failed")
       \/ /\ waited <= UnavailableMaxWait
          /\ StepWorker(b, g, u, [w EXCEPT !.pc = "backoff", !.waited = waited])
          /\ UNCHANGED row
    /\ UNCHANGED <<batch, stored, job, auth, crashes>>

GotUpstreamMutant(b, g, u, r) ==                         \* forgets to count the try
    /\ Fetching(b, g, u, r, "Upstream")
    /\ StepWorker(b, g, u, [worker[b][g][u] EXCEPT !.pc = "backoff"])
    /\ UNCHANGED <<store, job, auth, crashes>>

\* Guardhouse's side failed: a few tries in a row, with a backoff.
GotUpstream(b, g, u, r) ==
    LET w == worker[b][g][u] IN
    /\ Fetching(b, g, u, r, "Upstream")
    /\ \/ /\ w.upstream >= UpstreamRetries
          /\ Settle(b, g, u, "failed")
       \/ /\ w.upstream < UpstreamRetries
          /\ StepWorker(b, g, u, [w EXCEPT !.pc = "backoff", !.upstream = @ + 1])
          /\ UNCHANGED row
    /\ UNCHANGED <<batch, stored, job, auth, crashes>>

\* The analyst's side failed: pause and probe readyz, a few times per worker.
GotConnectionLost(b, g, u, r) ==
    LET w == worker[b][g][u] IN
    /\ Fetching(b, g, u, r, "ConnectionLost")
    /\ \/ /\ w.pauses >= PauseCyclesMax \/ ReadyPollAttempts = 0
          /\ Settle(b, g, u, "failed")
       \/ /\ w.pauses < PauseCyclesMax /\ ReadyPollAttempts > 0
          /\ SetRow(b, u, "paused")
          /\ StepWorker(b, g, u, [w EXCEPT !.pc = "probe", !.pauses = @ + 1, !.polls = 0])
    /\ UNCHANGED <<batch, stored, job, auth, crashes>>

\* An exception no handler of the worker names ends it, and gather with it.
\* The worker's row stays as it is and its siblings go on.
GotRaise(b, g, u, r) ==
    /\ Fetching(b, g, u, r, "raise")
    /\ EndWorker(b, g, u)
    /\ job' = [job EXCEPT ![b].task = IF @ = "gather" /\ job[b].run = g THEN "raised" ELSE @]
    /\ UNCHANGED <<store, auth, crashes>>

\* A sleep ends.
Wake(b, g, u) ==
    /\ worker[b][g][u].pc = "backoff"
    /\ StepWorker(b, g, u, [worker[b][g][u] EXCEPT !.pc = "fetch"])
    /\ UNCHANGED <<store, job, auth, crashes>>

\* _wait_ready: one probe.
Probe(b, g, u, r) ==
    LET w == worker[b][g][u] IN
    /\ w.pc = "probe"
    /\ \/ /\ Ready(r)
          /\ SetRow(b, u, "fetching")
          /\ StepWorker(b, g, u, [w EXCEPT !.pc = "fetch", !.polls = 0])
       \/ /\ ~Ready(r)
          /\ w.polls + 1 >= ReadyPollAttempts
          /\ Settle(b, g, u, "failed")
       \/ /\ ~Ready(r)
          /\ w.polls + 1 < ReadyPollAttempts
          /\ StepWorker(b, g, u, [w EXCEPT !.polls = @ + 1])
          /\ UNCHANGED row
    /\ UNCHANGED <<batch, stored, job, auth, crashes>>

-----------------------------------------------------------------------------
(* The process dies; what is committed stays, every task and job is gone *)

MemoryLost ==
    /\ crashes < MaxCrashes
    /\ crashes' = crashes + 1
    /\ job' = [b \in Batches |-> NoJob]
    /\ worker' = [b \in Batches |-> [g \in Generations |-> [u \in Uuids |-> Idle]]]
    /\ auth' = [b \in Batches |-> [g \in Generations |-> FALSE]]

Crash ==
    /\ \E b \in Batches : job[b].task # "none"
    /\ MemoryLost
    /\ UNCHANGED store

\* Two writes of one step that are two transactions: an empty first page is
\* committed as "done" before it is called "no_events", and a lost connection
\* is noted as "paused" before it may be one too many and "failed".
CrashBetweenWrites(b, g, u, r) ==
    /\ \/ /\ Fetching(b, g, u, r, "page")
          /\ worker[b][g][u].page = 1 /\ ~r.events /\ ~r.more
          /\ InsertPage(b, u, 1, FALSE, FALSE, "done")
       \/ /\ Fetching(b, g, u, r, "ConnectionLost")
          /\ SetRow(b, u, "paused")
          /\ UNCHANGED stored
    /\ MemoryLost
    /\ UNCHANGED batch

-----------------------------------------------------------------------------
Answer(b, g, u, r) ==
    \/ GotPage(b, g, u, r) \/ GotLastPage(b, g, u, r)
    \/ GotVerdict(b, g, u, r) \/ GotAuthError(b, g, u, r) \/ GotUnavailable(b, g, u, r)
    \/ GotUpstream(b, g, u, r) \/ GotConnectionLost(b, g, u, r) \/ GotRaise(b, g, u, r)
    \/ Probe(b, g, u, r)

WorkerStep(b, g, u) ==
    \/ WorkerStart(b, g, u)
    \/ Wake(b, g, u)
    \/ \E r \in Responses : Answer(b, g, u, r)

TaskStep(b) ==
    RunStart(b) \/ GatherDone(b) \/ EnrichDone(b) \/ RunRaised(b) \/ Cancelled(b)

UserStep(b) ==
    \/ \E us \in SUBSET Uuids \ {{}} : CreateBatch(b, us)
    \/ OpenPage(b) \/ Retry(b) \/ Purge(b)

Next ==
    \/ \E b \in Batches : UserStep(b) \/ TaskStep(b)
    \/ \E b \in Batches, g \in Generations, u \in Uuids : WorkerStep(b, g, u)
    \/ Crash
    \/ \E b \in Batches, g \in Generations, u \in Uuids, r \in Responses :
         CrashBetweenWrites(b, g, u, r)

Spec == Init /\ [][Next]_vars

\* The event loop runs every task that can run; every request ends, by an answer
\* or by the client's timeout; every sleep ends; the batch page is polled and
\* reloads itself (static/batch.js), which resumes a batch after a restart.
\* Nothing obliges a user to retry or purge, or Guardhouse to answer with a page.
Fairness ==
    /\ \A b \in Batches : WF_vars(TaskStep(b)) /\ WF_vars(OpenPage(b))
    /\ \A b \in Batches, g \in Generations, u \in Uuids : WF_vars(WorkerStep(b, g, u))

FairSpec == Spec /\ Fairness

-----------------------------------------------------------------------------
(* Properties.  NoFaults: no answer makes a worker raise.                  *)

NoFaults == \A r \in Responses : Outcome(r) # "raise"

\* Events are in the store only for accounts some batch still lists: what a
\* purge takes out stays out, whatever was in flight when it came (README,
\* "Purge batch removes a batch and the events of accounts no other batch
\* references"; purge_batch of routes.py and db.py).
NoOrphanEvents == \A u \in Uuids : stored[u] # {} => \E b \in Batches : Present(b, u)

\* A resume point never claims events the store lost: of every page a row counts
\* the events are there, even when another batch with the same account was purged
\* in between (db.py, insert_events_page and purge_batch). The last page is not
\* asked for, as it may have been empty; KeepsLedger tells an empty one from one
\* whose events were taken.
CommittedPagesStored ==
    \A b \in Batches, u \in Uuids :
      Present(b, u) =>
        \A p \in 1 .. row[b][u].pages :
          p \in stored[u] \/ (p = row[b][u].pages /\ ~row[b][u].more)

\* A batch that says it has ended has no uuid left half way: every row is at a
\* verdict, so nothing is stranded where neither the resume of batch_page (which
\* wants a running batch) nor "retry failed" finds it.
SettledRows ==
    \A b \in Batches, u \in Uuids :
      batch[b] \in {"done", "failed"} => row[b][u].status \in Terminal \cup {"absent"}

\* A failed batch shows a failed uuid, which is what the page offers "retry
\* failed" for (jobs.py:5-7, templates/batch.html).
RetryOffered ==
    \A b \in Batches : batch[b] = "failed" => \E u \in Uuids : row[b][u].status = "failed"

\* No worker outlives its run or its row: a purge, a restart, a resume or a retry
\* never leaves one behind to pull a uuid that a second worker pulls, or that
\* nobody lists any more.
WorkersConfined ==
    \A b \in Batches, g \in Generations, u \in Uuids :
      Active(b, g, u) => job[b].task = "gather" /\ job[b].run = g /\ Present(b, u)

\* What a worker has used up, the budget it can never get back first: a page resets
\* the tries, a pause the probes, and nothing resets a page, a pause or a wait.
Place == [waiting |-> 0, probe |-> 1, backoff |-> 1, fetch |-> 2]
UsedUp(w) == <<w.page, w.pauses, w.waited, w.upstream, Place[w.pc], w.polls>>
Budget == <<MaxPages, PauseCyclesMax, UnavailableMaxWait, UpstreamRetries, 2, ReadyPollAttempts>>

Further(w, v) ==
    \E i \in DOMAIN Budget :
      UsedUp(w)[i] < UsedUp(v)[i] /\ \A k \in 1 .. (i - 1) : UsedUp(w)[k] = UsedUp(v)[k]

\* Every step of a worker ends it or uses up something no later step gives back,
\* within the limits, so that throttles, tries and pauses in any mixture are
\* finitely many (jobs.py:5, "Every wait is bounded").  It fails where an answer
\* asks for no wait at all (run no_wait).
WorkersGetOn ==
    [][\A b \in Batches, g \in Generations, u \in Uuids :
         Active(b, g, u) /\ worker[b][g][u] # worker[b][g][u]' =>
           \/ ~Active(b, g, u)'
           \/ /\ Further(worker[b][g][u], worker[b][g][u]')
              /\ \A i \in DOMAIN Budget : UsedUp(worker[b][g][u]')[i] <= Budget[i]]_vars

\* Every batch that runs comes to an end, through throttling, outages, auth
\* errors and restarts (jobs.py:5, "Every wait is bounded").
BatchSettles == \A b \in Batches : batch[b] = "running" ~> batch[b] # "running"

\* What the analyst is promised is the ledger of PullLedger.
Ledger == INSTANCE PullLedger WITH
    state  <- [b \in Batches |->
                 CASE batch[b] = "running"           -> "open"
                   [] batch[b] \in {"done", "failed"} -> "closed"
                   [] OTHER                          -> batch[b]],
    ledger <- [b \in Batches |-> [u \in Uuids |->
                 [status |-> IF row[b][u].status \in Resumable THEN "pending" ELSE row[b][u].status,
                  pages  |-> row[b][u].pages]]],
    events <- stored

KeepsLedger == Ledger!Spec
=============================================================================

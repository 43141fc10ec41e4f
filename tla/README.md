# A verification of the log analyzer

This directory holds TLA+ specifications of the log analyzer, the TLC configurations that check
them on small instances, and theorems about them proved with TLAPS. Paths below are relative to
the repository.

## 1. The system

The program is one process and one asyncio event loop. All SQLite calls are synchronous, so the
code between two `await`s is one atomic step for the other tasks; everything hard is in what
happens *across* an await, in what a restart leaves behind, and in what an exception skips.

| part | state | operations | talks to |
|---|---|---|---|
| batch runner, `jobs.py` | `JobRunner.jobs` (one `BatchJob` per batch: task, phase, done, log), the workers of a run and their counters, `auth_failed` | `start`, `_run`, `_process_uuid`, `_wait_ready`, `_enrich` | store, Guardhouse client, enricher; started by the routes |
| store, `db.py` and `schema.sql` | tables batches, batch_uuids, events, ips, uas, ipqs, ipqs_errors, ipqs_log, kv | transactions and plain statements on one connection | everybody |
| routes, `web/routes.py` | `ipqs_runs`, `ipqs_lock`, `ipqs_account_cache` | create, open (resume), retry, purge, status, event stream, account page, IPQS button | runner, store, IPQS client |
| Guardhouse client, `guardhouse.py` | none | classifies every answer and failure of Guardhouse | Guardhouse over HTTP |
| IPQS client, `enrich/ipqs.py` | none | `lookup`, `account`; says which failures are charged | IPQS over HTTP |
| automatic enrichment, `enrich/__init__.py`, `rdap.py`, `asn.py` | caches of the RDAP bootstrap and AS names, a lock and a time stamp per registry | `enrich_ips`, `enrich_uas` | IANA, registries, DNS, store |
| account view, `timeline.py`, `enrich/ua.py` | none | markers, filters and counts over an account's events | store |
| progress stream, `BatchJob.wait`, `batch_events` | the log, the waiters | emit, wait, stream | the browser |
| paste parser, `uuids.py`; export, `export.py` | none | pure functions | routes |
| application, configuration, templates, scripts | wiring | rendering | - |

### What is hard, and what makes each part correct

* **Batch runner.** Several batches may list the same account; a purge arrives while pages are
  in flight; the process restarts between two pages or between two writes of one step; throttles,
  upstream failures, outages and auth errors mix; a worker may raise something nobody catches.
  Correct means: a resume point never claims events the store lost; a purge takes exactly the
  events no other batch lists, and they stay out; no two workers pull the same row of a batch; a
  batch that says it has ended left no uuid half way; every batch ends.
* **IPQS button.** Every lookup costs a credit. The cap is checked when a lookup is sent and counted
  when it is answered; between the two lie an await, perhaps midnight, perhaps a restart, and other
  accounts. Correct means: the day's log never passes the cap; no address is paid for twice without
  need; a finished run accounts for all its addresses; nobody waits for the lock for ever.
* **Enrichment.** Passes of several batches run together over the same addresses and registries.
  Correct means: one request per second per registry, which is the throttle's part, and redirects go round it; a good row is not overwritten by a failure.
* **Account view and batch table.** The same changes are worked out by two loops, for the page and for the
  table. Correct means: they agree on what both count; no filter, unparsed string or earlier account hides a
  change.
* **Progress stream.** A stream drains the log, looks whether the job is done and goes to sleep; workers
  emit at any moment, some after the end of their run. Correct means: no message, no wakeup and no end is lost.
* **Batch page.** It polls, reloads when no job is live, and by the reload resumes a batch the process died
  under. Correct means: it comes to rest.
* **Store.** Every multi-statement write is BEGIN ... COMMIT without a rollback. Correct means: whatever
  raises in between, no resume point is ahead of the events and nothing the log told of is taken back.
* **Pages.** Guardhouse's list grows at its head while it is read page by page, with pauses of any length.
  Correct means: what was there when the pull began is stored when it is done.

`PROJECT.json` lists each hazard at its line, with the properties that would catch it.

## 2. Modules

| module | what it is |
|---|---|
| `Guardhouse` | an answer of Guardhouse as a record, and what `events_page`, `ready` and `_retry_after` make of it |
| `PullLedger` | the abstract specification: what an analyst is promised of a batch |
| `BatchRunner` | the core: runner, workers, routes, the tables they share, restarts |
| `MCBatchRunner` | its instances for TLC |
| `BatchRunnerProofs`, `LedgerProofs` | theorems about it; the second on rows, retries and the ledger |
| `Paging` | one account's events from a list that grows into a store whose transactions are never rolled back |
| `ProgressStream` | the progress log of the jobs and the event streams that follow it |
| `WatchedPull` | the composition of these two with the batch page that polls, reloads and resumes |
| `MCWatchedPull`; `PagingProofs`, `ProgressStreamProofs`, `WatchedPullProofs` | its instance; theorems about the three |
| `Ipqs` | the IPQS button, its client, its tables, the vendor |
| `MCIpqs`, `IpqsProofs` | its instances and its theorems |
| `Enrichment` | the passes over addresses, the RDAP client with its bootstrap file and throttle, the ASN lookup, the table ips |
| `MCEnrichment`, `EnrichmentProofs` | its instances and its theorems |
| `Timeline` | the changes of user agent and network of an account, worked out twice: for its page and for the batch table |
| `MCTimeline`, `TimelineProofs` | its instance and its theorems |

### `BatchRunner` and the code

An action is the code from one await to the next. `CreateBatch`, `OpenPage`, `Retry`, `Purge` are
the routes; `RunStart`, `GatherDone`, `EnrichDone`, `RunRaised`, `Cancelled` are the stretches of
`_run`; `WorkerStart` is `one` up to the first request; the `Got...` actions are the branches of
`_process_uuid` after an answer, `Wake` the end of a sleep, `Probe` one turn of `_wait_ready`.
`Crash` and `CrashBetweenWrites` end the process; the second does so between two writes that are
two transactions of one step.

| variable | code |
|---|---|
| `batch`, `row`, `stored` | `batches.status`; `status`, `pages_done`, `has_more` of `batch_uuids`; the events of each account, by page |
| `job` | the entry of `JobRunner.jobs`: where its task is, the run's generation, `retry_failed`, `phase`, `done` |
| `worker` | each child task of the gather: where it is and its counters (`page`, `upstream_tries`, `waited`, `pauses`, the probes) |
| `auth` | `auth_failed` of each generation |

When one worker raises, `gather` raises at once and the siblings live on, outside any run. That is
why workers carry a *generation*: a retry may start a run next to the orphans of the previous one.

Abstracted: an event is known by the page it came on; sleeps end at any later moment; the text of
the log is left out; of the enrichment pass only that it suspends, ends or raises matters.

### `Paging` and the code

`BatchRunner` knows an event by the page it came on, which is enough for what purges, runs and restarts do
to pages. `Paging` takes one account and lets the same event come on two pages, because `Arrive` pushes the
others back; and it tells what the one SQLite connection sees from what is committed. `GotPage` is
`insert_events_page` that succeeds, `PageRaises` the same function when `BEGIN` raises because a transaction
is open, or when an event cannot be bound. `Statement` is `Database.execute`: committed at once, or part of
the transaction that is open. `OddReply` is `save_ipqs` of a value that cannot be bound: any such exception
anywhere opens the same hole.

| variable | code |
|---|---|
| `present`, `known` | Guardhouse's events of the account; those of them there when page 1 was answered (a history variable) |
| `seen`, `file`, `open` | the batch's status, the account's row and its events, as the connection sees them and as committed; whether a transaction is open |
| `pull` | the run and its worker: where it is, `retry_failed`, `page` |

### `ProgressStream` and the code

`Emit` is `BatchJob.emit`, `End` the last message of `_run` with its `finally`. `Deliver`, `Finish`, `Sleep`
are one turn of `batch_events`, the two halves of `wait` included: there is no await between the last look at
the log, the look at `done` and the registration of the event. `Wake` and `Timeout` end the wait, `Drop` is a
browser that goes away.

| variable | code |
|---|---|
| `job` | each `BatchJob`: `len(events)`, `done`; whether workers outlived the run, and the length of the log at its end |
| `stream` | each generator of `batch_events`: where it is, its job, `seq`, its event in `_waiters` and whether it is set |

### `WatchedPull` and the code

It extends `Paging` and instantiates `ProgressStream`; each action of the run is joined with the message the
code emits in it. `Load` is `batch_page`, at a visit or a reload; `Poll` is `batch_status` when no job is live,
`Reload` the `location.reload()` of `static/batch.js` 1.5 s later; `Late` is a message of a worker of another
account that outlived its run. Left out is the account's own worker when another's raises: it too outlives the
run, and next to the worker of a retry its late commit may set `pages_done` back (a page told of is then asked
for again after a restart). `BatchRunner` has such orphans (`worker_raises`), with events known by page. `told` is the last page a message has told of.

### `Ipqs` and the code

`Press` is `account_ipqs` up to the creation of its task, together with the first stretch of the
task; `Refresh` and `LastRefresh` are the two awaits of `_ipqs_account`; `Ask`, `Capped` and
`Answer` are the loop under `ipqs_lock`. `Process` is the vendor's: the moment it bills a lookup,
somewhere between our request and its reply. A run is *finished* before its task has ended - the
last refresh of the balance comes after - so `tails` counts tasks that outlive their run.

| variable | code |
|---|---|
| `cached`, `errors`, `spent` | rows of `ipqs`, of `ipqs_errors`, and of today's `ipqs_log` |
| `run` | `ipqs_runs` and the locals of each task |
| `lock`, `balance` | `ipqs_lock`, `ipqs_account_cache` (only whether it is older than the last lookup) |
| `paid`, `midnights` | the vendor's bill of the day; the calendar |

### `Enrichment` and the code

`Start` is `JobRunner._enrich` up to the list `todo` of `enrich_ips`; `Begin` and `BeginPrivate` are one
turn of its loop up to the first await; `Bootstrap` ends the request to IANA; `Lock` and `Send` are the
two halves of `_throttle`, before and after its sleep; `Redirect` is the client that follows one
(`follow_redirects`, `rdap.py:45`), a further request past the throttle; `Answer` and `Resume` are the loop over the
two attempts; `Asn` is the DNS answer with `save_ip`. `Cancel` is a purge, `Tick`, `Hour` and `Week` are the
clock as far as the code looks at it.

| variable | code |
|---|---|
| `table`, `file` | rows of `ips` (without an error, with one, with one an hour old); the bootstrap file in `kv` |
| `services`, `since`, `lock` | `RdapClient._services`, `_last` (ticks since it, one interval at most), `_locks` |
| `pass` | each pass: where it is, its addresses, what is left of `todo`, the attempt, the sleep left, the redirects its request has followed |

`BatchRunner` knows of a pass only that it suspends, ends or raises (`EnrichDone`, `RunRaised`): its rows
and the tables of the runner have nothing in common but the batch they serve.

### `Timeline` and the code

`Event` is one turn of the loop of `build_account_view` and one turn of the loop of `batch_flags`, over the
same next event; `NextAccount` is the moment the batch table's walk meets another account, whose page is a
view of its own. `UaChange`, `MajorDelta`, `RowKinds` and `Matches` are the functions of those names.

| variable | code |
|---|---|
| `rows`, `view` | the rows with their markers; `prev_ip` and `prev_ua` of `build_account_view` |
| `flags`, `walk` | the account's line of `out`; `prev_ip`, `prev_ua` and `cur` of `batch_flags` |
| `accounts` | how many accounts the walk has left behind |

What `ua_parser` makes of a string and what the enrichment stored of an address are constants: any
functions. A version is its text with the numbers `_ver` reads in it.

## 3. What is checked

The small numbers of each run are in its `.cfg`; the instances are in the MC modules.

| run | question | result |
|---|---|---|
| `shared_account` | two batches over the same two accounts, created, resumed, retried and purged at any moment, one restart; one answer of each effect (more pages, a last page, a rejected token, a lost connection; empty answers are for `every_answer`) | no orphaned events, no resume point beyond the events, no stranded row, a retry on offer whenever a batch failed, no worker outside its run; the ledger of `PullLedger` is kept: a purge takes exactly the events no other batch lists |
| `every_answer` | one batch, two accounts, every kind of answer, one restart, fairness | every batch ends; every step of a worker uses up something no later step gives back; the runner implements `PullLedger` |
| `worker_raises` | answers that make a worker raise; orphaned workers live next to the next run | resume points are still sound, batches still end |
| `ipqs_accounts` | two accounts, two shared addresses, every reply, lost replies, one midnight, one restart | the day's log stays within the cap; a finished run forgets no address |
| `ipqs_press_ends` | fairness, unreadable replies, a vendor that answers what it bills | every press ends; the vendor's bill stays within the cap too |
| `enrich_together` | two passes, an address of a registry and a private one, every answer, a redirect, garbled bootstrap files, values the store refuses, purges, a week, a restart, fairness | the requests that pass the throttle of a registry are an interval apart (redirects do not pass it, see below); a pass that ended left a row for each address; every pass ends |
| `watched_pull` | one account, three events on pages of one, any of them there or arriving, one stored by an earlier batch, one that the store refuses, IPQS values it refuses, one restart, retries, a stream, a batch page, fairness | no event is missed; resume points leave what lacks; a page told of is committed; no wakeup and no message is lost; streams end; the page comes to rest |
| `timeline` | every order of three events of eight user agents and three addresses, then a second account | page and table agree on downgrades, jumps and network changes, the table misses none of the others; filters only narrow; a version that went up and came back shows |

Runs that TLC must find violated; each is a disagreement between the code and what the repository
says of it, and `PROJECT.json` quotes the line:

| run | what it shows |
|---|---|
| `purged_while_raised` | after one worker raised, a purge does not reach its siblings; one inserts events that no batch lists |
| `no_wait` | `Retry-After: 0` never spends the throttling budget: the batch never ends |
| `page_not_atomic` | an event with a text that SQLite cannot bind (a lone surrogate): the rows before it on the page show without its progress, in a transaction that nobody ends |
| `enrich_overwritten` | two passes look the same address up; the later one fails and its error replaces the good row |

The models contain more behaviour of this kind. It is described here and has no run of its own:

* once a transaction is left open it stays open until a restart: every later `BEGIN` raises, so no page, no
  new batch and no purge is stored, while plain writes (statuses, aliases, addresses) join it and are lost at
  the restart. A batch called failed is then running again, and resumes; `watched_pull` shows that this loses
  no event and no page told of;
* a purge that cancels a task before its first step (`routes.py:212`) never enters the `try` of `_run`: its
  `finally` does not run, the job is live for ever and its event stream never ends;
* the targets of a press are taken before its first await (`routes.py:269`): two accounts that share an
  address and are pressed together pay for it twice;
* a batch purged while its page is open: the answer of `/status` has no `uuids`, `draw` raises, and the page
  asks again every four seconds for ever (`static/batch.js:69`); `WatchedPull` has no purge;
* `/status` calls the phase of a failed batch "enriching" when the pass of enrichment raised, since nothing
  resets it (`routes.py:159`), and no template includes `static/progress.js`, the reader of the event stream;
* the semaphore belongs to a run, so two batches together put up to twice `gh_concurrency` uuids toward
  Guardhouse (`jobs.py:97`; `jobs.py:1-2` says 2 at a time);
* an exception no handler names leaves a row at `fetching` in a failed batch, where neither the resume nor
  the retry finds it (`jobs.py:121`): `SettledRows` holds in `shared_account`, whose answers raise nothing,
  and fails with the answers of `worker_raises`;
* a pass of enrichment that raises fails a batch whose uuids may all be done, and the page then has nothing to
  retry (`jobs.py:121`): `RetryOffered` is checked in `shared_account`, which has no pass of enrichment;
* the RDAP client follows redirects (`rdap.py:45`): a registry that redirects to itself, or to one that was just
  asked, gets a further request at once, past `_throttle`, which is called once for each attempt
  (`rdap.py:95-96`). So "one request per second per registry" (`rdap.py:4`, `src/README.md:35`) does not hold;
  `SpacedSends` is what the throttle does keep;
* a billed lookup whose reply is lost, or a restart before it is saved, is not logged, so the bill can pass
  the cap (`ipqs.py:57`), although `schema.sql:94` calls the log "every credit spent": `PaidWithinCap` fails with
  the replies of `ipqs_accounts`;
* a restart between the two writes of an empty first page leaves the account "done" with no events in place of
  "no_events" (`jobs.py:210`); `PullLedger` allows either;
* a reply of IPQS that is JSON but no object ends the run without a word about the addresses left
  (`ipqs.py:65`): `NothingForgotten` fails with the replies of `ipqs_press_ends`;
* of two refreshes of the balance under way the older answer may come last and stay on the page
  (`routes.py:250`);
* `save_ip` lies outside the `try` blocks of a pass: a value the store cannot bind ends the pass and fails
  the batch (`enrich/__init__.py:41`);
* a bootstrap file is stored before it is parsed, so a garbled one is served for a week (`rdap.py:64`), and
  the parsed one in memory never expires (`rdap.py:49`);
* two strings that parse to the same are a change of user agent in the batch table (`timeline.py:381`) and
  none on the account's page (`timeline.py:184`), so the table's number may be the higher one: `BadgesCover`
  is an inequality for that reason.

### Bounds

* *Two* batches, accounts, addresses: every hazard here is between two actors (two batches and one
  account, two workers and one semaphore, two accounts and one lock). The proved theorems hold for
  any number.
* `MaxPages = 2` lets a worker commit a page, be interrupted and resume; a third page repeats the
  second. The bound is on what Guardhouse has: the code pulls pages as long as they are said to go on.
* `MaxCrashes = 1`: after a restart all memory is gone and the store is any store a first life can
  leave, so a second restart starts from no new kind of state.
* `watched_pull`: with pages of one event each arrival shifts every page, and three events make a page that was
  read, one that is being read and one that is left; the stored and the refused event are different ones, and
  every subset is there at the start. `MaxJobs = 2` is a run and a retry (or, after the restart, a run that
  resumes; the guard of `RetryFailed` saves a number for it), `MaxLate = 1` a message after the end. One
  stream: streams have nothing in common but the log, and the theorems hold for any number.
* `MaxGenerations` is 2 where a second run next to the workers of a first is at stake (`shared_account`,
  `worker_raises`), 1 elsewhere.
* `timeline`: a change needs two events, and three make a version go up and come back; the eight user
  agents differ in each of the ways the classification tells apart (string only, browser version, system
  version longer, odd or missing numbers, device, empty); two accounts are one hand-over of the walk.
* The retry limits (`UpstreamRetries`, `PauseCyclesMax`, `UnavailableMaxWait`, `ReadyPollAttempts`)
  are 1 or 2 in place of 3 to 120: each counter is exercised below, at and above its limit.
* An `Interval` of one tick makes a sleep that has begun and one that is over; the theorem on the spacing
  holds for any. `MaxWeeks = 1` ages the bootstrap file once. `MaxRedirects` is the client's own limit of 20,
  here 1: a request that was redirected, and one that fails for one redirect too many.
* `MaxPaid`, `MaxMidnights`, `MaxTails` bound the vendor's bill, the calendar and the tasks that
  outlive their run; `MaxPaid` exceeds `DailyCap`, so that passing the cap is possible.

Batches are never deleted from the model's set of ids, so once every id is used and purged nothing
remains to be done: the batch runs switch the deadlock check off for that reason, `timeline` because
its events are over, and `watched_pull` because a batch that is over is at rest. The IPQS and
enrichment runs check for deadlock.

### Fairness

`FairSpec` of `BatchRunner` assumes weak fairness of every task and worker - the event loop runs
what is ready, every request ends by an answer or by the client's timeout, sleeps end - and of
`OpenPage`: the batch page polls and reloads itself while a batch runs (`static/batch.js`), which is
what resumes a batch after a restart. `PageComesToRest` looks at the same page from the other side, without
that assumption: `FairSpec` of `WatchedPull` assumes that the steps of the run end, that the page's timers go
off (`Poll`, `Reload`) and that a browser reads what its stream sends; not that anybody visits or retries, and
not that a stream ever times out, so that `StreamsEnd` does not owe its truth to the 15 seconds of `wait`. Nothing is assumed of users (retry, purge) or of Guardhouse.
`FairSpec` of `Ipqs` assumes that requests end, and strong fairness of taking the lock, because
`asyncio.Lock` hands over in order of arrival; nothing is assumed of the vendor. `FairSpec` of
`Enrichment` assumes the same of requests and of the throttle's lock, and that time goes by; nothing of the
registries, of purges or of restarts.

## 4. What is proved

For every value of the constants that meets the named assumptions, which say no more than the types
of the settings, that the sets of accounts and addresses are finite, that a user agent parses to one
result at most, that a version text has at least one part, and one only where it is a number.

`BatchRunnerProofs`:

* `TypeCorrect`: `TypeOK` is inductive.
* `CommittedPagesAreStored`: no resume point claims events the store lost - whatever Guardhouse
  answers, exceptions included. `CommittedPagesStored` is not inductive: a worker that lives holds a
  page number taken earlier, and its next commit would jump over a page if the row had changed under
  it. The invariant `BookInv` adds what such a worker knows: the pages below its own are all stored
  (`ResumeStored`) while its row is there, and a batch not yet created has no rows (`Unborn`).
* `WorkersAreConfined` and `NoEventIsOrphaned`: under `NoFaults` (no answer makes a worker raise)
  no worker outlives its run or its row, and events belong to accounts some batch lists. `ConfInv`
  adds that a task which is over is done. `purged_while_raised` shows that the assumption is needed.

* `EveryWaitIsBounded`: `WorkersGetOn`, the part of "every wait is bounded" that is about the counters. The
  measure is lexicographic: page, pauses, seconds waited, tries, place in the loop, probes. A page resets the
  tries and a pause the probes, so each comes after what resets it; nothing resets pauses and waits. With
  the fairness below this is why a worker ends, and it holds for any limits. `MeasureInv` adds that a row
  which waits for more is not at the last page, and that a run which has not begun has no workers that it
  could start over. `WaitsTakeTime` (no throttle asks for a wait of nothing) is needed: `no_wait`.

All worker steps have one shape - the row, the stored pages and the worker change, each in one of a
few ways - which `WorkerStepEffect` states once; `TaskStepEffect` does it for the task. The
preservation lemmas reason about the effects instead of about twenty actions.

`LedgerProofs`, under `NoFaults`:

* `RowsAreSettled`: `SettledRows`. While a run gathers its batch says running (`GatherRuns`), and each row without
  a verdict has a worker of that run (`Attended`), so that none is left when gather returns and a pass of
  enrichment finds all of them settled (`EnrichSettled`). A worker holds its row and asks for the page after its
  resume point (`InHand`); a row whose last page is in has its verdict (`LastPageSettles`).
* `FailedBatchOffersRetry`: `RetryOffered`, when no pass of enrichment raises (or there is none): the worker
  that set `auth_failed` left a failed row, and it stays so until the run is over (`Rejected`). A pass that
  raises fails a batch whose rows may all be done; the batch then offers nothing to retry.
* `ImplementsLedger`: `KeepsLedger`. A worker's step either commits its next page or settles its row or
  changes nothing an analyst sees (`LedgerEffect`), and the row it writes is there (`WorkersConfined`) and
  pending, so a verdict is never overwritten; a task's step closes or reopens its batch, and `RowsAreSettled` is what lets it
  close; a restart is a stutter or, between two writes, the first of them. One batch's step is shown to be a
  step of the ledger (`OneBatch`), and the refinement mapping is unfolded in few places
  (`LedgerVars`). `NoFaults` is needed: `purged_while_raised`.

`IpqsProofs`:

* `CapHolds`: `WithinCap` for any number of accounts. It needs that whoever is asking holds the lock
  alone and still has room in the day (`LockInv`). `TypeCorrect` needs, besides, that what a run has
  done and has left are its targets, or the count left for tomorrow might be negative.
* `BillWithinCap`: when the vendor answers what it bills and the process lives, the bill is ahead of
  the log by the one lookup in flight at most (`PaidInv`), so the cap holds for the bill as well.
* `NothingIsForgotten`: `NothingForgotten`, when every reply can be read (`Readable`; one that cannot ends the run
  without a word about the rest). While a run is under way, every target of which the page shows nothing is
  still before it (`AccountInv`), and what the page shows stays, whatever the other accounts do (`AccountedGrows`).

`EnrichmentProofs`:

* `SendsAreSpaced`: `SpacedSends` for any number of passes and registries and any interval. It is what
  `_throttle` keeps: the requests of redirects do not pass it (section 3). The invariant `Throttled` says that a pass asleep in `_throttle` holds its registry's lock alone and that its
  sleep and the time gone by make up the interval; it needs that a pass in a lookup has one address, hence
  one registry (`WellFormed`).
* `EveryIpIsRecorded`: the addresses a pass is through with have their row, and rows are never removed.
* `TypeCorrect`, with it that a request is repeated once at most.

`QuietEffect` states what the steps outside the throttle have in common, so that one lemma preserves the
invariant for all of them.

`PagingProofs`:

* `NoEventIsMissed`, `ResumesMissNothing`: `NoneMissed` and `ResumeMissesNothing` for any finite set of events,
  any page size, arrivals, faults and restarts. Inductive is that every event the file lacks has at least
  `pages * PageSize` newer ones, which arrivals only make more (`NewerGrows`); a last page then leaves none,
  because an event has fewer newer ones than there are events (`NewerThanNone`). `Agreed` says what an open
  transaction cannot have changed: the resume point, and that the connection sees all that is committed.
* `TypeCorrect`.

`ProgressStreamProofs`:

* `WakeupsAreNotLost`, `EverythingIsTold`: for any number of jobs and streams and logs of any length. Who
  sleeps unwoken has sent the whole log of a job that is not done; every step that lengthens a log or ends a
  job wakes its sleepers (`NotifiedKeeps`), and who goes to sleep has looked in the same step (`StreamKeeps`).
* `TypeCorrect`.

`WatchedPullProofs`:

* `ImplementsPaging`: the composition implements `Paging`, so the theorems above hold of it
  (`WatchedMissesNothing`).
* `WatchedWakeups`, `WatchedIsTold`: it follows `ProgressStream` too, which needs that the runner's job is
  live exactly while a run is under way, and that a batch that says running and has a job has a live one
  (`Runs`).
* `ToldIsKept`: `NothingToldInVain`, since a message follows its commit and the file's resume point never goes
  back (`PagesGrow`). `WatchTypeCorrect`.

`TimelineProofs`:

* `ReturnsShow`: `NoSilentReturn` for any strings and parser. `ua_change` compares neighbours, so the property
  needs that "not below" is transitive on versions (`NotLessTransitive`, by the first place where two of them
  differ) and that a row without a change of family never leads from a string that does not parse to one
  that does (`StepUp`).
* `BadgesDoAgree`: `BadgesAgree` for any number of events and accounts. The invariant `Walking` says that the
  table's walk stands where the page's view stands once the account has begun; `SameVerdicts` that both then
  judge the next event alike.
* `BadgesDoCover`: `BadgesCover`, any number of events and accounts. The two loops judge the next event alike
  but for a string that differs and parses to the same, which only the table counts (`VerdictsCovered`).
* `FiltersDoNarrow`: `FiltersNarrow`. Every change is of a kind (`EveryChangeHasKind`), and a higher threshold
  takes kinds away (`FewerKinds`).
* `TypeCorrect`: in particular a jump is a number wherever it is known.

Every invariant, refinement and action property of the passing runs is stated by a theorem. Only model-checked is
liveness: `BatchSettles`, `PressEnds`, `PassEnds`, `PageComesToRest`, `StreamsEnd` follow from fairness, that is
from ENABLED, and from an induction over a measure, and neither is within the prover's reach. Of the measure of
a worker the decrease is proved (`EveryWaitIsBounded`), not that it ends. The theorems named with an assumption
(`NoFaults`, `Readable`, `PassesSucceed`, `WaitsTakeTime`) say nothing of the answers it excludes; what happens
then is in section 3.

## 5. The plan

1. *Done*: Guardhouse, PullLedger, BatchRunner, Ipqs, Enrichment, Timeline, Paging, ProgressStream and
   WatchedPull, with the theorems above.
2. *Done*: theorems for every invariant, refinement and action property of the runs.
3. The cache of AS names in `asn.py`, shared by the passes: an AS whose name was not found once has none for
   the life of the process.
4. A purge in `WatchedPull`, and the account's own worker when it outlives a run.
5. Measures like that of `EveryWaitIsBounded` for a press of the IPQS button and for a pass of enrichment.

## 6. Not modelled

Rendering, templates, styles, the export archive (pure output), configuration and the development
scripts keep no state and order nothing. The paste parser of `uuids.py` and the export of `export.py` are pure
functions of one input, without order, failure or state; what they do is a matter of text. The parse of user
agents in `enrich_uas` has no await and no failure. The text of messages is left out. The host check of
`main.py` concerns no state. Guardhouse, IPQS, the registries and DNS are external: modelled as any
answer of a set.

---------------------------- MODULE LedgerProofs ----------------------------
(***************************************************************************)
(* BatchRunner implements PullLedger, for every set of batches, accounts   *)
(* and answers, as long as no answer makes a worker raise; with it, that a *)
(* batch which has ended left no row half way, and that a failed one has   *)
(* something to retry.                                                     *)
(*                                                                         *)
(* The argument: while a run gathers, its batch says running and every row *)
(* that has no verdict has its worker (Attended); a worker that asks for a *)
(* page asks for the one after its row's resume point (InHand).  The first *)
(* makes a close of the ledger lawful, the second an entry.                *)
(***************************************************************************)
EXTENDS BatchRunnerProofs

-----------------------------------------------------------------------------
(* The invariant *)

Unsettled(b, u) == row[b][u].status \in Resumable

\* A batch that is not there has no rows.
BareWhenGone == \A b \in Batches, u \in Uuids : ~Exists(b) => ~Present(b, u)

\* Only an answer that raises makes gather raise.
NeverRaised == \A b \in Batches : job[b].task # "raised"

\* While a run gathers, the batch says so, and every row without a verdict has
\* a worker of this run.
GatherRuns == \A b \in Batches : job[b].task = "gather" => batch[b] = "running"
Attended ==
  \A b \in Batches, u \in Uuids :
    job[b].task = "gather" /\ Unsettled(b, u) => Active(b, job[b].run, u)

\* The pass of enrichment starts when every row has its verdict.
EnrichSettled ==
  \A b \in Batches, u \in Uuids : job[b].task = "enrich" => ~Unsettled(b, u)

\* A worker has a row to take up; past the semaphore the row says that it is
\* being pulled, and the page asked for is the one after its resume point.
InHand ==
  \A b \in Batches, g \in Generations, u \in Uuids :
    Active(b, g, u) =>
      /\ row[b][u].status \in TakenUp(TRUE)
      /\ Holding(b, g, u) => /\ Unsettled(b, u)
                             /\ worker[b][g][u].page = row[b][u].pages + 1

\* Where nothing more is to come the row has its verdict.
LastPageSettles ==
  \A b \in Batches, u \in Uuids : row[b][u].more \/ row[b][u].status \in {"done", "no_events"}

RowsInv == /\ BareWhenGone /\ NeverRaised /\ GatherRuns /\ Attended /\ EnrichSettled
           /\ InHand /\ LastPageSettles /\ SettledRows
LedgerInv == ConfInv /\ RowsInv

\* A rejected token has left a failed row that no worker touches any more.
Rejected ==
  \A b \in Batches :
    job[b].task = "gather" /\ auth[b][job[b].run] =>
      \E u \in Uuids : row[b][u].status = "failed" /\ ~Active(b, job[b].run, u)
PassAllowed == \A b \in Batches : job[b].task = "enrich" => Enrich

OfferInv == Rejected /\ PassAllowed /\ RetryOffered

\* No pass of enrichment raises in this step.
PassSucceeds  == \A b \in Batches : job[b].task = "enrich" => ~RunRaised(b)
PassesSucceed == [][PassSucceeds]_vars

-----------------------------------------------------------------------------
(* What one step of a worker means for the ledger *)

NewStatus(b, u, status) == row'[b][u] = [row[b][u] EXCEPT !.status = status]

\* The worker goes on with the page it has, or starts with the one after the
\* resume point.
GoesOn(b, g, u) ==
  /\ stored' = stored
  /\ Holding(b, g, u)' /\ worker'[b][g][u].page = row[b][u].pages + 1
  /\ \E status \in Resumable : NewStatus(b, u, status)

\* The worker ends with a verdict and no page.
Settles(b, g, u) ==
  /\ stored' = stored
  /\ ~Active(b, g, u)'
  /\ \E status \in {"no_events", "unknown", "failed"} :
       NewStatus(b, u, status) /\ (status = "failed" \/ Unsettled(b, u))

\* The next page of the row is committed, and the worker goes on to the one
\* after it or ends.
Commits(b, g, u) ==
  LET page == row[b][u].pages + 1 IN
  /\ Unsettled(b, u)
  /\ \E status \in {"fetching", "done", "no_events"}, events \in BOOLEAN :
       /\ row'[b][u] = [status |-> status, pages |-> page, more |-> status = "fetching"]
       /\ stored' = [stored EXCEPT ![u] = IF events THEN @ \cup {page} ELSE @]
       /\ status = "no_events" => page = 1 /\ ~events
       /\ IF status = "fetching"
          THEN events /\ Holding(b, g, u)' /\ worker'[b][g][u].page = page + 1
          ELSE ~Active(b, g, u)'

\* A rejected token leaves its mark together with a failed row.
MarksFailed(b, g, u) ==
  \/ auth' = auth
  \/ /\ auth' = [auth EXCEPT ![b][g] = TRUE]
     /\ row'[b][u].status = "failed" /\ ~Active(b, g, u)'

LedgerEffect(b, g, u) ==
  /\ Active(b, g, u)
  /\ UNCHANGED <<batch, job>>
  /\ OthersKept(b, g, u) /\ MarksFailed(b, g, u)
  /\ GoesOn(b, g, u) \/ Settles(b, g, u) \/ Commits(b, g, u)

LEMMA SetRowStatus ==
  ASSUME TypeOK, NEW b \in Batches, NEW u \in Uuids, Present(b, u), NEW status, SetRow(b, u, status)
  PROVE  NewStatus(b, u, status)
  BY DEF TypeOK, SetRow, WithStatus, NewStatus, Present

LEMMA SameStatus ==
  ASSUME TypeOK, NEW b \in Batches, NEW u \in Uuids, UNCHANGED row
  PROVE  NewStatus(b, u, row[b][u].status)
  <1>1. row[b][u] \in Row
    BY DEF TypeOK
  <1>2. QED
    BY <1>1 DEF NewStatus, Row

LEMMA SettleStatus ==
  ASSUME TypeOK, NEW b \in Batches, NEW g \in Generations, NEW u \in Uuids, Present(b, u),
         NEW status, Settle(b, g, u, status)
  PROVE  NewStatus(b, u, status) /\ ~Active(b, g, u)'
  <1>1. NewStatus(b, u, status)
    BY SetRowStatus DEF Settle
  <1>2. worker'[b][g][u] = Idle
    BY StepWorkerEffect DEF Settle, EndWorker
  <1>3. QED
    BY <1>1, <1>2 DEF Active, Idle

\* A step that keeps the worker at its page and writes at most a resumable status.
LEMMA GoesOnLemma ==
  ASSUME TypeOK, NEW b \in Batches, NEW g \in Generations, NEW u \in Uuids,
         Present(b, u), Unsettled(b, u), UNCHANGED stored,
         NEW w \in Worker, StepWorker(b, g, u, w), w.pc \notin {"idle", "waiting"},
         w.page = row[b][u].pages + 1,
         UNCHANGED row \/ SetRow(b, u, "fetching") \/ SetRow(b, u, "paused")
  PROVE  GoesOn(b, g, u)
  <1>1. worker'[b][g][u] = w
    BY StepWorkerEffect
  <1>2. \E status \in Resumable : NewStatus(b, u, status)
    BY SameStatus, SetRowStatus DEF Unsettled, Resumable
  <1>3. QED
    BY <1>1, <1>2 DEF GoesOn, Holding

LEMMA AnswerLedger ==
  ASSUME LedgerInv, NoFaults, NEW b \in Batches, NEW g \in Generations, NEW u \in Uuids,
         NEW r \in Responses, Answer(b, g, u, r)
  PROVE  /\ MarksFailed(b, g, u)
         /\ GoesOn(b, g, u) \/ Settles(b, g, u) \/ Commits(b, g, u)
  <1> DEFINE w == worker[b][g][u]
             page == row[b][u].pages + 1
             Goal == /\ MarksFailed(b, g, u)
                     /\ GoesOn(b, g, u) \/ Settles(b, g, u) \/ Commits(b, g, u)
  <1>1. TypeOK
    BY DEF LedgerInv, ConfInv, BookInv
  <1>2. /\ r.events \in BOOLEAN /\ r.more \in BOOLEAN
        /\ w \in Worker /\ w.page \in Nat /\ w.waited \in Nat
    <2>1. w \in Worker
      BY <1>1, EntriesTyped
    <2>2. r \in Response
      BY ConstantsTyped DEF Assumptions
    <2>3. QED
      BY <2>1, <2>2 DEF Worker, Response
  <1>3. Active(b, g, u) /\ Holding(b, g, u)
    BY DEF Answer, GotPage, GotLastPage, GotVerdict, GotAuthError, GotUnavailable, GotUpstream,
           GotConnectionLost, GotRaise, Probe, Fetching, Active, Holding
  <1>4. Present(b, u) /\ Unsettled(b, u) /\ w.page = page
    BY <1>3 DEF LedgerInv, ConfInv, WorkersConfined, RowsInv, InHand
  <1>5. ASSUME NEW status \in {"no_events", "unknown", "failed"}, Settle(b, g, u, status),
               UNCHANGED stored, UNCHANGED auth
        PROVE  Goal
    BY <1>1, <1>4, <1>5, SettleStatus DEF Settles, MarksFailed
  <1>6. ASSUME NEW v \in Worker, StepWorker(b, g, u, v), v.pc \notin {"idle", "waiting"},
               v.page = w.page, UNCHANGED <<stored, auth>>,
               UNCHANGED row \/ SetRow(b, u, "fetching") \/ SetRow(b, u, "paused")
        PROVE  Goal
    BY <1>1, <1>4, <1>6, GoesOnLemma DEF MarksFailed
  <1>7. CASE GotPage(b, g, u, r)
    <2>1. row'[b][u] = [status |-> "fetching", pages |-> page, more |-> TRUE]
      BY <1>1, <1>4, <1>7 DEF GotPage, InsertPage, TypeOK, Present
    <2>2. stored' = [stored EXCEPT ![u] = IF TRUE THEN @ \cup {page} ELSE @]
      BY <1>4, <1>7 DEF GotPage, InsertPage
    <2>3. worker'[b][g][u] = [w EXCEPT !.page = @ + 1, !.upstream = 0]
      BY <1>1, <1>7, StepWorkerEffect DEF GotPage
    <2>4. worker'[b][g][u].page = page + 1 /\ Holding(b, g, u)'
      BY <1>2, <1>3, <1>4, <2>3 DEF Worker, Holding
    <2>5. Commits(b, g, u)
      BY <1>4, <2>1, <2>2, <2>4 DEF Commits
    <2>6. QED
      BY <1>7, <2>5 DEF GotPage, MarksFailed
  <1>8. CASE GotLastPage(b, g, u, r)
    <2> DEFINE status == IF page = 1 /\ ~r.events /\ ~r.more THEN "no_events" ELSE "done"
    <2>1. row'[b][u] = [status |-> status, pages |-> page, more |-> FALSE]
      BY <1>1, <1>4, <1>8 DEF GotLastPage, InsertPage, TypeOK, Present
    <2>2. stored' = [stored EXCEPT ![u] = IF r.events THEN @ \cup {page} ELSE @]
      BY <1>4, <1>8 DEF GotLastPage, InsertPage
    <2>3. worker'[b][g][u] = Idle
      BY <1>1, <1>8, StepWorkerEffect DEF GotLastPage, EndWorker
    <2>4. status \in {"done", "no_events"} /\ (status = "no_events" => page = 1 /\ ~r.events)
      OBVIOUS
    <2>5. ~Active(b, g, u)'
      BY <2>3 DEF Active, Idle
    <2> HIDE DEF status
    <2>6. Commits(b, g, u)
      BY <1>2, <1>4, <2>1, <2>2, <2>4, <2>5 DEF Commits
    <2>7. QED
      BY <1>8, <2>6 DEF GotLastPage, MarksFailed
  <1>9. CASE GotVerdict(b, g, u, r)
    <2>1. Verdict[Outcome(r)] \in {"no_events", "unknown", "failed"}
      BY <1>9 DEF GotVerdict, Verdict
    <2>2. QED
      BY <1>5, <1>9, <2>1 DEF GotVerdict
  <1>10. CASE GotAuthError(b, g, u, r)
    <2>1. NewStatus(b, u, "failed") /\ ~Active(b, g, u)'
      BY <1>1, <1>4, <1>10, SettleStatus DEF GotAuthError
    <2>2. row'[b][u].status = "failed"
      <3>1. row[b][u] \in Row
        BY <1>1, EntriesTyped
      <3>2. QED
        BY <2>1, <3>1 DEF NewStatus, Row
    <2>3. QED
      BY <1>10, <2>1, <2>2 DEF GotAuthError, MarksFailed, Settles
  <1>11. CASE GotUnavailable(b, g, u, r)
    <2>1. CASE Settle(b, g, u, "failed")
      BY <1>5, <1>11, <2>1 DEF GotUnavailable
    <2>2. CASE ~Settle(b, g, u, "failed")
      <3> DEFINE n == w.waited + Wait(r.retryAfter, DefaultRetryAfter)
                 v == [w EXCEPT !.pc = "backoff", !.waited = n]
      <3>1. UNCHANGED row /\ StepWorker(b, g, u, v) /\ UNCHANGED <<stored, auth>>
        BY <1>11, <2>2 DEF GotUnavailable
      <3>2. n \in Nat
        BY <1>2, WaitTyped
      <3> HIDE DEF n
      <3>3. v \in Worker /\ v.pc = "backoff" /\ v.page = w.page
        BY <1>2, <3>2 DEF Worker
      <3>4. QED
        BY <1>6, <3>1, <3>3
    <2>3. QED
      BY <2>1, <2>2
  <1>12. CASE GotUpstream(b, g, u, r)
    <2>1. CASE Settle(b, g, u, "failed")
      BY <1>5, <1>12, <2>1 DEF GotUpstream
    <2>2. CASE ~Settle(b, g, u, "failed")
      <3> DEFINE v == [w EXCEPT !.pc = "backoff", !.upstream = @ + 1]
      <3>1. UNCHANGED row /\ StepWorker(b, g, u, v) /\ UNCHANGED <<stored, auth>>
        BY <1>12, <2>2 DEF GotUpstream
      <3>2. v \in Worker
        BY <1>2, WorkerFieldsTyped, Zenon
      <3>3. v.pc = "backoff" /\ v.page = w.page
        BY <1>2 DEF Worker
      <3>4. QED
        BY <1>6, <3>1, <3>2, <3>3
    <2>3. QED
      BY <2>1, <2>2
  <1>13. CASE GotConnectionLost(b, g, u, r)
    <2>1. CASE Settle(b, g, u, "failed")
      BY <1>5, <1>13, <2>1 DEF GotConnectionLost
    <2>2. CASE ~Settle(b, g, u, "failed")
      <3> DEFINE v == [w EXCEPT !.pc = "probe", !.pauses = @ + 1, !.polls = 0]
      <3>1. SetRow(b, u, "paused") /\ StepWorker(b, g, u, v) /\ UNCHANGED <<stored, auth>>
        BY <1>13, <2>2 DEF GotConnectionLost
      <3>2. v \in Worker
        BY <1>2, WorkerFieldsTyped, Zenon
      <3>3. v.pc = "probe" /\ v.page = w.page
        BY <1>2 DEF Worker
      <3>4. QED
        BY <1>6, <3>1, <3>2, <3>3
    <2>3. QED
      BY <2>1, <2>2
  <1>14. CASE GotRaise(b, g, u, r)
    BY <1>14 DEF GotRaise, Fetching, NoFaults
  <1>15. CASE Probe(b, g, u, r)
    <2>1. UNCHANGED <<stored, auth>>
      BY <1>15 DEF Probe
    <2>2. CASE Settle(b, g, u, "failed")
      BY <1>5, <2>1, <2>2
    <2>3. CASE /\ SetRow(b, u, "fetching")
               /\ StepWorker(b, g, u, [w EXCEPT !.pc = "fetch", !.polls = 0])
      <3> DEFINE v == [w EXCEPT !.pc = "fetch", !.polls = 0]
      <3>1. v \in Worker
        BY <1>2, WorkerFieldsTyped, Zenon
      <3>2. v.pc = "fetch" /\ v.page = w.page
        BY <1>2 DEF Worker
      <3>3. QED
        BY <1>6, <2>1, <2>3, <3>1, <3>2
    <2>4. CASE UNCHANGED row /\ StepWorker(b, g, u, [w EXCEPT !.polls = @ + 1])
      <3> DEFINE v == [w EXCEPT !.polls = @ + 1]
      <3>1. v \in Worker
        BY <1>2, WorkerFieldsTyped, Zenon
      <3>2. v.pc = w.pc /\ v.page = w.page
        BY <1>2 DEF Worker
      <3>3. w.pc \notin {"idle", "waiting"}
        BY <1>3 DEF Holding
      <3>4. QED
        BY <1>6, <2>1, <2>4, <3>1, <3>2, <3>3
    <2>5. QED
      BY <1>15, <2>2, <2>3, <2>4 DEF Probe
  <1>16. QED
    BY <1>7, <1>8, <1>9, <1>10, <1>11, <1>12, <1>13, <1>14, <1>15 DEF Answer

LEMMA WorkerStepLedger ==
  ASSUME LedgerInv, NoFaults, NEW b \in Batches, NEW g \in Generations, NEW u \in Uuids,
         WorkerStep(b, g, u)
  PROVE  LedgerEffect(b, g, u)
  <1> DEFINE w == worker[b][g][u]
  <1>1. TypeOK
    BY DEF LedgerInv, ConfInv, BookInv
  <1>2. WorkerEffect(b, g, u)
    BY <1>1, WorkerStepEffect
  <1>3. Active(b, g, u) /\ UNCHANGED <<batch, job>> /\ OthersKept(b, g, u)
    BY <1>2, NoFaults DEF WorkerEffect
  <1>4. Present(b, u) /\ row[b][u].status \in TakenUp(TRUE) /\ row[b][u] \in Row /\ w \in Worker
    BY <1>1, <1>3, EntriesTyped DEF LedgerInv, ConfInv, WorkersConfined, RowsInv, InHand
  <1> SUFFICES /\ MarksFailed(b, g, u)
               /\ GoesOn(b, g, u) \/ Settles(b, g, u) \/ Commits(b, g, u)
    BY <1>3 DEF LedgerEffect
  <1>5. CASE WorkerStart(b, g, u)
    <2>1. UNCHANGED stored /\ MarksFailed(b, g, u)
      BY <1>5 DEF WorkerStart, MarksFailed
    <2>2. row[b][u].more
      BY <1>4 DEF LedgerInv, RowsInv, LastPageSettles, TakenUp, Resumable
    <2>3. CASE Settle(b, g, u, "failed")
      BY <1>1, <1>4, <2>1, <2>3, SettleStatus DEF Settles
    <2>4. CASE /\ SetRow(b, u, "fetching")
               /\ StepWorker(b, g, u, [Idle EXCEPT !.pc = "fetch", !.page = NextPage(b, u)])
      <3> DEFINE v == [Idle EXCEPT !.pc = "fetch", !.page = NextPage(b, u)]
      <3>1. v.pc = "fetch" /\ v.page = row[b][u].pages + 1
        BY DEF Idle, NextPage
      <3>2. worker'[b][g][u] = v
        BY <1>1, <2>4, StepWorkerEffect
      <3>3. NewStatus(b, u, "fetching") /\ "fetching" \in Resumable
        BY <1>1, <1>4, <2>4, SetRowStatus DEF Resumable
      <3>4. GoesOn(b, g, u)
        BY <2>1, <3>1, <3>2, <3>3 DEF GoesOn, Holding
      <3>5. QED
        BY <2>1, <3>4
    <2>5. QED
      BY <1>5, <2>2, <2>3, <2>4 DEF WorkerStart
  <1>6. CASE Wake(b, g, u)
    <2> DEFINE v == [w EXCEPT !.pc = "fetch"]
    <2>1. Holding(b, g, u) /\ UNCHANGED <<row, stored, auth>> /\ StepWorker(b, g, u, v)
      BY <1>6 DEF Wake, Holding, store
    <2>2. v \in Worker /\ v.pc = "fetch" /\ v.page = w.page
      BY <1>4, WorkerFieldsTyped DEF Worker
    <2>3. Unsettled(b, u) /\ w.page = row[b][u].pages + 1
      BY <1>3, <2>1 DEF LedgerInv, RowsInv, InHand
    <2>4. GoesOn(b, g, u)
      BY <1>1, <1>4, <2>1, <2>2, <2>3, GoesOnLemma
    <2>5. QED
      BY <2>1, <2>4 DEF MarksFailed
  <1>7. QED
    BY <1>5, <1>6, AnswerLedger DEF WorkerStep

-----------------------------------------------------------------------------
(* The invariant holds of every step *)

LEMMA RowsWorker ==
  ASSUME LedgerInv, NEW b \in Batches, NEW g \in Generations, NEW u \in Uuids,
         LedgerEffect(b, g, u)
  PROVE  RowsInv'
  <1> USE DEF RowsInv, LedgerEffect
  <1>1. /\ job[b].task = "gather" /\ job[b].run = g /\ Present(b, u)
        /\ batch[b] = "running"
        /\ row[b][u] \in Row /\ row[b][u].status \in TakenUp(TRUE) /\ row[b][u].more
    <2>1. job[b].task = "gather" /\ job[b].run = g /\ Present(b, u)
      BY DEF LedgerInv, ConfInv, WorkersConfined
    <2>2. row[b][u].status \in TakenUp(TRUE)
      BY DEF LedgerInv, InHand
    <2>3. row[b][u] \in Row
      BY DEF LedgerInv, ConfInv, BookInv, TypeOK
    <2>4. row[b][u].more
      BY <2>2 DEF LedgerInv, LastPageSettles, TakenUp, Resumable
    <2>5. QED
      BY <2>1, <2>2, <2>3, <2>4 DEF LedgerInv, GatherRuns
  <1>2. /\ UNCHANGED <<batch, job>>
        /\ \A c \in Batches, h \in Generations, v \in Uuids :
             c # b \/ h # g \/ v # u => worker'[c][h][v] = worker[c][h][v]
        /\ \A c \in Batches, v \in Uuids : c # b \/ v # u => row'[c][v] = row[c][v]
    BY DEF OthersKept
  <1>3. \A c \in Batches : job[c].run \in Generations
    BY JobTyped DEF LedgerInv, ConfInv, BookInv, Job
  <1>4. ASSUME Active(b, g, u)' => /\ row'[b][u].status \in TakenUp(TRUE)
                                   /\ Holding(b, g, u)' =>
                                        /\ Unsettled(b, u)'
                                        /\ worker'[b][g][u].page = row'[b][u].pages + 1
        PROVE  InHand'
    <2> SUFFICES ASSUME NEW c \in Batches, NEW h \in Generations, NEW v \in Uuids, Active(c, h, v)'
                 PROVE  /\ row'[c][v].status \in TakenUp(TRUE)
                        /\ Holding(c, h, v)' =>
                             Unsettled(c, v)' /\ worker'[c][h][v].page = row'[c][v].pages + 1
      BY DEF InHand, TakenUp
    <2>1. CASE c # b \/ v # u
      <3>1. worker'[c][h][v] = worker[c][h][v] /\ row'[c][v] = row[c][v]
        BY <1>2, <2>1
      <3>2. /\ worker[c][h][v].pc # "idle"
            /\ row[c][v].status \in TakenUp(TRUE)
            /\ Holding(c, h, v) => Unsettled(c, v) /\ worker[c][h][v].page = row[c][v].pages + 1
        BY <3>1, Zenon DEF LedgerInv, InHand, Active
      <3>3. QED
        BY <3>1, <3>2, Zenon DEF Holding, Unsettled
    <2>2. CASE c = b /\ v = u /\ h # g
      BY <1>1, <1>2, <2>2 DEF LedgerInv, ConfInv, WorkersConfined, Active
    <2>3. CASE c = b /\ v = u /\ h = g
      BY <1>4, <2>3
    <2>4. QED
      BY <2>1, <2>2, <2>3
  <1>5. CASE GoesOn(b, g, u)
    <2>1. PICK status \in Resumable : row'[b][u] = [row[b][u] EXCEPT !.status = status]
      BY <1>5 DEF GoesOn, NewStatus
    <2>2. /\ row'[b][u].status = status /\ row'[b][u].pages = row[b][u].pages
          /\ row'[b][u].more = row[b][u].more
      BY <1>1, <2>1 DEF Row
    <2>3. Unsettled(b, u)' /\ Active(b, g, u)' /\ worker'[b][g][u].page = row'[b][u].pages + 1
      BY <1>5, <2>2 DEF GoesOn, Unsettled, Holding, Active
    <2>4. QED
      <3>1. BareWhenGone' /\ NeverRaised' /\ GatherRuns' /\ SettledRows'
        BY <1>1, <1>2 DEF LedgerInv, BareWhenGone, NeverRaised, GatherRuns, SettledRows, Exists, Present
      <3>2. Attended' /\ EnrichSettled'
        BY <1>1, <1>2, <1>3, <2>3 DEF LedgerInv, Attended, EnrichSettled, Unsettled, Active
      <3>3. LastPageSettles'
        BY <1>1, <1>2, <2>2 DEF LedgerInv, LastPageSettles
      <3>4. InHand'
        BY <1>4, <2>3 DEF TakenUp, Unsettled
      <3>5. QED
        BY <3>1, <3>2, <3>3, <3>4
  <1>6. CASE Settles(b, g, u) \/ Commits(b, g, u)
    <2>1. /\ row'[b][u].more \/ row'[b][u].status \in {"done", "no_events"}
          /\ row'[b][u].status # "fetching" => ~Unsettled(b, u)' /\ ~Active(b, g, u)'
          /\ row'[b][u].status = "fetching" =>
               Holding(b, g, u)' /\ worker'[b][g][u].page = row'[b][u].pages + 1
      <3>1. CASE Settles(b, g, u)
        <4>1. PICK status \in {"no_events", "unknown", "failed"} :
                row'[b][u] = [row[b][u] EXCEPT !.status = status]
          BY <3>1 DEF Settles, NewStatus
        <4>2. row'[b][u].status = status /\ row'[b][u].more = row[b][u].more
          BY <1>1, <4>1 DEF Row
        <4>3. QED
          BY <1>1, <3>1, <4>2 DEF Settles, Unsettled, Resumable
      <3>2. CASE Commits(b, g, u)
        BY <3>2 DEF Commits, Unsettled, Resumable
      <3>3. QED
        BY <1>6, <3>1, <3>2
    <2>2. row'[b][u].status = "fetching" => Unsettled(b, u)' /\ Active(b, g, u)'
      BY <2>1 DEF Unsettled, Resumable, Holding, Active
    <2>3. QED
      <3>1. BareWhenGone' /\ NeverRaised' /\ GatherRuns' /\ SettledRows'
        BY <1>1, <1>2 DEF LedgerInv, BareWhenGone, NeverRaised, GatherRuns, SettledRows, Exists, Present
      <3>2. Attended' /\ EnrichSettled'
        BY <1>1, <1>2, <1>3, <2>1, <2>2 DEF LedgerInv, Attended, EnrichSettled, Unsettled, Active
      <3>3. LastPageSettles'
        BY <1>1, <1>2, <2>1 DEF LedgerInv, LastPageSettles
      <3>4. InHand'
        BY <1>4, <2>1, <2>2 DEF TakenUp, Unsettled
      <3>5. QED
        BY <3>1, <3>2, <3>3, <3>4
  <1>7. QED
    BY <1>5, <1>6

LEMMA RowsUser ==
  ASSUME LedgerInv, ConfInv', NEW b \in Batches, UserStep(b)
  PROVE  RowsInv'
  <1> USE DEF RowsInv
  <1>0. TypeOK
    BY DEF LedgerInv, ConfInv, BookInv
  <1>1. ASSUME NEW us \in SUBSET Uuids, CreateBatch(b, us) PROVE RowsInv'
    <2>1. /\ \A c \in Batches : c # b => batch'[c] = batch[c] /\ job'[c] = job[c] /\ row'[c] = row[c]
          /\ batch'[b] = "running" /\ UNCHANGED worker
      BY <1>0, <1>1 DEF CreateBatch, Start, TypeOK
    <2>0. \A u \in Uuids : row'[b][u] \in {QueuedRow, NoRow}
      BY <1>0, <1>1 DEF CreateBatch, TypeOK
    <2>2. job'[b].task = "created"
      BY <1>0, <1>1 DEF CreateBatch, Start, TypeOK, NoJob
    <2>3. \A g \in Generations, u \in Uuids : ~Active(b, g, u)
      BY <1>1 DEF LedgerInv, ConfInv, BookInv, Unborn, CreateBatch
    <2>4. BareWhenGone' /\ SettledRows'
      BY <2>1 DEF LedgerInv, BareWhenGone, SettledRows, Exists, Present
    <2>5. NeverRaised' /\ GatherRuns' /\ Attended' /\ EnrichSettled'
      BY <2>1, <2>2 DEF LedgerInv, NeverRaised, GatherRuns, Attended, EnrichSettled, Unsettled, Active
    <2>6. InHand'
      BY <2>1, <2>3 DEF LedgerInv, InHand, Unsettled, Active, Holding, TakenUp
    <2>7. \A r \in {QueuedRow, NoRow} : r.more
      BY DEF QueuedRow, NoRow
    <2>8. LastPageSettles'
      BY <2>0, <2>1, <2>7 DEF LedgerInv, LastPageSettles
    <2>9. QED
      BY <2>4, <2>5, <2>6, <2>8
  <1>2. CASE OpenPage(b) \/ Retry(b)
    <2>1. /\ \A c \in Batches : c # b => job'[c] = job[c]
          /\ job'[b].task = "scheduled"
          /\ UNCHANGED <<batch, row, worker>>
      BY <1>0, <1>2 DEF OpenPage, Retry, Start, TypeOK, NoJob, store
    <2>2. BareWhenGone' /\ SettledRows' /\ LastPageSettles'
      BY <2>1 DEF LedgerInv, BareWhenGone, SettledRows, LastPageSettles, Exists, Present
    <2>3. NeverRaised' /\ GatherRuns' /\ Attended' /\ EnrichSettled'
      BY <2>1 DEF LedgerInv, NeverRaised, GatherRuns, Attended, EnrichSettled, Unsettled, Active
    <2>4. InHand'
      BY <2>1 DEF LedgerInv, InHand, Unsettled, Active, Holding, TakenUp
    <2>5. QED
      BY <2>2, <2>3, <2>4
  <1>3. CASE Purge(b)
    <2>1. /\ \A c \in Batches : c # b => batch'[c] = batch[c] /\ job'[c] = job[c] /\ row'[c] = row[c]
          /\ \A c \in Batches : c # b => worker'[c] = worker[c]
          /\ batch'[b] = "purged" /\ \A u \in Uuids : row'[b][u] = NoRow
      BY <1>0, <1>3 DEF Purge, CancelTask, CancelWorkers, PurgeStore, TypeOK
    <2>2. job'[b].task \notin {"gather", "enrich", "raised"}
      <3>1. CASE Live(b)
        <4>1. PICK task \in {"doomed", "cancelling"} : job' = [job EXCEPT ![b].task = task]
          BY <1>3, <3>1 DEF Purge, CancelTask
        <4>2. QED
          BY <1>0, <4>1, JobTyped DEF TypeOK, Job
      <3>2. CASE ~Live(b)
        BY <1>3, <3>2 DEF Purge, CancelTask, Live, LedgerInv, ConfInv, DoneEnded
      <3>3. QED
        BY <3>1, <3>2
    <2>3. \A g \in Generations, u \in Uuids : ~Active(b, g, u)'
      BY <2>2 DEF ConfInv, WorkersConfined
    <2>4. NoRow.status = "absent" /\ NoRow.more
      BY DEF NoRow
    <2>5. BareWhenGone' /\ SettledRows' /\ LastPageSettles'
      BY <2>1, <2>4 DEF LedgerInv, BareWhenGone, SettledRows, LastPageSettles, Exists, Present
    <2>6. NeverRaised' /\ GatherRuns' /\ Attended' /\ EnrichSettled'
      BY <2>1, <2>2 DEF LedgerInv, NeverRaised, GatherRuns, Attended, EnrichSettled, Unsettled, Active
    <2>7. InHand'
      BY <2>1, <2>3 DEF LedgerInv, InHand, Unsettled, Active, Holding, TakenUp
    <2>8. QED
      BY <2>5, <2>6, <2>7
  <1>4. QED
    BY <1>1, <1>2, <1>3 DEF UserStep

\* What follows gather, once every row has its verdict.
LEMMA RowsAfterGather ==
  ASSUME LedgerInv, NEW b \in Batches, NEW authFailed \in BOOLEAN, AfterGather(b, authFailed)
  PROVE  /\ job'[b].task = "ended" \/ (Enrich /\ job'[b].task = "enrich")
         /\ batch[b] \in {"none", "purged"} => batch'[b] = batch[b]
         /\ batch[b] \notin {"none", "purged"} =>
              \/ batch'[b] = "failed" /\ authFailed
              \/ batch'[b] = "running" /\ job'[b].task = "enrich"
              \/ batch'[b] = "done"
  <1>0. TypeOK /\ job[b] \in Job
    BY JobTyped DEF LedgerInv, ConfInv, BookInv
  <1>1. ASSUME NEW phase, EndJob(b, phase) PROVE job'[b].task = "ended"
    BY <1>0, <1>1 DEF EndJob, TypeOK, Job
  <1>2. ASSUME job' = [job EXCEPT ![b].task = "enrich", ![b].phase = "enriching", ![b].retry = FALSE]
        PROVE  job'[b].task = "enrich"
    BY <1>0, <1>2 DEF TypeOK, Job
  <1>3. ASSUME NEW status, SetBatch(b, status)
        PROVE  batch'[b] = IF batch[b] \in {"none", "purged"} THEN batch[b] ELSE status
    BY <1>0, <1>3 DEF SetBatch, TypeOK
  <1>4. CASE authFailed /\ SetBatch(b, "failed") /\ EndJob(b, job[b].phase)
    BY <1>1, <1>3, <1>4
  <1>5. CASE /\ Enrich /\ SetBatch(b, "running")
             /\ job' = [job EXCEPT ![b].task = "enrich", ![b].phase = "enriching", ![b].retry = FALSE]
    BY <1>2, <1>3, <1>5
  <1>6. CASE SetBatch(b, "done") /\ EndJob(b, "done")
    BY <1>1, <1>3, <1>6
  <1>7. QED
    BY <1>4, <1>5, <1>6 DEF AfterGather

LEMMA RowsTask ==
  ASSUME LedgerInv, ConfInv', NEW b \in Batches, TaskStep(b)
  PROVE  RowsInv'
  <1> USE DEF RowsInv
  <1>0. TypeOK /\ job[b] \in Job
    BY JobTyped DEF LedgerInv, ConfInv, BookInv
  <1>1. /\ UNCHANGED <<row, stored>>
        /\ \A c \in Batches : c # b => job'[c] = job[c] /\ batch'[c] = batch[c]
        /\ \A c \in Batches, g \in Generations, u \in Uuids :
             c # b => worker'[c][g][u] = worker[c][g][u]
    BY <1>0, TaskStepEffect
  <1>2. LastPageSettles'
    BY <1>1 DEF LedgerInv, LastPageSettles
  <1>3. \A c \in Batches : job[c].run \in Generations
    BY JobTyped DEF LedgerInv, ConfInv, BookInv, Job
  \* It is enough to look at the batch whose task steps.
  <1>4. ASSUME /\ batch'[b] \in {"none", "purged"} => batch[b] \in {"none", "purged"}
               /\ job'[b].task # "raised"
               /\ job'[b].task = "gather" =>
                    /\ batch'[b] = "running"
                    /\ \A u \in Uuids : Unsettled(b, u) => Active(b, job[b].run, u)'
               /\ job'[b].task = "enrich" \/ batch'[b] \in {"done", "failed"} =>
                    \A u \in Uuids : ~Unsettled(b, u)
               /\ \A g \in Generations, u \in Uuids :
                    \/ worker'[b][g][u] = worker[b][g][u]
                    \/ worker'[b][g][u] = Idle
                    \/ worker'[b][g][u] = Waiting /\ row[b][u].status \in TakenUp(TRUE)
        PROVE  RowsInv'
    <2>1. BareWhenGone'
      BY <1>1, <1>4 DEF LedgerInv, BareWhenGone, Exists, Present
    <2>2. NeverRaised' /\ GatherRuns'
      BY <1>1, <1>4 DEF LedgerInv, NeverRaised, GatherRuns
    <2>3. Attended'
      <3> SUFFICES ASSUME NEW c \in Batches, NEW u \in Uuids, job'[c].task = "gather", Unsettled(c, u)'
                   PROVE  Active(c, job[c].run, u)'
        BY DEF Attended
      <3>1. Unsettled(c, u)
        BY <1>1 DEF Unsettled
      <3>2. CASE c = b
        BY <1>4, <3>1, <3>2
      <3>3. CASE c # b
        BY <1>1, <1>3, <3>1, <3>3 DEF LedgerInv, Attended, Active
      <3>4. QED
        BY <3>2, <3>3
    <2>4. EnrichSettled'
      BY <1>1, <1>4 DEF LedgerInv, EnrichSettled, Unsettled
    <2>5. SettledRows'
      <3> SUFFICES ASSUME NEW c \in Batches, NEW u \in Uuids, batch'[c] \in {"done", "failed"}
                   PROVE  row'[c][u].status \in Terminal \cup {"absent"}
        BY DEF SettledRows
      <3>1. CASE c # b
        BY <1>1, <3>1 DEF LedgerInv, SettledRows
      <3>2. CASE c = b
        <4>1. ~Unsettled(b, u) /\ row[b][u] \in Row
          BY <1>0, <1>4, <3>2 DEF TypeOK
        <4>2. QED
          BY <1>1, <3>2, <4>1 DEF Unsettled, Row
      <3>3. QED
        BY <3>1, <3>2
    <2>6. InHand'
      <3> SUFFICES ASSUME NEW c \in Batches, NEW g \in Generations, NEW u \in Uuids, Active(c, g, u)'
                   PROVE  /\ row'[c][u].status \in TakenUp(TRUE)
                          /\ Holding(c, g, u)' =>
                               Unsettled(c, u)' /\ worker'[c][g][u].page = row'[c][u].pages + 1
        BY DEF InHand, TakenUp
      <3>1. CASE worker'[c][g][u] = worker[c][g][u]
        <4>1. row'[c][u] = row[c][u]
          BY <1>1
        <4>2. QED
          BY <3>1, <4>1 DEF LedgerInv, InHand, Active, Holding, Unsettled
      <3>2. CASE worker'[c][g][u] # worker[c][g][u]
        <4>1. c = b
          BY <1>1, <3>2
        <4>2. Idle.pc = "idle" /\ Waiting.pc = "waiting"
          BY DEF Idle, Waiting
        <4>3. worker'[b][g][u] = Waiting /\ row[b][u].status \in TakenUp(TRUE)
          BY <1>4, <3>2, <4>1, <4>2 DEF Active
        <4>4. QED
          BY <1>1, <4>1, <4>2, <4>3 DEF Holding
      <3>3. QED
        BY <3>1, <3>2
    <2>7. QED
      BY <1>2, <2>1, <2>2, <2>3, <2>4, <2>5, <2>6
  <1>5. ASSUME NEW authFailed \in BOOLEAN, AfterGather(b, authFailed), UNCHANGED worker,
               \A u \in Uuids : ~Unsettled(b, u)
        PROVE  RowsInv'
    <2>1. /\ batch'[b] \in {"none", "purged"} => batch[b] \in {"none", "purged"}
          /\ job'[b].task \in {"ended", "enrich"}
      BY <1>5, RowsAfterGather
    <2>2. QED
      BY <1>4, <1>5, <2>1
  <1>6. CASE RunStart(b)
    <2> DEFINE pending == {u \in Uuids : row[b][u].status \in TakenUp(job[b].retry)}
    <2>1. \A u \in Uuids : Unsettled(b, u) => u \in pending
      BY DEF Unsettled, TakenUp
    <2>2. CASE pending = {} /\ AfterGather(b, FALSE) /\ UNCHANGED worker
      BY <1>5, <2>1, <2>2
    <2>3. CASE /\ pending # {} /\ SetBatch(b, "running")
               /\ worker' = [worker EXCEPT ![b][job[b].run] =
                               [u \in Uuids |-> IF u \in pending THEN Waiting ELSE Idle]]
               /\ job' = [job EXCEPT ![b].task = "gather", ![b].retry = FALSE]
      <3>1. job'[b].task = "gather" /\ job'[b].run = job[b].run
        BY <1>0, <2>3 DEF TypeOK, Job
      <3>2. Exists(b)
        BY <2>3 DEF LedgerInv, BareWhenGone, Present, TakenUp, Resumable
      <3>3. batch'[b] = "running"
        BY <1>0, <2>3, <3>2 DEF SetBatch, TypeOK, Exists
      <3>4. \A u \in Uuids : worker'[b][job[b].run][u] = IF u \in pending THEN Waiting ELSE Idle
        BY <1>0, <1>3, <2>3 DEF TypeOK
      <3>5. \A g \in Generations : g # job[b].run => worker'[b][g] = worker[b][g]
        BY <1>0, <2>3 DEF TypeOK
      <3>6. \A u \in pending : row[b][u].status \in TakenUp(TRUE)
        BY DEF TakenUp
      <3>7. Waiting.pc # "idle"
        BY DEF Waiting, Idle
      <3> HIDE DEF pending
      <3>8. \A u \in Uuids : Unsettled(b, u) => Active(b, job[b].run, u)'
        <4>1. \A u \in Uuids : Unsettled(b, u) => worker'[b][job'[b].run][u] = Waiting
          BY <2>1, <3>1, <3>4
        <4>2. QED
          BY <3>7, <4>1 DEF Active
      <3>9. \A g \in Generations, u \in Uuids :
              \/ worker'[b][g][u] = worker[b][g][u]
              \/ worker'[b][g][u] = Idle
              \/ worker'[b][g][u] = Waiting /\ row[b][u].status \in TakenUp(TRUE)
        BY <3>4, <3>5, <3>6
      <3>10. QED
        BY <1>4, <3>1, <3>3, <3>8, <3>9
    <2>4. QED
      BY <1>6, <2>2, <2>3 DEF RunStart
  <1>7. CASE GatherDone(b)
    <2>1. auth[b][job[b].run] \in BOOLEAN
      BY <1>0, <1>3 DEF TypeOK
    <2>2. \A u \in Uuids : ~Unsettled(b, u)
      BY <1>7 DEF GatherDone, Spent, LedgerInv, Attended
    <2>3. QED
      BY <1>5, <1>7, <2>1, <2>2 DEF GatherDone
  <1>8. CASE EnrichDone(b) \/ RunRaised(b)
    <2>1. job[b].task = "enrich" /\ job'[b].task = "ended" /\ UNCHANGED worker
      BY <1>0, <1>8 DEF EnrichDone, RunRaised, EndJob, TypeOK, Job, LedgerInv, NeverRaised
    <2>2. batch'[b] \in {"none", "purged"} => batch[b] \in {"none", "purged"}
      BY <1>0, <1>8 DEF EnrichDone, RunRaised, SetBatch, TypeOK
    <2>3. \A u \in Uuids : ~Unsettled(b, u)
      BY <2>1 DEF LedgerInv, EnrichSettled
    <2>4. QED
      BY <1>4, <2>1, <2>2, <2>3
  <1>9. CASE Cancelled(b)
    <2>1. job'[b].task = "ended" /\ UNCHANGED <<worker, batch>>
      BY <1>0, <1>9 DEF Cancelled, EndJob, TypeOK, Job, store
    <2>2. batch[b] \in {"done", "failed"} => \A u \in Uuids : ~Unsettled(b, u)
      BY DEF LedgerInv, SettledRows, Unsettled, Terminal, Kept, Resumable
    <2>3. QED
      BY <1>4, <2>1, <2>2
  <1>10. QED
    BY <1>6, <1>7, <1>8, <1>9 DEF TaskStep

\* A restart that comes between the two writes of one step leaves the row with
\* the first of them.
LEMMA BetweenWrites ==
  ASSUME LedgerInv, NEW b \in Batches, NEW g \in Generations, NEW u \in Uuids,
         NEW r \in Responses, CrashBetweenWrites(b, g, u, r)
  PROVE  /\ batch[b] = "running" /\ Unsettled(b, u) /\ Present(b, u)
         /\ UNCHANGED <<batch, stored>>
         /\ \A c \in Batches, v \in Uuids : c # b \/ v # u => row'[c][v] = row[c][v]
         /\ \/ row[b][u].pages = 0 /\ row'[b][u] = [status |-> "done", pages |-> 1, more |-> FALSE]
            \/ NewStatus(b, u, "paused")
  <1>0. TypeOK
    BY DEF LedgerInv, ConfInv, BookInv
  <1>1. Holding(b, g, u) /\ Active(b, g, u)
    BY DEF CrashBetweenWrites, Fetching, Holding, Active
  <1>2. job[b].task = "gather" /\ Present(b, u)
    BY <1>1 DEF LedgerInv, ConfInv, WorkersConfined
  <1>3. batch[b] = "running" /\ Unsettled(b, u) /\ worker[b][g][u].page = row[b][u].pages + 1
    BY <1>1, <1>2 DEF LedgerInv, RowsInv, GatherRuns, InHand
  <1>4. row[b][u].pages \in Nat
    BY <1>0, EntriesTyped DEF Row
  <1>5. CASE /\ worker[b][g][u].page = 1
             /\ InsertPage(b, u, 1, FALSE, FALSE, "done") /\ UNCHANGED batch
    <2>1. row[b][u].pages = 0
      BY <1>3, <1>4, <1>5
    <2>2. /\ \A c \in Batches, v \in Uuids : c # b \/ v # u => row'[c][v] = row[c][v]
          /\ row'[b][u] = [status |-> "done", pages |-> 1, more |-> FALSE]
      BY <1>0, <1>2, <1>5 DEF InsertPage, TypeOK, Present
    <2>3. stored' = stored
      BY <1>0, <1>5 DEF InsertPage, TypeOK
    <2>4. QED
      BY <1>2, <1>3, <1>5, <2>1, <2>2, <2>3
  <1>6. CASE SetRow(b, u, "paused") /\ UNCHANGED <<batch, stored>>
    <2>1. "paused" \in Resumable \cup Terminal
      BY DEF Resumable
    <2>2. QED
      BY <1>0, <1>2, <1>3, <1>6, <2>1, SetRowEffect, SetRowStatus
  <1>7. QED
    BY <1>5, <1>6 DEF CrashBetweenWrites

LEMMA RowsRestart ==
  ASSUME LedgerInv,
         Crash \/ \E b \in Batches, g \in Generations, u \in Uuids, r \in Responses :
                    CrashBetweenWrites(b, g, u, r)
  PROVE  RowsInv'
  <1> USE DEF RowsInv
  <1>1. MemoryLost
    BY DEF Crash, CrashBetweenWrites
  <1>2. NeverRaised' /\ GatherRuns' /\ Attended' /\ EnrichSettled' /\ InHand'
    <2>1. \A b \in Batches : job'[b].task = "none"
      BY <1>1, MemoryLostEffect
    <2>2. \A b \in Batches, g \in Generations, u \in Uuids : ~Active(b, g, u)'
      BY <1>1, MemoryLostEffect
    <2>3. QED
      BY <2>1, <2>2 DEF NeverRaised, GatherRuns, Attended, EnrichSettled, InHand
  <1>3. CASE Crash
    <2>1. UNCHANGED <<batch, row>>
      BY <1>3 DEF Crash, store
    <2>2. BareWhenGone' /\ LastPageSettles' /\ SettledRows'
      BY <2>1 DEF LedgerInv, BareWhenGone, LastPageSettles, SettledRows, Exists, Present
    <2>3. QED
      BY <1>2, <2>2
  <1>4. ASSUME NEW b \in Batches, NEW g \in Generations, NEW u \in Uuids, NEW r \in Responses,
               CrashBetweenWrites(b, g, u, r)
        PROVE  RowsInv'
    <2>1. /\ batch' = batch /\ batch[b] = "running" /\ Unsettled(b, u) /\ Present(b, u)
          /\ \A c \in Batches, v \in Uuids : c # b \/ v # u => row'[c][v] = row[c][v]
          /\ \/ row[b][u].pages = 0 /\ row'[b][u] = [status |-> "done", pages |-> 1, more |-> FALSE]
             \/ NewStatus(b, u, "paused")
      BY <1>4, BetweenWrites
    <2>2. BareWhenGone' /\ SettledRows'
      BY <2>1 DEF LedgerInv, BareWhenGone, SettledRows, Exists, Present
    <2>3. row'[b][u].more \/ row'[b][u].status \in {"done", "no_events"}
      <3>1. row[b][u] \in Row
        BY DEF LedgerInv, ConfInv, BookInv, TypeOK
      <3>2. row[b][u].more
        BY <2>1 DEF LedgerInv, LastPageSettles, Unsettled, Resumable
      <3>3. CASE NewStatus(b, u, "paused")
        BY <3>1, <3>2, <3>3 DEF NewStatus, Row
      <3>4. QED
        BY <2>1, <3>3
    <2>4. LastPageSettles'
      BY <2>1, <2>3 DEF LedgerInv, LastPageSettles
    <2>5. QED
      BY <1>2, <2>2, <2>4
  <1>5. QED
    BY <1>3, <1>4

LEMMA LedgerInvInductive == ASSUME NoFaults PROVE Spec => []LedgerInv
  <1>1. Init => RowsInv
    <2> SUFFICES ASSUME Init PROVE RowsInv
      OBVIOUS
    <2>1. /\ \A b \in Batches : batch[b] = "none" /\ job[b].task = "none"
          /\ \A b \in Batches, u \in Uuids : row[b][u] = NoRow
          /\ \A b \in Batches, g \in Generations, u \in Uuids : ~Active(b, g, u)
      BY DEF Init, NoJob, Idle, Active
    <2>2. NoRow.status = "absent" /\ NoRow.more
      BY DEF NoRow
    <2>3. QED
      BY <2>1, <2>2 DEF RowsInv, BareWhenGone, NeverRaised, GatherRuns, Attended, EnrichSettled,
                        InHand, LastPageSettles, SettledRows, Present
  <1>2. ConfInv /\ ConfInv' /\ RowsInv /\ [Next]_vars => RowsInv'
    <2> SUFFICES ASSUME LedgerInv, ConfInv', [Next]_vars PROVE RowsInv'
      BY DEF LedgerInv
    <2>1. CASE Next
      <3>1. ASSUME NEW b \in Batches, NEW g \in Generations, NEW u \in Uuids, WorkerStep(b, g, u)
            PROVE  RowsInv'
        BY <3>1, NoFaults, WorkerStepLedger, RowsWorker
      <3>2. QED
        BY <2>1, <3>1, RowsUser, RowsTask, RowsRestart DEF Next
    <2>2. CASE UNCHANGED vars
      <3>1. UNCHANGED <<batch, row, stored, job, worker>>
        BY <2>2 DEF vars, store, memory
      <3>2. BareWhenGone' /\ LastPageSettles' /\ SettledRows'
        BY <3>1 DEF LedgerInv, RowsInv, BareWhenGone, LastPageSettles, SettledRows, Exists, Present
      <3>3. NeverRaised' /\ GatherRuns' /\ Attended' /\ EnrichSettled'
        BY <3>1 DEF LedgerInv, RowsInv, NeverRaised, GatherRuns, Attended, EnrichSettled,
                    Unsettled, Active
      <3>4. InHand'
        BY <3>1 DEF LedgerInv, RowsInv, InHand, Unsettled, Active, Holding, TakenUp
      <3>5. QED
        BY <3>2, <3>3, <3>4 DEF RowsInv
    <2>3. QED
      BY <2>1, <2>2
  <1>3. QED
    BY <1>1, <1>2, ConfInductive, NoFaults, PTL DEF Spec, LedgerInv

\* A batch that says it has ended has no row half way, through pauses, retries,
\* purges and restarts between any two writes, as long as no answer makes a
\* worker raise.
THEOREM RowsAreSettled == ASSUME NoFaults PROVE Spec => []SettledRows
  BY LedgerInvInductive, NoFaults, PTL DEF LedgerInv, RowsInv

-----------------------------------------------------------------------------
(* A failed batch offers a retry *)

LEMMA OfferWorker ==
  ASSUME LedgerInv, OfferInv, NEW b \in Batches, NEW g \in Generations, NEW u \in Uuids,
         LedgerEffect(b, g, u)
  PROVE  OfferInv'
  <1> USE DEF OfferInv, LedgerEffect
  <1>1. job[b].task = "gather" /\ job[b].run = g /\ batch[b] = "running" /\ auth[b][g] \in BOOLEAN
    BY DEF LedgerInv, ConfInv, WorkersConfined, BookInv, TypeOK, RowsInv, GatherRuns
  <1>2. /\ job' = job /\ batch' = batch
        /\ \A c \in Batches, h \in Generations, v \in Uuids :
             c # b \/ h # g \/ v # u => worker'[c][h][v] = worker[c][h][v]
        /\ \A c \in Batches, v \in Uuids : c # b \/ v # u => row'[c][v] = row[c][v]
    BY DEF OthersKept
  <1>3. RetryOffered'
    BY <1>1, <1>2 DEF RetryOffered
  <1>4. PassAllowed'
    BY <1>2 DEF PassAllowed
  <1>5. Rejected'
    <2> SUFFICES ASSUME NEW c \in Batches, job[c].task = "gather", auth'[c][job[c].run]
                 PROVE  \E v \in Uuids : /\ row'[c][v].status = "failed"
                                         /\ worker'[c][job[c].run][v].pc = "idle"
      BY <1>2 DEF Rejected, Active
    <2>1. CASE auth[c][job[c].run]
      <3>1. PICK v \in Uuids : row[c][v].status = "failed" /\ ~Active(c, job[c].run, v)
        BY <2>1 DEF Rejected
      <3>2. c # b \/ v # u
        BY <1>1, <3>1
      <3>3. job[c].run \in Generations
        BY JobTyped DEF LedgerInv, ConfInv, BookInv, Job
      <3>4. row'[c][v] = row[c][v] /\ worker'[c][job[c].run][v] = worker[c][job[c].run][v]
        BY <1>2, <3>2, <3>3
      <3>5. QED
        BY <3>1, <3>4 DEF Active
    <2>2. CASE ~auth[c][job[c].run]
      <3>1. /\ auth' = [auth EXCEPT ![b][g] = TRUE]
            /\ row'[b][u].status = "failed" /\ worker'[b][g][u].pc = "idle"
        BY <2>2 DEF MarksFailed, Active
      <3>2. c = b
        BY <2>2, <3>1 DEF LedgerInv, ConfInv, BookInv, TypeOK
      <3>3. QED
        BY <1>1, <3>1, <3>2
    <2>3. QED
      BY <2>1, <2>2
  <1>6. QED
    BY <1>3, <1>4, <1>5

LEMMA OfferUser ==
  ASSUME LedgerInv, OfferInv, NEW b \in Batches, UserStep(b)
  PROVE  OfferInv'
  <1> USE DEF OfferInv
  <1>0. TypeOK
    BY DEF LedgerInv, ConfInv, BookInv
  \* The batch the user acts on does not gather then, nor does it turn failed.
  <1>1. ASSUME /\ \A c \in Batches : c # b => job'[c] = job[c] /\ worker'[c] = worker[c]
                                             /\ row'[c] = row[c] /\ batch'[c] = batch[c]
               /\ auth' = auth /\ job'[b].task \notin {"gather", "enrich"}
               /\ batch'[b] # "failed" \/ UNCHANGED <<batch, row>>
        PROVE  OfferInv'
    <2>1. RetryOffered' /\ PassAllowed'
      BY <1>1 DEF RetryOffered, PassAllowed
    <2>2. Rejected'
      BY <1>1 DEF Rejected, Active
    <2>3. QED
      BY <2>1, <2>2
  <1>2. ASSUME NEW us \in SUBSET Uuids, CreateBatch(b, us) PROVE OfferInv'
    <2>1. job'[b].task = "created"
      BY <1>0, <1>2 DEF CreateBatch, Start, TypeOK, NoJob
    <2>2. /\ \A c \in Batches : c # b => job'[c] = job[c] /\ worker'[c] = worker[c]
                                         /\ row'[c] = row[c] /\ batch'[c] = batch[c]
          /\ auth' = auth /\ batch'[b] = "running"
      BY <1>0, <1>2 DEF CreateBatch, Start, TypeOK
    <2>3. QED
      BY <1>1, <2>1, <2>2
  <1>3. CASE OpenPage(b) \/ Retry(b)
    <2>1. job'[b].task = "scheduled"
      BY <1>0, <1>3 DEF OpenPage, Retry, Start, TypeOK, NoJob
    <2>2. /\ \A c \in Batches : c # b => job'[c] = job[c]
          /\ UNCHANGED <<auth, worker, batch, row>>
      BY <1>0, <1>3 DEF OpenPage, Retry, Start, TypeOK, store
    <2>3. QED
      BY <1>1, <2>1, <2>2
  <1>4. CASE Purge(b)
    <2>1. job'[b].task \notin {"gather", "enrich"}
      <3>1. CASE Live(b)
        <4>1. PICK task \in {"doomed", "cancelling"} : job' = [job EXCEPT ![b].task = task]
          BY <1>4, <3>1 DEF Purge, CancelTask
        <4>2. QED
          BY <1>0, <4>1, JobTyped DEF TypeOK, Job
      <3>2. CASE ~Live(b)
        BY <1>4, <3>2 DEF Purge, CancelTask, Live, LedgerInv, ConfInv, DoneEnded
      <3>3. QED
        BY <3>1, <3>2
    <2>2. /\ \A c \in Batches : c # b => job'[c] = job[c] /\ worker'[c] = worker[c]
                                         /\ row'[c] = row[c] /\ batch'[c] = batch[c]
          /\ auth' = auth /\ batch'[b] = "purged"
      BY <1>0, <1>4 DEF Purge, CancelTask, CancelWorkers, PurgeStore, TypeOK
    <2>3. QED
      BY <1>1, <2>1, <2>2
  <1>5. QED
    BY <1>2, <1>3, <1>4 DEF UserStep

LEMMA OfferTask ==
  ASSUME LedgerInv, OfferInv, ~Enrich \/ PassSucceeds, NEW b \in Batches, TaskStep(b)
  PROVE  OfferInv'
  <1> USE DEF OfferInv
  <1>0. TypeOK /\ job[b] \in Job
    BY JobTyped DEF LedgerInv, ConfInv, BookInv
  <1>1. /\ row' = row
        /\ \A c \in Batches : c # b => job'[c] = job[c] /\ batch'[c] = batch[c]
        /\ \A c \in Batches, g \in Generations, u \in Uuids :
             c # b => worker'[c][g][u] = worker[c][g][u]
    BY <1>0, TaskStepEffect
  <1>2. \A c \in Batches : job[c].run \in Generations
    BY JobTyped DEF LedgerInv, ConfInv, BookInv, Job
  <1>3. ASSUME /\ \A c \in Batches : c # b => auth'[c] = auth[c]
               /\ job'[b].task = "gather" => ~auth'[b][job'[b].run]
               /\ job'[b].task = "enrich" => Enrich
               /\ batch'[b] = "failed" => \E u \in Uuids : row[b][u].status = "failed"
        PROVE  OfferInv'
    <2>1. RetryOffered' /\ PassAllowed'
      BY <1>1, <1>3 DEF RetryOffered, PassAllowed
    <2>2. Rejected'
      <3> SUFFICES ASSUME NEW c \in Batches, job'[c].task = "gather", auth'[c][job'[c].run]
                   PROVE  \E u \in Uuids : /\ row'[c][u].status = "failed"
                                           /\ worker'[c][job'[c].run][u].pc = "idle"
        BY DEF Rejected, Active
      <3>1. c # b /\ job'[c] = job[c] /\ auth'[c] = auth[c]
        BY <1>1, <1>3
      <3>2. PICK u \in Uuids : row[c][u].status = "failed" /\ ~Active(c, job[c].run, u)
        BY <3>1 DEF Rejected
      <3>3. QED
        BY <1>1, <1>2, <3>1, <3>2 DEF Active
    <2>3. QED
      BY <2>1, <2>2
  <1>4. ASSUME NEW authFailed \in BOOLEAN, AfterGather(b, authFailed),
               authFailed => \E u \in Uuids : row[b][u].status = "failed",
               \A c \in Batches : c # b => auth'[c] = auth[c]
        PROVE  OfferInv'
    <2>1. job'[b].task = "ended" \/ (Enrich /\ job'[b].task = "enrich")
      BY <1>4, RowsAfterGather
    <2>2. batch'[b] = "failed" => authFailed \/ batch[b] = "failed"
      BY <1>0, <1>4, RowsAfterGather DEF TypeOK, BatchStatus
    <2>3. batch'[b] = "failed" => \E u \in Uuids : row[b][u].status = "failed"
      BY <1>4, <2>2 DEF RetryOffered
    <2>4. QED
      BY <1>3, <1>4, <2>1, <2>3
  <1>5. CASE RunStart(b)
    <2>1. \A c \in Batches : c # b => auth'[c] = auth[c]
      BY <1>0, <1>5 DEF RunStart, TypeOK
    <2>2. CASE AfterGather(b, FALSE)
      BY <1>4, <2>1, <2>2
    <2>3. CASE SetBatch(b, "running") /\ job' = [job EXCEPT ![b].task = "gather", ![b].retry = FALSE]
      <3>1. job'[b].task = "gather" /\ job'[b].run = job[b].run
        BY <1>0, <2>3 DEF TypeOK, Job
      <3>2. ~auth'[b][job[b].run]
        BY <1>0, <1>2, <1>5 DEF RunStart, TypeOK
      <3>3. batch'[b] # "failed"
        BY <1>0, <2>3 DEF SetBatch, TypeOK
      <3>4. QED
        BY <1>3, <2>1, <3>1, <3>2, <3>3
    <2>4. QED
      BY <1>5, <2>2, <2>3 DEF RunStart
  <1>6. CASE GatherDone(b)
    <2>1. auth[b][job[b].run] \in BOOLEAN
      BY <1>0, <1>2 DEF TypeOK
    <2>2. auth[b][job[b].run] => \E u \in Uuids : row[b][u].status = "failed"
      BY <1>6 DEF GatherDone, Rejected
    <2>3. QED
      BY <1>4, <1>6, <2>1, <2>2 DEF GatherDone
  <1>7. CASE EnrichDone(b)
    <2>1. job'[b].task = "ended" /\ auth' = auth
      BY <1>0, <1>7 DEF EnrichDone, EndJob, TypeOK, Job
    <2>2. batch'[b] # "failed"
      BY <1>0, <1>7 DEF EnrichDone, SetBatch, TypeOK
    <2>3. QED
      BY <1>3, <2>1, <2>2
  <1>8. CASE RunRaised(b)
    BY <1>8 DEF RunRaised, PassAllowed, PassSucceeds, LedgerInv, RowsInv, NeverRaised
  <1>9. CASE Cancelled(b)
    <2>1. job'[b].task = "ended" /\ UNCHANGED <<auth, batch>>
      BY <1>0, <1>9 DEF Cancelled, EndJob, TypeOK, Job, store
    <2>2. QED
      BY <1>3, <2>1 DEF RetryOffered
  <1>10. QED
    BY <1>5, <1>6, <1>7, <1>8, <1>9 DEF TaskStep

LEMMA OfferRestart ==
  ASSUME LedgerInv, OfferInv,
         Crash \/ \E b \in Batches, g \in Generations, u \in Uuids, r \in Responses :
                    CrashBetweenWrites(b, g, u, r)
  PROVE  OfferInv'
  <1> USE DEF OfferInv
  <1>1. \A b \in Batches : job'[b].task = "none"
    BY MemoryLostEffect DEF Crash, CrashBetweenWrites
  <1>2. Rejected' /\ PassAllowed'
    BY <1>1 DEF Rejected, PassAllowed
  <1>3. CASE Crash
    BY <1>2, <1>3 DEF RetryOffered, Crash, store
  <1>4. ASSUME NEW b \in Batches, NEW g \in Generations, NEW u \in Uuids, NEW r \in Responses,
               CrashBetweenWrites(b, g, u, r)
        PROVE  OfferInv'
    <2>1. /\ batch' = batch /\ batch[b] = "running"
          /\ \A c \in Batches, v \in Uuids : c # b \/ v # u => row'[c][v] = row[c][v]
      BY <1>4, BetweenWrites
    <2>2. QED
      BY <1>2, <2>1 DEF RetryOffered
  <1>5. QED
    BY <1>3, <1>4

LEMMA OfferNext ==
  ASSUME NoFaults, ~Enrich \/ PassSucceeds, LedgerInv, OfferInv, Next
  PROVE  OfferInv'
  <1>1. ASSUME NEW b \in Batches, NEW g \in Generations, NEW u \in Uuids, WorkerStep(b, g, u)
        PROVE  OfferInv'
    BY <1>1, NoFaults, WorkerStepLedger, OfferWorker
  <1>2. QED
    BY <1>1, OfferTask, OfferUser, OfferRestart DEF Next

\* A failed batch shows a failed uuid to retry: whoever rejected the token, the
\* row it was rejected for is still failed when the batch is called failed, and
\* after any restart. A pass of enrichment that raises fails a batch whose uuids
\* may all be done: it is left out.
THEOREM FailedBatchOffersRetry ==
  ASSUME NoFaults PROVE Spec /\ (~Enrich \/ PassesSucceed) => []RetryOffered
  <1>1. Init => OfferInv
    <2> SUFFICES ASSUME Init PROVE OfferInv
      OBVIOUS
    <2>1. \A b \in Batches : batch[b] = "none" /\ job[b].task = "none"
      BY DEF Init, NoJob
    <2>2. QED
      BY <2>1 DEF OfferInv, Rejected, PassAllowed, RetryOffered
  <1>2. OfferInv /\ UNCHANGED vars => OfferInv'
    <2> SUFFICES ASSUME OfferInv, UNCHANGED vars PROVE OfferInv'
      OBVIOUS
    <2>1. UNCHANGED <<batch, row, job, worker, auth>>
      BY DEF vars, store, memory
    <2>2. QED
      BY <2>1 DEF OfferInv, Rejected, PassAllowed, RetryOffered, Active
  <1>3. OfferInv => RetryOffered
    BY DEF OfferInv
  <1>4. CASE ~Enrich
    <2>1. LedgerInv /\ OfferInv /\ [Next]_vars => OfferInv'
      BY <1>2, <1>4, NoFaults, OfferNext
    <2>2. QED
      BY <1>1, <1>3, <2>1, LedgerInvInductive, NoFaults, PTL DEF Spec
  <1>5. Spec /\ PassesSucceed => []RetryOffered
    <2>1. LedgerInv /\ OfferInv /\ [Next]_vars /\ [PassSucceeds]_vars => OfferInv'
      BY <1>2, NoFaults, OfferNext
    <2>2. QED
      BY <1>1, <1>3, <2>1, LedgerInvInductive, NoFaults, PTL DEF Spec, PassesSucceed
  <1>6. QED
    BY <1>4, <1>5

-----------------------------------------------------------------------------
(* The runner keeps the ledger: every step is one of PullLedger, or none *)

\* What the refinement mapping of BatchRunner makes of a batch and of a row.
StateOf(b) == CASE batch[b] = "running"            -> "open"
                [] batch[b] \in {"done", "failed"} -> "closed"
                [] OTHER                           -> batch[b]
LineOf(b, u) == [status |-> IF row[b][u].status \in Resumable THEN "pending" ELSE row[b][u].status,
                 pages  |-> row[b][u].pages]

LedgerStates == [b \in Batches |-> StateOf(b)]
LedgerLines  == [b \in Batches |-> [u \in Uuids |-> LineOf(b, u)]]

LEMMA StateCases ==
  ASSUME TypeOK, NEW b \in Batches
  PROVE  /\ StateOf(b) = "open" <=> batch[b] = "running"
         /\ StateOf(b) = "closed" <=> batch[b] \in {"done", "failed"}
         /\ StateOf(b) = "none" <=> batch[b] = "none"
         /\ StateOf(b) = "purged" <=> batch[b] = "purged"
  <1>1. batch[b] \in BatchStatus
    BY DEF TypeOK
  <1>2. QED
    BY <1>1 DEF StateOf, BatchStatus

LEMMA LineCases ==
  ASSUME TypeOK, NEW b \in Batches, NEW u \in Uuids
  PROVE  /\ LineOf(b, u).status = "pending" <=> Unsettled(b, u)
         /\ LineOf(b, u).status = "failed" <=> row[b][u].status = "failed"
         /\ LineOf(b, u).status = "absent" <=> ~Present(b, u)
         /\ LineOf(b, u).pages = row[b][u].pages
  <1>1. row[b][u] \in Row
    BY DEF TypeOK
  <1>2. QED
    BY <1>1 DEF LineOf, Unsettled, Present, Row, Resumable, Terminal, Kept

\* One line, and one batch, change.
LEMMA OneLine ==
  ASSUME NEW b \in Batches, NEW u \in Uuids,
         \A c \in Batches, v \in Uuids : c # b \/ v # u => row'[c][v] = row[c][v]
  PROVE  LedgerLines' = [LedgerLines EXCEPT ![b][u] = LineOf(b, u)']
  <1>1. \A c \in Batches, v \in Uuids : c # b \/ v # u => LineOf(c, v)' = LineOf(c, v)
    BY DEF LineOf
  <1> DEFINE M == [LedgerLines EXCEPT ![b][u] = LineOf(b, u)']
  <1>2. ASSUME NEW c \in Batches, NEW v \in Uuids PROVE LedgerLines'[c][v] = M[c][v]
    <2>1. LedgerLines'[c][v] = LineOf(c, v)'
      BY DEF LedgerLines
    <2>2. M[c][v] = IF c = b /\ v = u THEN LineOf(b, u)' ELSE LineOf(c, v)
      BY DEF LedgerLines
    <2>3. QED
      BY <1>1, <2>1, <2>2
  <1>3. M = [c \in Batches |-> [v \in Uuids |-> M[c][v]]]
    BY DEF LedgerLines
  <1>4. LedgerLines' = [c \in Batches |-> [v \in Uuids |-> LedgerLines'[c][v]]]
    BY DEF LedgerLines
  <1>5. QED
    BY <1>2, <1>3, <1>4

LEMMA OneState ==
  ASSUME NEW b \in Batches, \A c \in Batches : c # b => batch'[c] = batch[c]
  PROVE  LedgerStates' = [LedgerStates EXCEPT ![b] = StateOf(b)']
  <1>1. \A c \in Batches : c # b => StateOf(c)' = StateOf(c)
    BY DEF StateOf
  <1>2. QED
    BY <1>1 DEF LedgerStates

LEMMA SameStates == ASSUME UNCHANGED batch PROVE LedgerStates' = LedgerStates
  BY DEF LedgerStates, StateOf

LEMMA SameLines == ASSUME UNCHANGED row PROVE LedgerLines' = LedgerLines
  BY DEF LedgerLines, LineOf

LEMMA LedgerVars ==
  ASSUME LedgerStates' = LedgerStates, LedgerLines' = LedgerLines, stored' = stored
  PROVE  UNCHANGED Ledger!vars
  BY DEF Ledger!vars, LedgerStates, LedgerLines, StateOf, LineOf

\* The actions of the ledger, of its states and lines.
LEMMA LedgerEnter ==
  ASSUME NEW b \in Batches, NEW u \in Uuids,
         NEW status \in {"pending", "done", "no_events"}, NEW events \in BOOLEAN,
         LedgerStates[b] = "open", LedgerLines[b][u].status = "pending",
         status = "pending" => events,
         status = "no_events" => LedgerLines[b][u].pages + 1 = 1 /\ ~events,
         LedgerLines' = [LedgerLines EXCEPT ![b][u] =
                           [status |-> status, pages |-> LedgerLines[b][u].pages + 1]],
         stored' = [stored EXCEPT ![u] =
                      IF events THEN @ \cup {LedgerLines[b][u].pages + 1} ELSE @],
         LedgerStates' = LedgerStates
  PROVE  Ledger!Next
  <1>1. Ledger!Enter(b, u, status, events)
    BY DEF Ledger!Enter, Ledger!Pending, LedgerStates, LedgerLines, StateOf, LineOf
  <1>2. QED
    BY <1>1 DEF Ledger!Next

LEMMA LedgerConclude ==
  ASSUME NEW b \in Batches, NEW u \in Uuids, NEW status \in {"no_events", "unknown", "failed"},
         LedgerStates[b] = "open", LedgerLines[b][u].status = "pending",
         LedgerLines' = [LedgerLines EXCEPT ![b][u].status = status],
         stored' = stored, LedgerStates' = LedgerStates
  PROVE  Ledger!Next
  <1>1. Ledger!Conclude(b, u, status)
    BY DEF Ledger!Conclude, Ledger!Pending, LedgerStates, LedgerLines, StateOf, LineOf
  <1>2. QED
    BY <1>1 DEF Ledger!Next

LEMMA LedgerTakeUp ==
  ASSUME NEW b \in Batches, NEW u \in Uuids,
         LedgerStates[b] = "open", LedgerLines[b][u].status = "failed",
         LedgerLines' = [LedgerLines EXCEPT ![b][u].status = "pending"],
         stored' = stored, LedgerStates' = LedgerStates
  PROVE  Ledger!Next
  <1>1. Ledger!TakeUp(b, u)
    BY DEF Ledger!TakeUp, LedgerStates, LedgerLines, StateOf, LineOf
  <1>2. QED
    BY <1>1 DEF Ledger!Next

LEMMA LedgerCloseReopen ==
  ASSUME NEW b \in Batches,
         \/ /\ LedgerStates[b] = "open" /\ \A u \in Uuids : LedgerLines[b][u].status # "pending"
            /\ LedgerStates' = [LedgerStates EXCEPT ![b] = "closed"]
         \/ /\ LedgerStates[b] = "closed"
            /\ LedgerStates' = [LedgerStates EXCEPT ![b] = "open"],
         stored' = stored, LedgerLines' = LedgerLines
  PROVE  Ledger!Next
  <1>1. Ledger!Close(b) \/ Ledger!Reopen(b)
    BY DEF Ledger!Close, Ledger!Reopen, Ledger!Pending, LedgerStates, LedgerLines, StateOf, LineOf
  <1>2. QED
    BY <1>1 DEF Ledger!Next

LEMMA LedgerCreate ==
  ASSUME NEW b \in Batches, NEW us \in SUBSET Uuids \ {{}},
         LedgerStates[b] = "none",
         LedgerStates' = [LedgerStates EXCEPT ![b] = "open"],
         LedgerLines' = [LedgerLines EXCEPT ![b] =
            [u \in Uuids |-> IF u \in us THEN [status |-> "pending", pages |-> 0]
                             ELSE [status |-> "absent", pages |-> 0]]],
         stored' = stored
  PROVE  Ledger!Next
  <1>1. [Ledger!NoLine EXCEPT !.status = "pending"] = [status |-> "pending", pages |-> 0]
    BY DEF Ledger!NoLine
  <1>2. Ledger!Create(b, us)
    BY <1>1 DEF Ledger!Create, Ledger!NoLine, LedgerStates, LedgerLines, StateOf, LineOf
  <1>3. QED
    BY <1>2 DEF Ledger!Next

LEMMA LedgerPurge ==
  ASSUME NEW b \in Batches,
         LedgerStates[b] \in {"open", "closed"},
         LedgerStates' = [LedgerStates EXCEPT ![b] = "purged"],
         LedgerLines' = [LedgerLines EXCEPT ![b] =
            [u \in Uuids |-> [status |-> "absent", pages |-> 0]]],
         stored' = [u \in Uuids |->
            IF /\ LedgerLines[b][u].status # "absent"
               /\ \A c \in Batches \ {b} : ~(LedgerLines[c][u].status # "absent")
            THEN {} ELSE stored[u]]
  PROVE  Ledger!Next
  <1>1. Ledger!Purge(b)
    BY DEF Ledger!Purge, Ledger!NoLine, Ledger!Listed, LedgerStates, LedgerLines, StateOf, LineOf
  <1>2. QED
    BY <1>1 DEF Ledger!Next

-----------------------------------------------------------------------------
(* Every step of the runner, seen through the mapping *)

\* A row that changes its status and nothing else.
LEMMA LineStatus ==
  ASSUME NEW b \in Batches, NEW u \in Uuids, NEW status,
         \A c \in Batches, v \in Uuids : c # b \/ v # u => row'[c][v] = row[c][v],
         LineOf(b, u)' = [status |-> status, pages |-> row[b][u].pages]
  PROVE  LedgerLines' = [LedgerLines EXCEPT ![b][u].status = status]
  <1>1. LedgerLines' = [LedgerLines EXCEPT ![b][u] = LineOf(b, u)']
    BY OneLine
  <1>2. LedgerLines[b][u] = LineOf(b, u)
    BY DEF LedgerLines
  <1>3. [LineOf(b, u) EXCEPT !.status = status] = [status |-> status, pages |-> row[b][u].pages]
    BY DEF LineOf
  <1>4. [LedgerLines EXCEPT ![b][u].status = status]
          = [LedgerLines EXCEPT ![b][u] = [LineOf(b, u) EXCEPT !.status = status]]
    BY <1>2
  <1>5. QED
    BY <1>1, <1>3, <1>4

\* A row that changes in nothing the ledger shows.
LEMMA KeptLine ==
  ASSUME NEW b \in Batches, NEW u \in Uuids,
         \A c \in Batches, v \in Uuids : c # b \/ v # u => row'[c][v] = row[c][v],
         LineOf(b, u)' = LineOf(b, u)
  PROVE  LedgerLines' = LedgerLines
  <1>1. ASSUME NEW c \in Batches, NEW v \in Uuids PROVE LedgerLines'[c][v] = LedgerLines[c][v]
    <2>1. LedgerLines'[c][v] = LineOf(c, v)' /\ LedgerLines[c][v] = LineOf(c, v)
      BY DEF LedgerLines
    <2>2. c # b \/ v # u => LineOf(c, v)' = LineOf(c, v)
      BY DEF LineOf
    <2>3. QED
      BY <2>1, <2>2
  <1>2. LedgerLines = [c \in Batches |-> [v \in Uuids |-> LedgerLines[c][v]]]
    BY DEF LedgerLines
  <1>3. LedgerLines' = [c \in Batches |-> [v \in Uuids |-> LedgerLines'[c][v]]]
    BY DEF LedgerLines
  <1>4. QED
    BY <1>1, <1>2, <1>3

\* What a write of the status, or of a page, makes of the line.
LEMMA WrittenLine ==
  ASSUME NEW b \in Batches, NEW u \in Uuids, row[b][u] \in Row,
         NEW status, NewStatus(b, u, status)
  PROVE  LineOf(b, u)' = [status |-> IF status \in Resumable THEN "pending" ELSE status,
                          pages  |-> row[b][u].pages]
  <1>1. row'[b][u].status = status /\ row'[b][u].pages = row[b][u].pages
    BY DEF NewStatus, Row
  <1>2. QED
    BY <1>1 DEF LineOf

LEMMA WorkerImplements ==
  ASSUME LedgerInv, NEW b \in Batches, NEW g \in Generations, NEW u \in Uuids,
         LedgerEffect(b, g, u)
  PROVE  [Ledger!Next]_(Ledger!vars)
  <1>0. TypeOK /\ row[b][u] \in Row
    BY DEF LedgerInv, ConfInv, BookInv, TypeOK
  <1>1. /\ batch[b] = "running"
        /\ row[b][u].status \in TakenUp(TRUE)
    BY DEF LedgerEffect, LedgerInv, ConfInv, WorkersConfined, RowsInv, GatherRuns, InHand
  <1>2. LedgerStates' = LedgerStates /\ LedgerStates[b] = "open"
    BY <1>1, SameStates DEF LedgerEffect, LedgerStates, StateOf
  <1>3. \A c \in Batches, v \in Uuids : c # b \/ v # u => row'[c][v] = row[c][v]
    BY DEF LedgerEffect, OthersKept
  <1>4. /\ LedgerLines[b][u].pages = row[b][u].pages
        /\ Unsettled(b, u) => LedgerLines[b][u].status = "pending"
        /\ row[b][u].status = "failed" => LedgerLines[b][u].status = "failed"
    BY <1>0, LineCases DEF LedgerLines
  <1>5. Unsettled(b, u) \/ row[b][u].status = "failed"
    BY <1>1 DEF Unsettled, TakenUp
  <1>6. CASE GoesOn(b, g, u)
    <2>1. LineOf(b, u)' = [status |-> "pending", pages |-> row[b][u].pages]
      BY <1>0, <1>6, WrittenLine DEF GoesOn
    <2>2. LedgerLines' = [LedgerLines EXCEPT ![b][u].status = "pending"]
      BY <1>3, <2>1, LineStatus
    <2>3. CASE Unsettled(b, u)
      <3>1. LineOf(b, u)' = LineOf(b, u)
        BY <2>1, <2>3 DEF LineOf, Unsettled
      <3>2. LedgerLines' = LedgerLines
        BY <1>3, <3>1, KeptLine
      <3>3. QED
        BY <1>2, <1>6, <3>2, LedgerVars DEF GoesOn
    <2>4. CASE row[b][u].status = "failed"
      BY <1>2, <1>4, <1>6, <2>2, <2>4, LedgerTakeUp DEF GoesOn
    <2>5. QED
      BY <1>5, <2>3, <2>4
  <1>7. CASE Settles(b, g, u)
    <2>1. PICK status \in {"no_events", "unknown", "failed"} :
            NewStatus(b, u, status) /\ (status = "failed" \/ Unsettled(b, u))
      BY <1>7 DEF Settles
    <2>2. LineOf(b, u)' = [status |-> status, pages |-> row[b][u].pages]
      BY <1>0, <2>1, WrittenLine DEF Resumable
    <2>3. CASE Unsettled(b, u)
      <3>1. LedgerLines' = [LedgerLines EXCEPT ![b][u].status = status]
        BY <1>3, <2>2, LineStatus
      <3>2. QED
        BY <1>2, <1>4, <1>7, <2>3, <3>1, LedgerConclude DEF Settles
    <2>4. CASE status = "failed" /\ row[b][u].status = "failed"
      <3>1. LineOf(b, u)' = LineOf(b, u)
        BY <2>2, <2>4 DEF LineOf, Resumable
      <3>2. LedgerLines' = LedgerLines
        BY <1>3, <3>1, KeptLine
      <3>3. QED
        BY <1>2, <1>7, <3>2, LedgerVars DEF Settles
    <2>5. QED
      BY <1>5, <2>1, <2>3, <2>4
  <1>8. CASE Commits(b, g, u)
    <2> DEFINE page == row[b][u].pages + 1
    <2>1. PICK status \in {"fetching", "done", "no_events"}, events \in BOOLEAN :
            /\ row'[b][u] = [status |-> status, pages |-> page, more |-> status = "fetching"]
            /\ stored' = [stored EXCEPT ![u] = IF events THEN @ \cup {page} ELSE @]
            /\ status = "no_events" => page = 1 /\ ~events
            /\ status = "fetching" => events
      BY <1>8 DEF Commits
    <2> DEFINE verdict == IF status = "fetching" THEN "pending" ELSE status
    <2>2. LineOf(b, u)' = [status |-> verdict, pages |-> page]
      BY <2>1 DEF LineOf, Resumable
    <2>3. LedgerLines' = [LedgerLines EXCEPT ![b][u] = [status |-> verdict, pages |-> page]]
      BY <1>3, <2>2, OneLine
    <2>4. /\ verdict \in {"pending", "done", "no_events"}
          /\ verdict = "pending" => events
          /\ verdict = "no_events" => page = 1 /\ ~events
      BY <2>1
    <2>5. page = LedgerLines[b][u].pages + 1
      BY <1>4
    <2>6. LedgerLines[b][u].status = "pending"
      BY <1>4, <1>8 DEF Commits
    <2> HIDE DEF page, verdict
    <2>7. /\ stored' = [stored EXCEPT ![u] =
                          IF events THEN @ \cup {LedgerLines[b][u].pages + 1} ELSE @]
          /\ LedgerLines' = [LedgerLines EXCEPT ![b][u] =
                               [status |-> verdict, pages |-> LedgerLines[b][u].pages + 1]]
      BY <2>1, <2>3, <2>5
    <2>8. Ledger!Next
      BY <1>2, <2>4, <2>5, <2>6, <2>7, LedgerEnter
    <2>9. QED
      BY <2>8
  <1>9. QED
    BY <1>6, <1>7, <1>8 DEF LedgerEffect

\* A restart keeps what is committed, and the first of two writes is a step of
\* the ledger by itself.
LEMMA RestartImplements ==
  ASSUME LedgerInv,
         Crash \/ \E b \in Batches, g \in Generations, u \in Uuids, r \in Responses :
                    CrashBetweenWrites(b, g, u, r)
  PROVE  [Ledger!Next]_(Ledger!vars)
  <1>0. TypeOK
    BY DEF LedgerInv, ConfInv, BookInv
  <1>1. CASE Crash
    <2>1. UNCHANGED <<batch, row, stored>>
      BY <1>1 DEF Crash, store
    <2>2. QED
      BY <2>1, SameStates, SameLines, LedgerVars
  <1>2. ASSUME NEW b \in Batches, NEW g \in Generations, NEW u \in Uuids, NEW r \in Responses,
               CrashBetweenWrites(b, g, u, r)
        PROVE  [Ledger!Next]_(Ledger!vars)
    <2>1. /\ batch[b] = "running" /\ Unsettled(b, u)
          /\ UNCHANGED <<batch, stored>>
          /\ \A c \in Batches, v \in Uuids : c # b \/ v # u => row'[c][v] = row[c][v]
          /\ \/ row[b][u].pages = 0 /\ row'[b][u] = [status |-> "done", pages |-> 1, more |-> FALSE]
             \/ NewStatus(b, u, "paused")
      BY <1>2, BetweenWrites
    <2>2. LedgerStates' = LedgerStates /\ LedgerStates[b] = "open"
      BY <2>1, SameStates DEF LedgerStates, StateOf
    <2>3. CASE NewStatus(b, u, "paused")
      <3>1. row[b][u] \in Row
        BY <1>0 DEF TypeOK
      <3>2. LineOf(b, u)' = [status |-> "pending", pages |-> row[b][u].pages]
        BY <2>3, <3>1, WrittenLine DEF Resumable
      <3>3. LineOf(b, u)' = LineOf(b, u)
        BY <2>1, <3>2 DEF LineOf, Unsettled
      <3>4. QED
        BY <2>1, <2>2, <3>3, KeptLine, LedgerVars
    <2>4. CASE row[b][u].pages = 0 /\ row'[b][u] = [status |-> "done", pages |-> 1, more |-> FALSE]
      <3>1. LineOf(b, u)' = [status |-> "done", pages |-> 1]
        BY <2>4 DEF LineOf, Resumable
      <3>2. LedgerLines[b][u].status = "pending" /\ LedgerLines[b][u].pages = 0
        BY <1>0, <2>1, <2>4, LineCases DEF LedgerLines
      <3>3. LedgerLines' = [LedgerLines EXCEPT ![b][u] =
                              [status |-> "done", pages |-> LedgerLines[b][u].pages + 1]]
        BY <2>1, <3>1, <3>2, OneLine
      <3>4. stored' = [stored EXCEPT ![u] =
                         IF FALSE THEN @ \cup {LedgerLines[b][u].pages + 1} ELSE @]
        BY <1>0, <2>1 DEF TypeOK
      <3>5. Ledger!Next
        BY <2>2, <3>2, <3>3, <3>4, LedgerEnter
      <3>6. QED
        BY <3>5
    <2>5. QED
      BY <2>1, <2>3, <2>4
  <1>3. QED
    BY <1>1, <1>2

\* The rows of one batch change.
LEMMA OneBatch ==
  ASSUME NEW b \in Batches, \A c \in Batches : c # b => row'[c] = row[c]
  PROVE  LedgerLines' = [LedgerLines EXCEPT ![b] = [u \in Uuids |-> LineOf(b, u)']]
  <1> DEFINE M == [LedgerLines EXCEPT ![b] = [u \in Uuids |-> LineOf(b, u)']]
  <1>1. ASSUME NEW c \in Batches, NEW v \in Uuids PROVE LedgerLines'[c][v] = M[c][v]
    <2>1. LedgerLines'[c][v] = LineOf(c, v)'
      BY DEF LedgerLines
    <2>2. M[c][v] = IF c = b THEN LineOf(b, v)' ELSE LineOf(c, v)
      BY DEF LedgerLines
    <2>3. c # b => LineOf(c, v)' = LineOf(c, v)
      BY DEF LineOf
    <2>4. QED
      BY <2>1, <2>2, <2>3
  <1>2. M = [c \in Batches |-> [v \in Uuids |-> M[c][v]]]
    BY DEF LedgerLines
  <1>3. LedgerLines' = [c \in Batches |-> [v \in Uuids |-> LedgerLines'[c][v]]]
    BY DEF LedgerLines
  <1>4. QED
    BY <1>1, <1>2, <1>3

LEMMA UserImplements ==
  ASSUME LedgerInv, NEW b \in Batches, UserStep(b)
  PROVE  [Ledger!Next]_(Ledger!vars)
  <1>0. TypeOK
    BY DEF LedgerInv, ConfInv, BookInv
  <1>1. ASSUME NEW us \in SUBSET Uuids \ {{}}, CreateBatch(b, us)
        PROVE  [Ledger!Next]_(Ledger!vars)
    <2>1. /\ \A c \in Batches : c # b => batch'[c] = batch[c] /\ row'[c] = row[c]
          /\ batch[b] = "none" /\ batch'[b] = "running" /\ stored' = stored
          /\ \A u \in Uuids : row'[b][u] = IF u \in us THEN QueuedRow ELSE NoRow
      BY <1>0, <1>1 DEF CreateBatch, TypeOK
    <2>2. StateOf(b)' = "open" /\ LedgerStates[b] = "none"
      BY <2>1 DEF StateOf, LedgerStates
    <2>3. \A u \in Uuids : LineOf(b, u)' = IF u \in us THEN [status |-> "pending", pages |-> 0]
                                           ELSE [status |-> "absent", pages |-> 0]
      BY <2>1 DEF LineOf, QueuedRow, NoRow, Resumable
    <2>4. [u \in Uuids |-> LineOf(b, u)']
            = [u \in Uuids |-> IF u \in us THEN [status |-> "pending", pages |-> 0]
                               ELSE [status |-> "absent", pages |-> 0]]
      BY <2>3
    <2>5. LedgerStates' = [LedgerStates EXCEPT ![b] = "open"]
      BY <2>1, <2>2, OneState
    <2>6. LedgerLines' = [LedgerLines EXCEPT ![b] =
            [u \in Uuids |-> IF u \in us THEN [status |-> "pending", pages |-> 0]
                             ELSE [status |-> "absent", pages |-> 0]]]
      BY <2>1, <2>4, OneBatch
    <2>7. Ledger!Next
      BY <2>1, <2>2, <2>5, <2>6, LedgerCreate
    <2>8. QED
      BY <2>7
  <1>2. CASE OpenPage(b) \/ Retry(b)
    <2>1. UNCHANGED <<batch, row, stored>>
      BY <1>2 DEF OpenPage, Retry, store
    <2>2. QED
      BY <2>1, SameStates, SameLines, LedgerVars
  <1>3. CASE Purge(b)
    <2>1. /\ \A c \in Batches : c # b => batch'[c] = batch[c] /\ row'[c] = row[c]
          /\ Exists(b) /\ batch'[b] = "purged"
          /\ \A u \in Uuids : row'[b][u] = NoRow
          /\ stored' = [u \in Uuids |-> IF u \in Orphans(b) THEN {} ELSE stored[u]]
      BY <1>0, <1>3 DEF Purge, PurgeStore, TypeOK
    <2>2. StateOf(b)' = "purged"
      BY <2>1 DEF StateOf
    <2>3. LedgerStates[b] \in {"open", "closed"}
      BY <1>0, <2>1 DEF LedgerStates, StateOf, Exists, TypeOK, BatchStatus
    <2>4. \A u \in Uuids : LineOf(b, u)' = [status |-> "absent", pages |-> 0]
      BY <2>1 DEF LineOf, NoRow, Resumable
    <2>5. [u \in Uuids |-> LineOf(b, u)'] = [u \in Uuids |-> [status |-> "absent", pages |-> 0]]
      BY <2>4
    <2>6. LedgerStates' = [LedgerStates EXCEPT ![b] = "purged"]
      BY <2>1, <2>2, OneState
    <2>7. LedgerLines' = [LedgerLines EXCEPT ![b] =
                            [u \in Uuids |-> [status |-> "absent", pages |-> 0]]]
      BY <2>1, <2>5, OneBatch
    <2>8. \A c \in Batches, u \in Uuids : LedgerLines[c][u].status # "absent" <=> Present(c, u)
      BY <1>0, LineCases DEF LedgerLines
    <2>9. \A u \in Uuids :
            u \in Orphans(b) <=> /\ LedgerLines[b][u].status # "absent"
                                 /\ \A c \in Batches \ {b} : ~(LedgerLines[c][u].status # "absent")
      BY <2>8 DEF Orphans
    <2>10. stored' = [u \in Uuids |->
             IF /\ LedgerLines[b][u].status # "absent"
                /\ \A c \in Batches \ {b} : ~(LedgerLines[c][u].status # "absent")
             THEN {} ELSE stored[u]]
      BY <2>1, <2>9
    <2>11. Ledger!Next
      BY <2>3, <2>6, <2>7, <2>10, LedgerPurge
    <2>12. QED
      BY <2>11
  <1>4. QED
    BY <1>1, <1>2, <1>3 DEF UserStep

\* A task moves the status of its batch and touches no row; it ends a running
\* batch only when every row has its verdict.
LEMMA StatusImplements ==
  ASSUME TypeOK, TypeOK', NEW b \in Batches,
         UNCHANGED <<row, stored>>,
         \A c \in Batches : c # b => batch'[c] = batch[c],
         batch[b] \in {"none", "purged"} => batch'[b] = batch[b],
         batch[b] \notin {"none", "purged"} => batch'[b] \in {"running", "done", "failed"},
         batch'[b] \in {"done", "failed"} => \A u \in Uuids : ~Unsettled(b, u)
  PROVE  [Ledger!Next]_(Ledger!vars)
  <1>1. LedgerLines' = LedgerLines
    BY SameLines
  <1>2. LedgerStates' = [LedgerStates EXCEPT ![b] = StateOf(b)']
    BY OneState
  <1>3. LedgerStates[b] = StateOf(b)
    BY DEF LedgerStates
  <1>4. CASE StateOf(b)' = StateOf(b)
    <2>1. LedgerStates' = LedgerStates
      BY <1>2, <1>3, <1>4 DEF LedgerStates
    <2>2. QED
      BY <1>1, <2>1, LedgerVars
  <1>5. CASE StateOf(b)' # StateOf(b)
    <2>1. \/ StateOf(b) = "open" /\ StateOf(b)' = "closed" /\ batch'[b] \in {"done", "failed"}
          \/ StateOf(b) = "closed" /\ StateOf(b)' = "open"
      BY <1>5 DEF StateOf, TypeOK, BatchStatus
    <2>2. batch'[b] \in {"done", "failed"} =>
            \A u \in Uuids : LedgerLines[b][u].status # "pending"
      BY LineCases DEF LedgerLines
    <2>3. Ledger!Next
      BY <1>1, <1>2, <1>3, <2>1, <2>2, LedgerCloseReopen
    <2>4. QED
      BY <2>3
  <1>6. QED
    BY <1>4, <1>5

LEMMA TaskImplements ==
  ASSUME LedgerInv, LedgerInv', NEW b \in Batches, TaskStep(b)
  PROVE  [Ledger!Next]_(Ledger!vars)
  <1>0. TypeOK /\ TypeOK' /\ job[b] \in Job
    BY JobTyped DEF LedgerInv, ConfInv, BookInv
  <1>1. UNCHANGED <<row, stored>> /\ \A c \in Batches : c # b => batch'[c] = batch[c]
    BY <1>0, TaskStepEffect
  \* SettledRows holds after the step, which has changed no row.
  <1>2. batch'[b] \in {"done", "failed"} => \A u \in Uuids : ~Unsettled(b, u)
    BY <1>1 DEF LedgerInv, RowsInv, SettledRows, Unsettled, Terminal, Kept, Resumable
  <1>3. /\ batch[b] \in {"none", "purged"} => batch'[b] = batch[b]
        /\ batch[b] \notin {"none", "purged"} =>
             batch'[b] \in {"running", "done", "failed"} \cup {batch[b]}
    <2>1. ASSUME NEW authFailed \in BOOLEAN, AfterGather(b, authFailed)
          PROVE  /\ batch[b] \in {"none", "purged"} => batch'[b] = batch[b]
                 /\ batch[b] \notin {"none", "purged"} => batch'[b] \in {"running", "done", "failed"}
      BY <2>1, RowsAfterGather
    <2>2. ASSUME NEW status, SetBatch(b, status)
          PROVE  batch'[b] = IF batch[b] \in {"none", "purged"} THEN batch[b] ELSE status
      BY <1>0, <2>2 DEF SetBatch, TypeOK
    <2>3. CASE RunStart(b)
      BY <2>1, <2>2, <2>3 DEF RunStart
    <2>4. CASE GatherDone(b)
      <3>1. auth[b][job[b].run] \in BOOLEAN
        BY <1>0 DEF TypeOK, Job
      <3>2. QED
        BY <2>1, <2>4, <3>1 DEF GatherDone
    <2>5. CASE EnrichDone(b) \/ RunRaised(b)
      BY <2>2, <2>5 DEF EnrichDone, RunRaised
    <2>6. CASE Cancelled(b)
      BY <2>6 DEF Cancelled, store
    <2>7. QED
      BY <2>3, <2>4, <2>5, <2>6, TaskStep(b) DEF TaskStep
  <1>4. batch[b] \notin {"none", "purged"} => batch'[b] \in {"running", "done", "failed"}
    BY <1>0, <1>3 DEF TypeOK, BatchStatus
  <1>5. QED
    BY <1>0, <1>1, <1>2, <1>3, <1>4, StatusImplements

\* The runner keeps the ledger, whatever the answers, restarts, retries and
\* purges: page after page with its events, no verdict taken back but "failed",
\* no batch closed over a pending line, no event taken that somebody still
\* lists (jobs.py with insert_events_page and purge_batch of db.py).
THEOREM ImplementsLedger == ASSUME NoFaults PROVE Spec => KeepsLedger
  <1>1. Init => Ledger!Init
    <2> SUFFICES ASSUME Init PROVE Ledger!Init
      OBVIOUS
    <2>1. LedgerStates = [b \in Batches |-> "none"] /\ stored = [u \in Uuids |-> {}]
      BY DEF Init, LedgerStates, StateOf
    <2>2. \A b \in Batches, u \in Uuids : LineOf(b, u) = [status |-> "absent", pages |-> 0]
      BY DEF Init, NoRow, LineOf, Resumable
    <2>3. LedgerLines = [b \in Batches |-> [u \in Uuids |-> [status |-> "absent", pages |-> 0]]]
      BY <2>2 DEF LedgerLines
    <2>4. QED
      BY <2>1, <2>3 DEF Ledger!Init, Ledger!NoLine, LedgerStates, LedgerLines, StateOf, LineOf
  <1>2. LedgerInv /\ LedgerInv' /\ [Next]_vars => [Ledger!Next]_(Ledger!vars)
    <2> SUFFICES ASSUME LedgerInv, LedgerInv', [Next]_vars PROVE [Ledger!Next]_(Ledger!vars)
      OBVIOUS
    <2>1. CASE Next
      <3>1. ASSUME NEW b \in Batches, NEW g \in Generations, NEW u \in Uuids, WorkerStep(b, g, u)
            PROVE  [Ledger!Next]_(Ledger!vars)
        BY <3>1, NoFaults, WorkerStepLedger, WorkerImplements
      <3>2. QED
        BY <2>1, <3>1, UserImplements, TaskImplements, RestartImplements DEF Next
    <2>2. CASE UNCHANGED vars
      <3>1. UNCHANGED <<batch, row, stored>>
        BY <2>2 DEF vars, store
      <3>2. QED
        BY <3>1, SameStates, SameLines, LedgerVars
    <2>3. QED
      BY <2>1, <2>2
  <1>3. QED
    BY <1>1, <1>2, LedgerInvInductive, NoFaults, PTL DEF Spec, KeepsLedger, Ledger!Spec

=============================================================================

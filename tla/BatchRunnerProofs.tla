-------------------------- MODULE BatchRunnerProofs --------------------------
(***************************************************************************)
(* Theorems about BatchRunner for every set of batches, accounts and       *)
(* answers and every value of the limits.                                  *)
(*                                                                         *)
(* The argument: types; then that a batch not created yet has nothing that *)
(* could act for it and that a worker only ever asks for the page after    *)
(* pages that are stored, which gives CommittedPagesStored; then, when no  *)
(* answer makes a worker raise, that workers are confined to the gather of *)
(* their run, which gives NoOrphanEvents.                                  *)
(***************************************************************************)
EXTENDS BatchRunner, TLAPS

Assumptions == /\ Responses \subseteq Response
               /\ GhConcurrency \in Nat \ {0}
               /\ DefaultRetryAfter \in Nat \ {0}
               /\ MaxCrashes \in Nat
               /\ MaxGenerations \in Nat \ {0}

LEMMA ConstantsTyped == Assumptions
  BY ResponsesAssumption, SettingsAssumption, LimitsAssumption, BoundsAssumption DEF Assumptions

-----------------------------------------------------------------------------
(* Types *)

LEMMA RecordsTyped ==
  /\ Idle \in Worker /\ Waiting \in Worker
  /\ NoRow \in Row /\ QueuedRow \in Row
  /\ NoJob \in Job
  <1>1. 1 \in Generations
    BY BoundsAssumption DEF Generations
  <1>2. QED
    BY <1>1 DEF Idle, Waiting, Worker, NoRow, QueuedRow, Row, Resumable, Terminal, Kept, NoJob, Job, Task

\* What a wait can be: a whole number of seconds, never negative.
LEMMA WaitTyped ==
  ASSUME NEW r \in Responses
  PROVE  Wait(r.retryAfter, DefaultRetryAfter) \in Nat
  BY ConstantsTyped DEF Assumptions, Response, Wait

\* One entry of each table.
LEMMA EntriesTyped ==
  ASSUME TypeOK, NEW b \in Batches, NEW g \in Generations, NEW u \in Uuids
  PROVE  /\ row[b][u] \in Row
         /\ worker[b][g][u] \in Worker
  BY DEF TypeOK

LEMMA JobTyped == ASSUME TypeOK, NEW b \in Batches PROVE job[b] \in Job
  BY DEF TypeOK

\* The helpers that write one variable keep its type.
LEMMA SetRowTyped ==
  ASSUME TypeOK, NEW b \in Batches, NEW u \in Uuids,
         NEW status \in Resumable \cup Terminal, SetRow(b, u, status)
  PROVE  row' \in [Batches -> [Uuids -> Row]]
  <1>1. row[b][u] \in Row
    BY DEF TypeOK
  <1>2. WithStatus(row[b][u], status) \in Row
    BY <1>1 DEF WithStatus, Row
  <1>3. QED
    BY <1>2 DEF TypeOK, SetRow

LEMMA SetBatchTyped ==
  ASSUME TypeOK, NEW b \in Batches, NEW status \in BatchStatus, SetBatch(b, status)
  PROVE  batch' \in [Batches -> BatchStatus]
  BY DEF TypeOK, SetBatch

LEMMA StepWorkerTyped ==
  ASSUME TypeOK, NEW b \in Batches, NEW g \in Generations, NEW u \in Uuids,
         NEW w \in Worker, StepWorker(b, g, u, w)
  PROVE  worker' \in [Batches -> [Generations -> [Uuids -> Worker]]]
  BY DEF TypeOK, StepWorker

LEMMA EndWorkerTyped ==
  ASSUME TypeOK, NEW b \in Batches, NEW g \in Generations, NEW u \in Uuids, EndWorker(b, g, u)
  PROVE  worker' \in [Batches -> [Generations -> [Uuids -> Worker]]]
  BY StepWorkerTyped, RecordsTyped DEF EndWorker

LEMMA SettleTyped ==
  ASSUME TypeOK, NEW b \in Batches, NEW g \in Generations, NEW u \in Uuids,
         NEW status \in Resumable \cup Terminal, Settle(b, g, u, status)
  PROVE  /\ row' \in [Batches -> [Uuids -> Row]]
         /\ worker' \in [Batches -> [Generations -> [Uuids -> Worker]]]
  BY SetRowTyped, EndWorkerTyped DEF Settle

\* A job record with another task, phase or flag is a job record.
LEMMA JobFieldsTyped ==
  ASSUME NEW j \in Job, NEW task \in Task, NEW phase \in {"fetching", "enriching", "done"}
  PROVE  /\ [j EXCEPT !.task = task] \in Job
         /\ [j EXCEPT !.task = task, !.retry = FALSE] \in Job
         /\ [j EXCEPT !.task = task, !.phase = phase, !.done = TRUE] \in Job
         /\ [j EXCEPT !.task = task, !.phase = phase, !.retry = FALSE] \in Job
  BY DEF Job

LEMMA EndJobTyped ==
  ASSUME TypeOK, NEW b \in Batches, NEW phase \in {"fetching", "enriching", "done"}, EndJob(b, phase)
  PROVE  job' \in [Batches -> Job]
  <1>1. [job[b] EXCEPT !.task = "ended", !.phase = phase, !.done = TRUE] \in Job
    BY JobTyped, JobFieldsTyped DEF Task
  <1>2. job' = [job EXCEPT ![b] = [job[b] EXCEPT !.task = "ended", !.phase = phase, !.done = TRUE]]
    BY DEF EndJob
  <1>3. QED
    BY <1>1, <1>2 DEF TypeOK

LEMMA StartTyped ==
  ASSUME TypeOK, NEW b \in Batches, NEW task \in Task, NEW retry \in BOOLEAN, Start(b, task, retry)
  PROVE  job' \in [Batches -> Job]
  <1>1. PICK g \in Generations :
          job' = [job EXCEPT ![b] = [NoJob EXCEPT !.task = task, !.run = g, !.retry = retry]]
    BY DEF Start
  <1>2. [NoJob EXCEPT !.task = task, !.run = g, !.retry = retry] \in Job
    BY DEF NoJob, Job
  <1>3. QED
    BY <1>1, <1>2 DEF TypeOK

LEMMA InsertPageTyped ==
  ASSUME TypeOK, NEW b \in Batches, NEW u \in Uuids, NEW page \in Nat,
         NEW events \in BOOLEAN, NEW more \in BOOLEAN,
         NEW status \in Resumable \cup Terminal, InsertPage(b, u, page, events, more, status)
  PROVE  /\ row' \in [Batches -> [Uuids -> Row]]
         /\ stored' \in [Uuids -> SUBSET Nat]
  <1>1. [status |-> status, pages |-> page, more |-> more] \in Row
    BY DEF Row
  <1>2. row' \in [Batches -> [Uuids -> Row]]
    BY <1>1 DEF TypeOK, InsertPage
  <1>3. QED
    BY <1>2 DEF TypeOK, InsertPage

LEMMA MemoryLostTyped ==
  ASSUME TypeOK, MemoryLost
  PROVE  /\ job' \in [Batches -> Job]
         /\ worker' \in [Batches -> [Generations -> [Uuids -> Worker]]]
         /\ auth' \in [Batches -> [Generations -> BOOLEAN]]
         /\ crashes' \in 0 .. MaxCrashes
  BY RecordsTyped, ConstantsTyped DEF TypeOK, MemoryLost, Assumptions

LEMMA AfterGatherTyped ==
  ASSUME TypeOK, NEW b \in Batches, NEW authFailed \in BOOLEAN, AfterGather(b, authFailed)
  PROVE  /\ job' \in [Batches -> Job]
         /\ batch' \in [Batches -> BatchStatus]
  <1>1. job[b].phase \in {"fetching", "enriching", "done"}
    BY JobTyped DEF Job
  <1>2. "failed" \in BatchStatus /\ "running" \in BatchStatus /\ "done" \in BatchStatus
    BY DEF BatchStatus
  <1>3. CASE SetBatch(b, "failed") /\ EndJob(b, job[b].phase)
    BY <1>1, <1>2, <1>3, EndJobTyped, SetBatchTyped
  <1>4. CASE /\ job' = [job EXCEPT ![b].task = "enrich", ![b].phase = "enriching", ![b].retry = FALSE]
             /\ SetBatch(b, "running")
    <2>1. [job[b] EXCEPT !.task = "enrich", !.phase = "enriching", !.retry = FALSE] \in Job
      BY JobTyped, JobFieldsTyped DEF Task
    <2>2. job' = [job EXCEPT ![b] =
                    [job[b] EXCEPT !.task = "enrich", !.phase = "enriching", !.retry = FALSE]]
      BY <1>4
    <2>3. QED
      BY <1>2, <1>4, <2>1, <2>2, SetBatchTyped DEF TypeOK
  <1>5. CASE SetBatch(b, "done") /\ EndJob(b, "done")
    BY <1>2, <1>5, EndJobTyped, SetBatchTyped
  <1>6. QED
    BY <1>3, <1>4, <1>5 DEF AfterGather

LEMMA UserStepTyped ==
  ASSUME TypeOK, NEW b \in Batches, UserStep(b)
  PROVE  TypeOK'
  <1>1. ASSUME NEW us \in SUBSET Uuids, CreateBatch(b, us) PROVE TypeOK'
    <2>1. "running" \in BatchStatus /\ "created" \in Task
      BY DEF BatchStatus, Task
    <2>2. job' \in [Batches -> Job]
      BY <1>1, <2>1, StartTyped DEF CreateBatch
    <2>3. row' \in [Batches -> [Uuids -> Row]]
      BY <1>1, RecordsTyped DEF TypeOK, CreateBatch
    <2>4. QED
      BY <1>1, <2>1, <2>2, <2>3 DEF TypeOK, CreateBatch
  <1>2. CASE OpenPage(b) \/ Retry(b)
    <2>1. job' \in [Batches -> Job]
      <3>1. "scheduled" \in Task
        BY DEF Task
      <3>2. QED
        BY <1>2, <3>1, StartTyped DEF OpenPage, Retry
    <2>2. QED
      BY <1>2, <2>1 DEF TypeOK, OpenPage, Retry, store
  <1>3. CASE Purge(b)
    <2>1. job' \in [Batches -> Job]
      <3>1. CASE Live(b)
        <4>1. PICK task \in Task : job' = [job EXCEPT ![b] = [job[b] EXCEPT !.task = task]]
          <5>1. "doomed" \in Task /\ "cancelling" \in Task
            BY DEF Task
          <5>2. QED
            BY <1>3, <3>1, <5>1 DEF Purge, CancelTask
        <4>2. [job[b] EXCEPT !.task = task] \in Job
          BY JobTyped DEF Job
        <4>3. QED
          BY <4>1, <4>2 DEF TypeOK
      <3>2. CASE ~Live(b)
        BY <1>3, <3>2 DEF Purge, CancelTask, TypeOK
      <3>3. QED
        BY <3>1, <3>2
    <2>2. worker' \in [Batches -> [Generations -> [Uuids -> Worker]]]
      BY <1>3, RecordsTyped DEF TypeOK, Purge, CancelWorkers
    <2>3. row' \in [Batches -> [Uuids -> Row]]
      BY <1>3, RecordsTyped DEF TypeOK, Purge, PurgeStore
    <2>4. stored' \in [Uuids -> SUBSET Nat] /\ batch' \in [Batches -> BatchStatus]
      BY <1>3 DEF TypeOK, Purge, PurgeStore, BatchStatus
    <2>5. QED
      BY <1>3, <2>1, <2>2, <2>3, <2>4 DEF TypeOK, Purge
  <1>4. QED
    BY <1>1, <1>2, <1>3 DEF UserStep

LEMMA TaskStepTyped ==
  ASSUME TypeOK, NEW b \in Batches, TaskStep(b)
  PROVE  TypeOK'
  <1>1. job[b].run \in Generations /\ job[b].phase \in {"fetching", "enriching", "done"}
    BY JobTyped DEF Job
  <1>2. "failed" \in BatchStatus /\ "running" \in BatchStatus /\ "done" \in BatchStatus
    BY DEF BatchStatus
  <1>3. CASE RunStart(b)
    <2>1. auth' \in [Batches -> [Generations -> BOOLEAN]]
      BY <1>1, <1>3 DEF TypeOK, RunStart
    <2>2. CASE UNCHANGED worker /\ AfterGather(b, FALSE)
      BY <1>3, <2>1, <2>2, AfterGatherTyped DEF TypeOK, RunStart
    <2>3. CASE /\ SetBatch(b, "running")
               /\ job' = [job EXCEPT ![b].task = "gather", ![b].retry = FALSE]
               /\ \E pending \in SUBSET Uuids :
                    worker' = [worker EXCEPT ![b][job[b].run] =
                                 [u \in Uuids |-> IF u \in pending THEN Waiting ELSE Idle]]
      <3>1. batch' \in [Batches -> BatchStatus]
        BY <1>2, <2>3, SetBatchTyped
      <3>2. [job[b] EXCEPT !.task = "gather", !.retry = FALSE] \in Job
        BY JobTyped, JobFieldsTyped DEF Task
      <3>3. job' \in [Batches -> Job]
        BY <2>3, <3>2 DEF TypeOK
      <3>4. worker' \in [Batches -> [Generations -> [Uuids -> Worker]]]
        BY <1>1, <2>3, RecordsTyped DEF TypeOK
      <3>5. QED
        BY <1>3, <2>1, <3>1, <3>3, <3>4 DEF TypeOK, RunStart
    <2>4. QED
      BY <1>3, <2>2, <2>3 DEF RunStart
  <1>4. CASE GatherDone(b)
    <2>1. auth[b][job[b].run] \in BOOLEAN
      BY <1>1 DEF TypeOK
    <2>2. QED
      BY <1>4, <2>1, AfterGatherTyped DEF TypeOK, GatherDone
  <1>5. CASE EnrichDone(b)
    <2>1. job' \in [Batches -> Job] /\ batch' \in [Batches -> BatchStatus]
      BY <1>2, <1>5, EndJobTyped, SetBatchTyped DEF EnrichDone
    <2>2. QED
      BY <1>5, <2>1 DEF TypeOK, EnrichDone
  <1>6. CASE RunRaised(b)
    <2>1. job' \in [Batches -> Job] /\ batch' \in [Batches -> BatchStatus]
      BY <1>1, <1>2, <1>6, EndJobTyped, SetBatchTyped DEF RunRaised
    <2>2. QED
      BY <1>6, <2>1 DEF TypeOK, RunRaised
  <1>7. CASE Cancelled(b)
    <2>1. job' \in [Batches -> Job]
      <3>1. CASE EndJob(b, job[b].phase)
        BY <1>1, <3>1, EndJobTyped
      <3>2. CASE job' = [job EXCEPT ![b].task = "ended"]
        <4>1. [job[b] EXCEPT !.task = "ended"] \in Job
          BY JobTyped, JobFieldsTyped DEF Task
        <4>2. QED
          BY <3>2, <4>1 DEF TypeOK
      <3>3. QED
        BY <1>7, <3>1, <3>2 DEF Cancelled
    <2>2. QED
      BY <1>7, <2>1 DEF TypeOK, Cancelled, store
  <1>8. QED
    BY <1>3, <1>4, <1>5, <1>6, <1>7 DEF TaskStep

\* A worker record with another place or counter is a worker record.
LEMMA WorkerFieldsTyped ==
  ASSUME NEW w \in Worker, NEW n \in Nat
  PROVE  /\ [Idle EXCEPT !.pc = "fetch", !.page = n] \in Worker
         /\ [w EXCEPT !.page = @ + 1, !.upstream = 0] \in Worker
         /\ [w EXCEPT !.pc = "backoff", !.waited = n] \in Worker
         /\ [w EXCEPT !.pc = "backoff", !.upstream = @ + 1] \in Worker
         /\ [w EXCEPT !.pc = "probe", !.pauses = @ + 1, !.polls = 0] \in Worker
         /\ [w EXCEPT !.pc = "fetch"] \in Worker
         /\ [w EXCEPT !.pc = "fetch", !.polls = 0] \in Worker
         /\ [w EXCEPT !.polls = @ + 1] \in Worker
  <1>1. w.page + 1 \in Nat /\ w.upstream + 1 \in Nat /\ w.pauses + 1 \in Nat /\ w.polls + 1 \in Nat
    BY DEF Worker
  <1>2. [Idle EXCEPT !.pc = "fetch", !.page = n] \in Worker
    BY DEF Worker, Idle
  <1>3. [w EXCEPT !.page = @ + 1, !.upstream = 0] \in Worker
    BY <1>1 DEF Worker
  <1>4. [w EXCEPT !.pc = "backoff", !.waited = n] \in Worker
    BY DEF Worker
  <1>5. [w EXCEPT !.pc = "backoff", !.upstream = @ + 1] \in Worker
    BY <1>1 DEF Worker
  <1>6. [w EXCEPT !.pc = "probe", !.pauses = @ + 1, !.polls = 0] \in Worker
    BY <1>1 DEF Worker
  <1>7. [w EXCEPT !.pc = "fetch"] \in Worker
    BY DEF Worker
  <1>8. [w EXCEPT !.pc = "fetch", !.polls = 0] \in Worker
    BY DEF Worker
  <1>9. [w EXCEPT !.polls = @ + 1] \in Worker
    BY <1>1 DEF Worker
  <1>10. QED
    BY <1>2, <1>3, <1>4, <1>5, <1>6, <1>7, <1>8, <1>9

LEMMA AnswerTyped ==
  ASSUME TypeOK, NEW b \in Batches, NEW g \in Generations, NEW u \in Uuids,
         NEW r \in Responses, Answer(b, g, u, r)
  PROVE  TypeOK'
  <1> DEFINE w == worker[b][g][u]
             StoreTyped == /\ row' \in [Batches -> [Uuids -> Row]]
                           /\ stored' \in [Uuids -> SUBSET Nat]
             WorkerTyped == worker' \in [Batches -> [Generations -> [Uuids -> Worker]]]
  <1>1. /\ r.events \in BOOLEAN /\ r.more \in BOOLEAN
        /\ w \in Worker /\ w.page \in Nat /\ w.waited \in Nat
    <2>1. w \in Worker
      BY EntriesTyped
    <2>2. r \in Response
      BY ConstantsTyped DEF Assumptions
    <2>3. QED
      BY <2>1, <2>2 DEF Worker, Response
  <1>2. {"fetching", "paused", "done", "no_events", "unknown", "failed"} \subseteq Resumable \cup Terminal
    BY DEF Resumable, Terminal, Kept
  <1>3. CASE GotPage(b, g, u, r)
    <2>1. StoreTyped
      BY <1>1, <1>2, <1>3, InsertPageTyped DEF GotPage
    <2>2. WorkerTyped
      BY <1>1, <1>3, WorkerFieldsTyped, StepWorkerTyped DEF GotPage
    <2>3. QED
      BY <1>3, <2>1, <2>2 DEF TypeOK, GotPage
  <1>4. CASE GotLastPage(b, g, u, r)
    <2>1. StoreTyped
      BY <1>1, <1>2, <1>4, InsertPageTyped DEF GotLastPage
    <2>2. WorkerTyped
      BY <1>4, EndWorkerTyped DEF GotLastPage
    <2>3. QED
      BY <1>4, <2>1, <2>2 DEF TypeOK, GotLastPage
  <1>5. CASE GotVerdict(b, g, u, r)
    <2>1. Verdict[Outcome(r)] \in Resumable \cup Terminal
      BY <1>2, <1>5 DEF GotVerdict, Verdict
    <2>2. QED
      BY <1>5, <2>1, SettleTyped DEF TypeOK, GotVerdict
  <1>6. CASE GotAuthError(b, g, u, r)
    <2>1. StoreTyped /\ WorkerTyped
      BY <1>2, <1>6, SettleTyped DEF TypeOK, GotAuthError
    <2>2. QED
      BY <1>6, <2>1 DEF TypeOK, GotAuthError
  <1>7. CASE GotUnavailable(b, g, u, r)
    <2>1. w.waited + Wait(r.retryAfter, DefaultRetryAfter) \in Nat
      BY <1>1, WaitTyped
    <2>2. StoreTyped /\ WorkerTyped
      BY <1>1, <1>2, <1>7, <2>1, SettleTyped, WorkerFieldsTyped, StepWorkerTyped
         DEF TypeOK, GotUnavailable
    <2>3. QED
      BY <1>7, <2>2 DEF TypeOK, GotUnavailable
  <1>8. CASE GotUpstream(b, g, u, r)
    <2>1. StoreTyped /\ WorkerTyped
      BY <1>1, <1>2, <1>8, SettleTyped, WorkerFieldsTyped, StepWorkerTyped DEF TypeOK, GotUpstream
    <2>2. QED
      BY <1>8, <2>1 DEF TypeOK, GotUpstream
  <1>9. CASE GotConnectionLost(b, g, u, r)
    <2>1. StoreTyped /\ WorkerTyped
      BY <1>1, <1>2, <1>9, SettleTyped, SetRowTyped, WorkerFieldsTyped, StepWorkerTyped
         DEF TypeOK, GotConnectionLost
    <2>2. QED
      BY <1>9, <2>1 DEF TypeOK, GotConnectionLost
  <1>10. CASE GotRaise(b, g, u, r)
    <2>1. WorkerTyped
      BY <1>10, EndWorkerTyped DEF GotRaise
    <2>2. PICK task \in Task : job' = [job EXCEPT ![b] = [job[b] EXCEPT !.task = task]]
      <3>1. job[b].task \in Task /\ "raised" \in Task
        BY JobTyped DEF Job, Task
      <3>2. QED
        BY <1>10, <3>1 DEF GotRaise
    <2>3. job' \in [Batches -> Job]
      BY <2>2, JobTyped, JobFieldsTyped DEF TypeOK
    <2>4. QED
      BY <1>10, <2>1, <2>3 DEF TypeOK, GotRaise, store
  <1>11. CASE Probe(b, g, u, r)
    <2>1. StoreTyped /\ WorkerTyped
      BY <1>1, <1>2, <1>11, SettleTyped, SetRowTyped, WorkerFieldsTyped, StepWorkerTyped
         DEF TypeOK, Probe
    <2>2. QED
      BY <1>11, <2>1 DEF TypeOK, Probe
  <1>12. QED
    BY <1>3, <1>4, <1>5, <1>6, <1>7, <1>8, <1>9, <1>10, <1>11 DEF Answer

LEMMA WorkerStepTyped ==
  ASSUME TypeOK, NEW b \in Batches, NEW g \in Generations, NEW u \in Uuids, WorkerStep(b, g, u)
  PROVE  TypeOK'
  <1>1. {"fetching", "done", "failed"} \subseteq Resumable \cup Terminal
    BY DEF Resumable, Terminal, Kept
  <1>2. worker[b][g][u] \in Worker /\ NextPage(b, u) \in Nat
    <2>1. row[b][u] \in Row
      BY EntriesTyped
    <2>2. QED
      BY <2>1, EntriesTyped DEF Row, NextPage
  <1>3. CASE WorkerStart(b, g, u)
    <2>1. /\ row' \in [Batches -> [Uuids -> Row]]
          /\ worker' \in [Batches -> [Generations -> [Uuids -> Worker]]]
      BY <1>1, <1>2, <1>3, SettleTyped, SetRowTyped, WorkerFieldsTyped, StepWorkerTyped DEF WorkerStart
    <2>2. QED
      BY <1>3, <2>1 DEF TypeOK, WorkerStart
  <1>4. CASE Wake(b, g, u)
    BY <1>2, <1>4, WorkerFieldsTyped, StepWorkerTyped DEF TypeOK, Wake, store
  <1>5. QED
    BY <1>3, <1>4, AnswerTyped DEF WorkerStep

LEMMA RestartTyped ==
  ASSUME TypeOK,
         Crash \/ \E b \in Batches, g \in Generations, u \in Uuids, r \in Responses :
                    CrashBetweenWrites(b, g, u, r)
  PROVE  TypeOK'
  <1>1. CASE Crash
    BY <1>1, MemoryLostTyped DEF TypeOK, Crash, store
  <1>2. ASSUME NEW b \in Batches, NEW g \in Generations, NEW u \in Uuids, NEW r \in Responses,
               CrashBetweenWrites(b, g, u, r)
        PROVE  TypeOK'
    <2>1. "done" \in Resumable \cup Terminal /\ "paused" \in Resumable \cup Terminal
      BY DEF Resumable, Terminal, Kept
    <2>2. row' \in [Batches -> [Uuids -> Row]] /\ stored' \in [Uuids -> SUBSET Nat]
      BY <1>2, <2>1, InsertPageTyped, SetRowTyped DEF TypeOK, CrashBetweenWrites
    <2>3. QED
      BY <1>2, <2>2, MemoryLostTyped DEF TypeOK, CrashBetweenWrites
  <1>3. QED
    BY <1>1, <1>2

\* Every variable keeps its type: every status, counter and page number stays
\* within the values the schema and the code know.
THEOREM TypeCorrect == Spec => []TypeOK
  <1>1. Init => TypeOK
    BY RecordsTyped, ConstantsTyped DEF Init, TypeOK, BatchStatus, Assumptions
  <1>2. TypeOK /\ [Next]_vars => TypeOK'
    <2>1. CASE Next
      BY <2>1, UserStepTyped, TaskStepTyped, WorkerStepTyped, RestartTyped DEF Next
    <2>2. CASE UNCHANGED vars
      BY <2>2 DEF TypeOK, vars, store, memory
    <2>3. QED
      BY <2>1, <2>2
  <1>3. QED
    BY <1>1, <1>2, PTL DEF Spec

-----------------------------------------------------------------------------
(* What one step of a worker does to the state *)

OthersKept(b, g, u) ==
  /\ \A c \in Batches, h \in Generations, v \in Uuids :
       c # b \/ h # g \/ v # u => worker'[c][h][v] = worker[c][h][v]
  /\ \A c \in Batches, v \in Uuids : c # b \/ v # u => row'[c][v] = row[c][v]
  /\ \A v \in Uuids : v # u => stored'[v] = stored[v]

\* The row is there after the step exactly when it was before; its resume point
\* stays, or becomes the page just answered, whose events are then stored unless
\* it is the last.
RowEffect(b, g, u) ==
  /\ Present(b, u)' <=> Present(b, u)
  /\ stored[u] \subseteq stored'[u]
  /\ \/ /\ row'[b][u].pages = row[b][u].pages /\ row'[b][u].more = row[b][u].more
        /\ stored'[u] = stored[u]
     \/ /\ Holding(b, g, u)
        /\ Present(b, u) => /\ row'[b][u].pages = worker[b][g][u].page
                            /\ worker[b][g][u].page \in stored'[u] \/ ~row'[b][u].more

\* A worker that goes on asks for the same page, for the one after the page it
\* has just stored, or, when it starts, for the one after its resume point.
PageEffect(b, g, u) ==
  Holding(b, g, u)' =>
    \/ /\ Holding(b, g, u)
       /\ worker'[b][g][u].page = worker[b][g][u].page
    \/ /\ Holding(b, g, u)
       /\ worker'[b][g][u].page = worker[b][g][u].page + 1
       /\ worker[b][g][u].page \in stored'[u]
    \/ /\ worker'[b][g][u].page = row[b][u].pages + 1
       /\ row[b][u].pages = 0 \/ row[b][u].more

WorkerEffect(b, g, u) ==
  /\ Active(b, g, u)
  /\ batch' = batch
  /\ \A c \in Batches : c # b => job'[c] = job[c]
  /\ NoFaults => job' = job
  /\ OthersKept(b, g, u) /\ RowEffect(b, g, u) /\ PageEffect(b, g, u)

LEMMA SetRowEffect ==
  ASSUME TypeOK, NEW b \in Batches, NEW u \in Uuids,
         NEW status \in Resumable \cup Terminal, SetRow(b, u, status)
  PROVE  /\ \A c \in Batches, v \in Uuids : c # b \/ v # u => row'[c][v] = row[c][v]
         /\ row'[b][u].pages = row[b][u].pages /\ row'[b][u].more = row[b][u].more
         /\ Present(b, u)' <=> Present(b, u)
  <1>1. row'[b][u] = WithStatus(row[b][u], status)
    BY DEF TypeOK, SetRow
  <1>2. status # "absent"
    BY DEF Resumable, Terminal, Kept
  <1>3. row[b][u] \in Row
    BY DEF TypeOK
  <1>4. \A c \in Batches, v \in Uuids : c # b \/ v # u => row'[c][v] = row[c][v]
    BY DEF TypeOK, SetRow
  <1>5. QED
    BY <1>1, <1>2, <1>3, <1>4 DEF WithStatus, Row, Present

LEMMA StepWorkerEffect ==
  ASSUME TypeOK, NEW b \in Batches, NEW g \in Generations, NEW u \in Uuids,
         NEW w, StepWorker(b, g, u, w)
  PROVE  /\ worker'[b][g][u] = w
         /\ \A c \in Batches, h \in Generations, v \in Uuids :
              c # b \/ h # g \/ v # u => worker'[c][h][v] = worker[c][h][v]
  BY DEF TypeOK, StepWorker

\* Steps that end the worker, and steps that only write its row.
LEMMA SettleEffect ==
  ASSUME TypeOK, NEW b \in Batches, NEW g \in Generations, NEW u \in Uuids,
         NEW status \in Resumable \cup Terminal, Settle(b, g, u, status), UNCHANGED stored
  PROVE  OthersKept(b, g, u) /\ RowEffect(b, g, u) /\ PageEffect(b, g, u)
  <1>1. ~Holding(b, g, u)'
    BY StepWorkerEffect DEF Settle, EndWorker, Holding, Idle
  <1>2. OthersKept(b, g, u)
    BY SetRowEffect, StepWorkerEffect DEF Settle, EndWorker, OthersKept
  <1>3. RowEffect(b, g, u)
    BY SetRowEffect DEF Settle, RowEffect
  <1>4. QED
    BY <1>1, <1>2, <1>3 DEF PageEffect

\* A step that keeps the worker at its page and at most changes the status.
LEMMA StayEffect ==
  ASSUME TypeOK, NEW b \in Batches, NEW g \in Generations, NEW u \in Uuids,
         NEW w, StepWorker(b, g, u, w), w.page = worker[b][g][u].page,
         Holding(b, g, u), UNCHANGED stored,
         UNCHANGED row \/ \E status \in Resumable \cup Terminal : SetRow(b, u, status)
  PROVE  OthersKept(b, g, u) /\ RowEffect(b, g, u) /\ PageEffect(b, g, u)
  <1>1. OthersKept(b, g, u)
    BY SetRowEffect, StepWorkerEffect DEF OthersKept
  <1>2. RowEffect(b, g, u)
    BY SetRowEffect DEF RowEffect, Present
  <1>3. PageEffect(b, g, u)
    BY StepWorkerEffect DEF PageEffect
  <1>4. QED
    BY <1>1, <1>2, <1>3

LEMMA AnswerEffect ==
  ASSUME TypeOK, NEW b \in Batches, NEW g \in Generations, NEW u \in Uuids,
         NEW r \in Responses, Answer(b, g, u, r)
  PROVE  WorkerEffect(b, g, u)
  <1> DEFINE w == worker[b][g][u]
  <1>1. r.events \in BOOLEAN /\ r.more \in BOOLEAN /\ w \in Worker /\ w.page \in Nat
    <2>1. w \in Worker
      BY EntriesTyped
    <2>2. r \in Response
      BY ConstantsTyped DEF Assumptions
    <2>3. QED
      BY <2>1, <2>2 DEF Worker, Response
  <1>2. {"fetching", "paused", "done", "no_events", "unknown", "failed"} \subseteq Resumable \cup Terminal
    BY DEF Resumable, Terminal, Kept
  <1>3. Active(b, g, u) /\ Holding(b, g, u)
    BY DEF Answer, GotPage, GotLastPage, GotVerdict, GotAuthError, GotUnavailable, GotUpstream,
           GotConnectionLost, GotRaise, Probe, Fetching, Active, Holding
  <1>4. /\ batch' = batch
        /\ \A c \in Batches : c # b => job'[c] = job[c]
        /\ NoFaults => job' = job
    <2>1. CASE GotRaise(b, g, u, r)
      BY <2>1 DEF TypeOK, GotRaise, Fetching, NoFaults, store
    <2>2. CASE ~GotRaise(b, g, u, r)
      BY <2>2 DEF Answer, GotPage, GotLastPage, GotVerdict, GotAuthError, GotUnavailable,
                  GotUpstream, GotConnectionLost, Probe
    <2>3. QED
      BY <2>1, <2>2
  <1> SUFFICES OthersKept(b, g, u) /\ RowEffect(b, g, u) /\ PageEffect(b, g, u)
    BY <1>3, <1>4 DEF WorkerEffect
  <1>5. CASE GotPage(b, g, u, r)
    <2>1. /\ InsertPage(b, u, w.page, TRUE, TRUE, "fetching")
          /\ StepWorker(b, g, u, [w EXCEPT !.page = @ + 1, !.upstream = 0])
      BY <1>5 DEF GotPage
    <2>0. /\ \A c \in Batches, v \in Uuids : c # b \/ v # u => row'[c][v] = row[c][v]
          /\ \A v \in Uuids : v # u => stored'[v] = stored[v]
          /\ stored'[u] = stored[u] \cup {w.page}
          /\ Present(b, u)' <=> Present(b, u)
          /\ Present(b, u) => row'[b][u].pages = w.page
      BY <2>1 DEF TypeOK, InsertPage, Present
    <2>2. OthersKept(b, g, u)
      BY <2>0, <2>1, StepWorkerEffect DEF OthersKept
    <2>3. w.page \in stored'[u] /\ RowEffect(b, g, u)
      BY <1>1, <1>3, <2>0 DEF RowEffect
    <2>4. worker'[b][g][u].page = w.page + 1
      <3>1. worker'[b][g][u] = [w EXCEPT !.page = @ + 1, !.upstream = 0]
        BY <2>1, StepWorkerEffect
      <3>2. [w EXCEPT !.page = @ + 1, !.upstream = 0].page = w.page + 1
        BY <1>1 DEF Worker
      <3>3. QED
        BY <3>1, <3>2
    <2>5. QED
      BY <1>3, <2>2, <2>3, <2>4 DEF PageEffect
  <1>6. CASE GotLastPage(b, g, u, r)
    <2>1. PICK status \in Resumable \cup Terminal :
            InsertPage(b, u, w.page, r.events, FALSE, status) /\ EndWorker(b, g, u)
      BY <1>2, <1>6 DEF GotLastPage
    <2>0. status # "absent"
      BY DEF Resumable, Terminal, Kept
    <2>5. /\ \A c \in Batches, v \in Uuids : c # b \/ v # u => row'[c][v] = row[c][v]
          /\ \A v \in Uuids : v # u => stored'[v] = stored[v]
          /\ stored[u] \subseteq stored'[u]
          /\ Present(b, u)' <=> Present(b, u)
          /\ Present(b, u) => row'[b][u].pages = w.page /\ ~row'[b][u].more
      BY <1>1, <2>0, <2>1 DEF TypeOK, InsertPage, Present
    <2>2. OthersKept(b, g, u)
      BY <2>1, <2>5, StepWorkerEffect DEF OthersKept, EndWorker
    <2>3. RowEffect(b, g, u)
      BY <1>1, <1>3, <2>5 DEF RowEffect
    <2>4. ~Holding(b, g, u)'
      BY <2>1, StepWorkerEffect DEF EndWorker, Holding, Idle
    <2>6. QED
      BY <2>2, <2>3, <2>4 DEF PageEffect
  <1>7. CASE GotVerdict(b, g, u, r)
    <2>1. Verdict[Outcome(r)] \in Resumable \cup Terminal
      BY <1>2, <1>7 DEF GotVerdict, Verdict
    <2>2. QED
      BY <1>7, <2>1, SettleEffect DEF GotVerdict
  <1>8. CASE GotAuthError(b, g, u, r)
    BY <1>2, <1>8, SettleEffect DEF GotAuthError
  <1>9. CASE GotUnavailable(b, g, u, r)
    <2>1. CASE Settle(b, g, u, "failed")
      BY <1>2, <1>9, <2>1, SettleEffect DEF GotUnavailable
    <2>2. CASE ~Settle(b, g, u, "failed")
      <3>1. PICK n : UNCHANGED row /\ StepWorker(b, g, u, [w EXCEPT !.pc = "backoff", !.waited = n])
        BY <1>9, <2>2 DEF GotUnavailable
      <3>2. [w EXCEPT !.pc = "backoff", !.waited = n].page = w.page
        BY <1>1 DEF Worker
      <3>3. QED
        BY <1>3, <1>9, <3>1, <3>2, StayEffect DEF GotUnavailable
    <2>3. QED
      BY <2>1, <2>2
  <1>10. CASE GotUpstream(b, g, u, r)
    <2>1. CASE Settle(b, g, u, "failed")
      BY <1>2, <1>10, <2>1, SettleEffect DEF GotUpstream
    <2>2. CASE ~Settle(b, g, u, "failed")
      <3>1. UNCHANGED row /\ StepWorker(b, g, u, [w EXCEPT !.pc = "backoff", !.upstream = @ + 1])
        BY <1>10, <2>2 DEF GotUpstream
      <3>2. [w EXCEPT !.pc = "backoff", !.upstream = @ + 1].page = w.page
        BY <1>1 DEF Worker
      <3>3. QED
        BY <1>3, <1>10, <3>1, <3>2, StayEffect DEF GotUpstream
    <2>3. QED
      BY <2>1, <2>2
  <1>11. CASE GotConnectionLost(b, g, u, r)
    <2>1. CASE Settle(b, g, u, "failed")
      BY <1>2, <1>11, <2>1, SettleEffect DEF GotConnectionLost
    <2>2. CASE ~Settle(b, g, u, "failed")
      <3>1. /\ SetRow(b, u, "paused")
            /\ StepWorker(b, g, u, [w EXCEPT !.pc = "probe", !.pauses = @ + 1, !.polls = 0])
        BY <1>11, <2>2 DEF GotConnectionLost
      <3>2. [w EXCEPT !.pc = "probe", !.pauses = @ + 1, !.polls = 0].page = w.page
        BY <1>1 DEF Worker
      <3>3. QED
        BY <1>2, <1>3, <1>11, <3>1, <3>2, StayEffect DEF GotConnectionLost
    <2>3. QED
      BY <2>1, <2>2
  <1>12. CASE GotRaise(b, g, u, r)
    <2>1. EndWorker(b, g, u) /\ UNCHANGED <<row, stored>>
      BY <1>12 DEF GotRaise, store
    <2>2. OthersKept(b, g, u) /\ ~Holding(b, g, u)'
      BY <2>1, StepWorkerEffect DEF OthersKept, EndWorker, Holding, Idle
    <2>3. QED
      BY <2>1, <2>2 DEF RowEffect, PageEffect, Present
  <1>13. CASE Probe(b, g, u, r)
    <2>1. CASE Settle(b, g, u, "failed")
      BY <1>2, <1>13, <2>1, SettleEffect DEF Probe
    <2>2. CASE /\ SetRow(b, u, "fetching")
               /\ StepWorker(b, g, u, [w EXCEPT !.pc = "fetch", !.polls = 0])
      <3>1. [w EXCEPT !.pc = "fetch", !.polls = 0].page = w.page
        BY <1>1 DEF Worker
      <3>2. QED
        BY <1>2, <1>3, <1>13, <2>2, <3>1, StayEffect DEF Probe
    <2>3. CASE UNCHANGED row /\ StepWorker(b, g, u, [w EXCEPT !.polls = @ + 1])
      <3>1. [w EXCEPT !.polls = @ + 1].page = w.page
        BY <1>1 DEF Worker
      <3>2. QED
        BY <1>3, <1>13, <2>3, <3>1, StayEffect DEF Probe
    <2>4. QED
      BY <1>13, <2>1, <2>2, <2>3 DEF Probe
  <1>14. QED
    BY <1>5, <1>6, <1>7, <1>8, <1>9, <1>10, <1>11, <1>12, <1>13 DEF Answer

LEMMA WorkerStepEffect ==
  ASSUME TypeOK, NEW b \in Batches, NEW g \in Generations, NEW u \in Uuids, WorkerStep(b, g, u)
  PROVE  WorkerEffect(b, g, u)
  <1> DEFINE w == worker[b][g][u]
  <1>1. {"fetching", "done", "failed"} \subseteq Resumable \cup Terminal
    BY DEF Resumable, Terminal, Kept
  <1>2. CASE WorkerStart(b, g, u)
    <2>1. Active(b, g, u) /\ batch' = batch /\ UNCHANGED <<stored, job>>
      BY <1>2 DEF WorkerStart, Active
    <2>2. CASE Settle(b, g, u, "failed") \/ Settle(b, g, u, "done")
      BY <1>1, <2>1, <2>2, SettleEffect DEF WorkerEffect
    <2>3. CASE /\ row[b][u].pages = 0 \/ row[b][u].more
               /\ SetRow(b, u, "fetching")
               /\ StepWorker(b, g, u, [Idle EXCEPT !.pc = "fetch", !.page = NextPage(b, u)])
      <3>1. OthersKept(b, g, u)
        BY <1>1, <2>1, <2>3, SetRowEffect, StepWorkerEffect DEF OthersKept
      <3>4. RowEffect(b, g, u)
        BY <1>1, <2>1, <2>3, SetRowEffect DEF RowEffect
      <3>2. worker'[b][g][u].page = row[b][u].pages + 1
        <4>1. worker'[b][g][u] = [Idle EXCEPT !.pc = "fetch", !.page = NextPage(b, u)]
          BY <2>3, StepWorkerEffect
        <4>2. [Idle EXCEPT !.pc = "fetch", !.page = NextPage(b, u)].page = NextPage(b, u)
          BY DEF Idle
        <4>3. QED
          BY <4>1, <4>2 DEF NextPage
      <3>3. QED
        BY <2>1, <2>3, <3>1, <3>2, <3>4 DEF WorkerEffect, PageEffect
    <2>4. QED
      BY <1>2, <2>2, <2>3 DEF WorkerStart
  <1>3. CASE Wake(b, g, u)
    <2>1. /\ Active(b, g, u) /\ Holding(b, g, u)
          /\ UNCHANGED <<store, job>> /\ StepWorker(b, g, u, [w EXCEPT !.pc = "fetch"])
      BY <1>3 DEF Wake, Active, Holding
    <2>2. [w EXCEPT !.pc = "fetch"].page = w.page
      BY EntriesTyped DEF Worker
    <2>3. QED
      BY <2>1, <2>2, StayEffect DEF WorkerEffect, store
  <1>4. QED
    BY <1>2, <1>3, AnswerEffect DEF WorkerStep

-----------------------------------------------------------------------------
(* Committed pages are stored *)

\* A batch not created yet has no job, no rows and no workers.
Unborn ==
  \A b \in Batches : batch[b] = "none" =>
    /\ job[b].task = "none"
    /\ \A u \in Uuids : ~Present(b, u)
    /\ \A g \in Generations, u \in Uuids : ~Active(b, g, u)

\* Whoever pulls a page for a row that is there pulls it on top of stored pages.
ResumeStored ==
  \A b \in Batches, g \in Generations, u \in Uuids :
    Holding(b, g, u) /\ Present(b, u) =>
      \A p \in 1 .. (worker[b][g][u].page - 1) : p \in stored[u]

BookInv == TypeOK /\ Unborn /\ CommittedPagesStored /\ ResumeStored

LEMMA BookWorker ==
  ASSUME BookInv, TypeOK', NEW b \in Batches, NEW g \in Generations, NEW u \in Uuids,
         WorkerEffect(b, g, u)
  PROVE  BookInv'
  <1> USE DEF BookInv
  <1>1. Unborn'
    <2>1. batch[b] # "none"
      BY DEF WorkerEffect, Unborn
    <2>2. QED
      BY <2>1 DEF WorkerEffect, OthersKept, Unborn, Present, Active
  <1>2. /\ row[b][u].pages \in Nat /\ row[b][u].more \in BOOLEAN
        /\ worker[b][g][u].page \in Nat
        /\ row'[b][u].more \in BOOLEAN
    <2>1. row[b][u] \in Row /\ worker[b][g][u] \in Worker
      BY EntriesTyped
    <2>2. row'[b][u] \in Row
      BY DEF TypeOK
    <2>3. QED
      BY <2>1, <2>2 DEF Row, Worker
  <1>3. \A v \in Uuids : stored[v] \subseteq stored'[v]
    BY DEF WorkerEffect, OthersKept, RowEffect
  <1>4. CommittedPagesStored'
    <2> SUFFICES ASSUME NEW c \in Batches, NEW v \in Uuids, Present(c, v)',
                        NEW p \in 1 .. row'[c][v].pages
                 PROVE  p \in stored'[v] \/ (p = row'[c][v].pages /\ ~row'[c][v].more)
      BY DEF CommittedPagesStored
    <2>1. CASE c # b \/ v # u
      BY <1>3, <2>1 DEF WorkerEffect, OthersKept, CommittedPagesStored, Present
    <2>2. CASE c = b /\ v = u
      <3>1. Present(b, u)
        BY <2>2 DEF WorkerEffect, RowEffect
      <3>2. CASE row'[b][u].pages = row[b][u].pages /\ row'[b][u].more = row[b][u].more
        BY <1>3, <2>2, <3>1, <3>2 DEF CommittedPagesStored
      <3>3. CASE /\ Holding(b, g, u) /\ row'[b][u].pages = worker[b][g][u].page
                 /\ worker[b][g][u].page \in stored'[u] \/ ~row'[b][u].more
        <4>1. CASE p = worker[b][g][u].page
          BY <2>2, <3>3, <4>1
        <4>2. CASE p # worker[b][g][u].page
          <5>1. p \in 1 .. (worker[b][g][u].page - 1)
            BY <1>2, <2>2, <3>3, <4>2
          <5>2. QED
            BY <1>3, <2>2, <3>1, <3>3, <5>1 DEF ResumeStored
        <4>3. QED
          BY <4>1, <4>2
      <3>4. QED
        BY <3>1, <3>2, <3>3 DEF WorkerEffect, RowEffect
    <2>3. QED
      BY <2>1, <2>2
  <1>5. ResumeStored'
    <2> SUFFICES ASSUME NEW c \in Batches, NEW h \in Generations, NEW v \in Uuids,
                        Holding(c, h, v)', Present(c, v)',
                        NEW p \in 1 .. (worker'[c][h][v].page - 1)
                 PROVE  p \in stored'[v]
      BY DEF ResumeStored
    <2>1. Present(c, v)
      BY DEF WorkerEffect, OthersKept, RowEffect, Present
    <2>2. CASE c # b \/ h # g \/ v # u
      <3>1. Holding(c, h, v) /\ worker'[c][h][v] = worker[c][h][v]
        BY <2>2 DEF WorkerEffect, OthersKept, Holding
      <3>2. QED
        BY <1>3, <2>1, <3>1 DEF ResumeStored
    <2>3. CASE c = b /\ h = g /\ v = u
      <3>1. CASE Holding(b, g, u) /\ worker'[b][g][u].page = worker[b][g][u].page
        BY <1>3, <2>1, <2>3, <3>1 DEF ResumeStored
      <3>2. CASE /\ Holding(b, g, u) /\ worker'[b][g][u].page = worker[b][g][u].page + 1
                 /\ worker[b][g][u].page \in stored'[u]
        <4>1. CASE p = worker[b][g][u].page
          BY <2>3, <3>2, <4>1
        <4>2. CASE p # worker[b][g][u].page
          <5>1. p \in 1 .. (worker[b][g][u].page - 1)
            BY <1>2, <2>3, <3>2, <4>2
          <5>2. QED
            BY <1>3, <2>1, <2>3, <3>2, <5>1 DEF ResumeStored
        <4>3. QED
          BY <4>1, <4>2
      <3>3. CASE /\ worker'[b][g][u].page = row[b][u].pages + 1
                 /\ row[b][u].pages = 0 \/ row[b][u].more
        <4>1. p \in 1 .. row[b][u].pages
          BY <1>2, <2>3, <3>3
        <4>2. QED
          BY <1>2, <1>3, <2>1, <2>3, <3>3, <4>1 DEF CommittedPagesStored
      <3>4. QED
        BY <2>3, <3>1, <3>2, <3>3 DEF WorkerEffect, PageEffect
    <2>4. QED
      BY <2>2, <2>3
  <1>6. QED
    BY <1>1, <1>4, <1>5

\* A step of no worker leaves the running workers as they are, or ends them.
WorkersOnlyStop ==
  \A b \in Batches, g \in Generations, u \in Uuids :
    Holding(b, g, u)' => Holding(b, g, u) /\ worker'[b][g][u] = worker[b][g][u]

\* A step that writes no row and no event.
LEMMA BookKept ==
  ASSUME BookInv, UNCHANGED <<row, stored>>, WorkersOnlyStop
  PROVE  CommittedPagesStored' /\ ResumeStored'
  <1>1. CommittedPagesStored'
    BY DEF BookInv, CommittedPagesStored, Present
  <1>2. ResumeStored'
    BY DEF BookInv, ResumeStored, WorkersOnlyStop, Present
  <1>3. QED
    BY <1>1, <1>2

LEMMA BookUser ==
  ASSUME BookInv, TypeOK', NEW b \in Batches, UserStep(b)
  PROVE  BookInv'
  <1> USE DEF BookInv
  <1>1. ASSUME NEW us \in SUBSET Uuids, CreateBatch(b, us) PROVE BookInv'
    <2>1. /\ \A c \in Batches : c # b => batch'[c] = batch[c] /\ job'[c] = job[c] /\ row'[c] = row[c]
          /\ batch[b] = "none" /\ batch'[b] = "running"
          /\ UNCHANGED <<stored, worker>>
      BY <1>1 DEF CreateBatch, Start, TypeOK
    <2>2. \A u \in Uuids : row'[b][u].pages = 0
      BY <1>1 DEF CreateBatch, TypeOK, QueuedRow, NoRow
    <2>3. Unborn'
      BY <2>1 DEF Unborn, Present, Active
    <2>4. CommittedPagesStored'
      <3> SUFFICES ASSUME NEW c \in Batches, NEW u \in Uuids, Present(c, u)',
                          NEW p \in 1 .. row'[c][u].pages
                   PROVE  p \in stored'[u] \/ (p = row'[c][u].pages /\ ~row'[c][u].more)
        BY DEF CommittedPagesStored
      <3>1. CASE c = b
        BY <2>2, <3>1
      <3>2. CASE c # b
        BY <2>1, <3>2 DEF CommittedPagesStored, Present
      <3>3. QED
        BY <3>1, <3>2
    <2>5. ResumeStored'
      BY <2>1 DEF ResumeStored, Unborn, Holding, Active, Present
    <2>6. QED
      BY <2>3, <2>4, <2>5
  <1>2. CASE OpenPage(b) \/ Retry(b)
    <2>1. /\ \A c \in Batches : c # b => job'[c] = job[c]
          /\ batch[b] # "none"
          /\ UNCHANGED <<batch, row, stored, worker>>
      BY <1>2 DEF OpenPage, Retry, Exists, Start, TypeOK, store
    <2>2. Unborn'
      BY <2>1 DEF Unborn, Present, Active
    <2>3. WorkersOnlyStop
      BY <2>1 DEF WorkersOnlyStop, Holding
    <2>4. QED
      BY <2>1, <2>2, <2>3, BookKept
  <1>3. CASE Purge(b)
    <2>1. /\ \A c \in Batches : c # b => batch'[c] = batch[c] /\ job'[c] = job[c] /\ row'[c] = row[c]
          /\ batch'[b] = "purged"
          /\ \A u \in Uuids : ~Present(b, u)'
          /\ \A u \in Uuids : stored'[u] = IF u \in Orphans(b) THEN {} ELSE stored[u]
      BY <1>3 DEF Purge, CancelTask, PurgeStore, TypeOK, Present, NoRow
    <2>2. \A c \in Batches, g \in Generations, u \in Uuids :
            worker'[c][g][u] = worker[c][g][u] \/ worker'[c][g][u] = Idle
      BY <1>3 DEF Purge, CancelWorkers, TypeOK
    <2>3. WorkersOnlyStop
      BY <2>2 DEF WorkersOnlyStop, Holding, Idle
    <2>4. \A c \in Batches, u \in Uuids :
            Present(c, u)' => c # b /\ Present(c, u) /\ stored'[u] = stored[u]
      BY <2>1 DEF Present, Orphans
    <2>5. Unborn'
      BY <2>1, <2>2 DEF Unborn, Present, Active, Idle
    <2>6. CommittedPagesStored'
      BY <2>1, <2>4 DEF CommittedPagesStored
    <2>7. ResumeStored'
      BY <2>3, <2>4 DEF ResumeStored, WorkersOnlyStop
    <2>8. QED
      BY <2>5, <2>6, <2>7
  <1>4. QED
    BY <1>1, <1>2, <1>3 DEF UserStep

\* A task's own steps: only its batch's status, job and workers change, and the
\* workers it starts are waiting.
LEMMA TaskStepEffect ==
  ASSUME TypeOK, NEW b \in Batches, TaskStep(b)
  PROVE  /\ job[b].task # "none"
         /\ UNCHANGED <<row, stored>>
         /\ \A c \in Batches : c # b => job'[c] = job[c] /\ batch'[c] = batch[c]
         /\ batch[b] # "none" => batch'[b] # "none"
         /\ \A c \in Batches, g \in Generations, u \in Uuids :
              \/ worker'[c][g][u] = worker[c][g][u]
              \/ c = b /\ ~Holding(c, g, u)'
  <1>1. CASE RunStart(b)
    <2>1. job[b].task # "none" /\ UNCHANGED <<row, stored>>
      BY <1>1 DEF RunStart
    <2>2. \A c \in Batches : c # b => job'[c] = job[c] /\ batch'[c] = batch[c]
      BY <1>1 DEF RunStart, AfterGather, EndJob, SetBatch, TypeOK
    <2>3. batch[b] # "none" => batch'[b] # "none"
      BY <1>1 DEF RunStart, AfterGather, SetBatch, TypeOK
    <2>4. \A c \in Batches, g \in Generations, u \in Uuids :
              \/ worker'[c][g][u] = worker[c][g][u]
              \/ c = b /\ worker'[c][g][u] \in {Waiting, Idle}
      <3>1. CASE UNCHANGED worker
        BY <3>1
      <3>2. CASE \E pending \in SUBSET Uuids :
                   worker' = [worker EXCEPT ![b][job[b].run] =
                                [u \in Uuids |-> IF u \in pending THEN Waiting ELSE Idle]]
        <4>1. PICK pending \in SUBSET Uuids :
                worker' = [worker EXCEPT ![b][job[b].run] =
                             [u \in Uuids |-> IF u \in pending THEN Waiting ELSE Idle]]
          BY <3>2
        <4>2. \A u \in Uuids :
                [v \in Uuids |-> IF v \in pending THEN Waiting ELSE Idle][u] \in {Waiting, Idle}
          OBVIOUS
        <4>3. QED
          BY <4>1, <4>2 DEF TypeOK
      <3>3. QED
        BY <1>1, <3>1, <3>2 DEF RunStart
    <2>5. \A w \in {Waiting, Idle} : w.pc \in {"waiting", "idle"}
      BY DEF Waiting, Idle
    <2>6. QED
      BY <2>1, <2>2, <2>3, <2>4, <2>5 DEF Holding
  <1>2. CASE GatherDone(b)
    BY <1>2 DEF GatherDone, AfterGather, EndJob, SetBatch, TypeOK
  <1>3. CASE EnrichDone(b)
    BY <1>3 DEF EnrichDone, EndJob, SetBatch, TypeOK
  <1>4. CASE RunRaised(b)
    BY <1>4 DEF RunRaised, EndJob, SetBatch, TypeOK
  <1>5. CASE Cancelled(b)
    BY <1>5 DEF Cancelled, EndJob, TypeOK, store
  <1>6. QED
    BY <1>1, <1>2, <1>3, <1>4, <1>5 DEF TaskStep

LEMMA BookTask ==
  ASSUME BookInv, TypeOK', NEW b \in Batches, TaskStep(b)
  PROVE  BookInv'
  <1>1. batch[b] # "none"
    BY TaskStepEffect DEF BookInv, Unborn
  <1>2. Unborn'
    BY <1>1, TaskStepEffect DEF BookInv, Unborn, Present, Active
  <1>3. WorkersOnlyStop
    BY TaskStepEffect DEF BookInv, WorkersOnlyStop, Holding
  <1>4. QED
    BY <1>2, <1>3, TaskStepEffect, BookKept DEF BookInv

LEMMA MemoryLostEffect ==
  ASSUME MemoryLost
  PROVE  /\ \A b \in Batches : job'[b].task = "none"
         /\ \A b \in Batches, g \in Generations, u \in Uuids : ~Active(b, g, u)' /\ ~Holding(b, g, u)'
  BY DEF MemoryLost, NoJob, Idle, Active, Holding

LEMMA BookRestart ==
  ASSUME BookInv, TypeOK',
         Crash \/ \E b \in Batches, g \in Generations, u \in Uuids, r \in Responses :
                    CrashBetweenWrites(b, g, u, r)
  PROVE  BookInv'
  <1>1. MemoryLost /\ UNCHANGED batch
    BY DEF Crash, CrashBetweenWrites, store
  <1>2. ResumeStored'
    BY <1>1, MemoryLostEffect DEF ResumeStored
  <1>3. CASE Crash
    <2>1. Unborn'
      BY <1>1, <1>3, MemoryLostEffect DEF BookInv, Unborn, Crash, store, Present
    <2>2. CommittedPagesStored'
      BY <1>3 DEF BookInv, CommittedPagesStored, Crash, store, Present
    <2>3. QED
      BY <1>2, <2>1, <2>2 DEF BookInv
  <1>4. ASSUME NEW b \in Batches, NEW g \in Generations, NEW u \in Uuids, NEW r \in Responses,
               CrashBetweenWrites(b, g, u, r)
        PROVE  BookInv'
    <2>1. /\ \A c \in Batches, v \in Uuids : c # b \/ v # u => row'[c][v] = row[c][v]
          /\ stored' = stored
          /\ Present(b, u)' <=> Present(b, u)
          /\ Present(b, u) => \/ /\ row'[b][u].pages = row[b][u].pages
                                 /\ row'[b][u].more = row[b][u].more
                              \/ row'[b][u].pages = 1 /\ ~row'[b][u].more
      <3>1. CASE InsertPage(b, u, 1, FALSE, FALSE, "done")
        BY <3>1 DEF BookInv, TypeOK, InsertPage, Present
      <3>2. CASE SetRow(b, u, "paused") /\ UNCHANGED stored
        <4>1. "paused" \in Resumable \cup Terminal
          BY DEF Resumable
        <4>2. QED
          BY <3>2, <4>1, SetRowEffect DEF BookInv
      <3>3. QED
        BY <1>4, <3>1, <3>2 DEF CrashBetweenWrites
    <2>2. Unborn'
      BY <1>1, <2>1, MemoryLostEffect DEF BookInv, Unborn, Present
    <2>3. CommittedPagesStored'
      BY <2>1 DEF BookInv, CommittedPagesStored, Present
    <2>4. QED
      BY <1>2, <2>2, <2>3 DEF BookInv
  <1>5. QED
    BY <1>3, <1>4

LEMMA BookInductive == Spec => []BookInv
  <1>1. Init => BookInv
    <2> SUFFICES ASSUME Init PROVE BookInv
      OBVIOUS
    <2>1. TypeOK
      BY RecordsTyped, ConstantsTyped DEF Init, TypeOK, BatchStatus, Assumptions
    <2>2. QED
      BY <2>1 DEF Init, BookInv, Unborn, CommittedPagesStored, ResumeStored,
                  Present, Active, Holding, NoJob, NoRow, Idle
  <1>2. TypeOK /\ TypeOK' /\ BookInv /\ [Next]_vars => BookInv'
    <2> SUFFICES ASSUME TypeOK', BookInv, [Next]_vars PROVE BookInv'
      OBVIOUS
    <2>1. CASE Next
      <3>1. ASSUME NEW b \in Batches, NEW g \in Generations, NEW u \in Uuids, WorkerStep(b, g, u)
            PROVE  BookInv'
        BY <3>1, WorkerStepEffect, BookWorker DEF BookInv
      <3>2. QED
        BY <2>1, <3>1, BookUser, BookTask, BookRestart DEF Next
    <2>2. CASE UNCHANGED vars
      <3>1. UNCHANGED <<batch, row, stored, job, worker>>
        BY <2>2 DEF vars, store, memory
      <3>2. QED
        BY <3>1 DEF BookInv, Unborn, CommittedPagesStored, ResumeStored, Present, Active, Holding
    <2>3. QED
      BY <2>1, <2>2
  <1>3. QED
    BY <1>1, <1>2, TypeCorrect, PTL DEF Spec

\* A resume point never claims events the store lost, whatever Guardhouse
\* answers, whoever purges, raises, resumes or restarts, and for any number of
\* batches that share accounts.
THEOREM CommittedPagesAreStored == Spec => []CommittedPagesStored
  BY BookInductive, PTL DEF BookInv

-----------------------------------------------------------------------------
(* Workers are confined, and no event is orphaned, as long as no answer     *)
(* makes a worker raise                                                     *)

\* A job that says it is done has a task that has ended.
DoneEnded == \A b \in Batches : job[b].done => job[b].task = "ended"

ConfInv == BookInv /\ DoneEnded /\ WorkersConfined /\ NoOrphanEvents

LEMMA ConfWorker ==
  ASSUME ConfInv, NoFaults, NEW b \in Batches, NEW g \in Generations, NEW u \in Uuids,
         WorkerEffect(b, g, u)
  PROVE  DoneEnded' /\ WorkersConfined' /\ NoOrphanEvents'
  <1>1. job' = job
    BY DEF WorkerEffect
  <1>2. \A c \in Batches, v \in Uuids : Present(c, v)' <=> Present(c, v)
    BY DEF WorkerEffect, OthersKept, RowEffect, Present
  <1>3. \A c \in Batches, h \in Generations, v \in Uuids : Active(c, h, v)' => Active(c, h, v)
    BY DEF WorkerEffect, OthersKept, Active
  <1>4. Present(b, u)
    BY DEF ConfInv, WorkersConfined, WorkerEffect
  <1>5. DoneEnded'
    BY <1>1 DEF ConfInv, DoneEnded
  <1>6. WorkersConfined'
    BY <1>1, <1>2, <1>3 DEF ConfInv, WorkersConfined
  <1>7. NoOrphanEvents'
    BY <1>2, <1>4 DEF ConfInv, NoOrphanEvents, WorkerEffect, OthersKept
  <1>8. QED
    BY <1>5, <1>6, <1>7

LEMMA ConfUser ==
  ASSUME ConfInv, NEW b \in Batches, UserStep(b)
  PROVE  DoneEnded' /\ WorkersConfined' /\ NoOrphanEvents'
  <1> USE DEF ConfInv, BookInv
  <1>1. ASSUME NEW us \in SUBSET Uuids, CreateBatch(b, us)
        PROVE  DoneEnded' /\ WorkersConfined' /\ NoOrphanEvents'
    <2>1. /\ \A c \in Batches : c # b => job'[c] = job[c] /\ row'[c] = row[c]
          /\ batch[b] = "none" /\ ~job'[b].done
          /\ UNCHANGED <<stored, worker>>
      BY <1>1 DEF CreateBatch, Start, TypeOK, NoJob
    <2>2. DoneEnded'
      BY <2>1 DEF DoneEnded
    <2>3. WorkersConfined'
      BY <2>1 DEF WorkersConfined, Unborn, Active, Present
    <2>4. NoOrphanEvents'
      BY <2>1 DEF NoOrphanEvents, Unborn, Present
    <2>5. QED
      BY <2>2, <2>3, <2>4
  <1>2. CASE OpenPage(b) \/ Retry(b)
    <2>1. /\ \A c \in Batches : c # b => job'[c] = job[c]
          /\ ~job'[b].done /\ ~Live(b)
          /\ UNCHANGED <<row, stored, worker>>
      BY <1>2 DEF OpenPage, Retry, Start, TypeOK, NoJob, store
    <2>2. \A g \in Generations, u \in Uuids : ~Active(b, g, u)
      BY <2>1 DEF WorkersConfined, DoneEnded, Live
    <2>3. DoneEnded'
      BY <2>1 DEF DoneEnded
    <2>4. WorkersConfined'
      BY <2>1, <2>2 DEF WorkersConfined, Active, Present
    <2>5. NoOrphanEvents'
      BY <2>1 DEF NoOrphanEvents, Present
    <2>6. QED
      BY <2>3, <2>4, <2>5
  <1>3. CASE Purge(b)
    <2>1. /\ \A c \in Batches : c # b => job'[c] = job[c] /\ row'[c] = row[c]
          /\ \A c \in Batches : c # b => worker'[c] = worker[c]
          /\ \A u \in Uuids : stored'[u] = IF u \in Orphans(b) THEN {} ELSE stored[u]
      BY <1>3 DEF Purge, CancelTask, CancelWorkers, PurgeStore, TypeOK
    <2>2. job'[b].done = job[b].done /\ (~Live(b) => job'[b].task = job[b].task)
      <3>1. job'[b] = [job[b] EXCEPT !.task = job'[b].task]
        BY <1>3, JobTyped DEF Purge, CancelTask, TypeOK, Job
      <3>2. job'[b].done = job[b].done
        BY <3>1, JobTyped DEF Job
      <3>3. ~Live(b) => job'[b].task = job[b].task
        BY <1>3 DEF Purge, CancelTask
      <3>4. QED
        BY <3>2, <3>3
    <2>3. \A g \in Generations, u \in Uuids : ~Active(b, g, u)'
      <3> SUFFICES ASSUME NEW g \in Generations, NEW u \in Uuids, Active(b, g, u)' PROVE FALSE
        OBVIOUS
      <3>1. Active(b, g, u) /\ worker'[b][g][u] = worker[b][g][u]
        BY <1>3 DEF Purge, CancelWorkers, TypeOK, Active, Idle
      <3>2. job[b].task = "gather" /\ job[b].run = g
        BY <3>1 DEF WorkersConfined
      <3>3. Live(b)
        BY <3>2 DEF Live, DoneEnded
      <3>4. worker'[b][g][u] = Idle
        BY <1>3, <3>2, <3>3 DEF Purge, CancelWorkers, TypeOK
      <3>5. QED
        BY <3>1, <3>4 DEF Active, Idle
    <2>4. DoneEnded'
      BY <2>1, <2>2 DEF DoneEnded, Live
    <2>5. WorkersConfined'
      BY <2>1, <2>3 DEF WorkersConfined, Active, Present
    <2>6. NoOrphanEvents'
      <3> SUFFICES ASSUME NEW u \in Uuids, stored'[u] # {}
                   PROVE  \E c \in Batches : Present(c, u)'
        BY DEF NoOrphanEvents
      <3>1. u \notin Orphans(b) /\ stored[u] # {}
        BY <2>1
      <3>2. PICK c \in Batches : c # b /\ Present(c, u)
        BY <3>1 DEF NoOrphanEvents, Orphans
      <3>3. QED
        BY <2>1, <3>2 DEF Present
    <2>7. QED
      BY <2>4, <2>5, <2>6
  <1>4. QED
    BY <1>1, <1>2, <1>3 DEF UserStep

LEMMA AfterGatherDone ==
  ASSUME TypeOK, NEW b \in Batches, ~job[b].done,
         NEW authFailed \in BOOLEAN, AfterGather(b, authFailed)
  PROVE  job'[b].done => job'[b].task = "ended"
  <1>1. ASSUME NEW phase, EndJob(b, phase) PROVE job'[b].task = "ended"
    BY <1>1, JobTyped DEF EndJob, TypeOK, Job
  <1>2. CASE job' = [job EXCEPT ![b].task = "enrich", ![b].phase = "enriching", ![b].retry = FALSE]
    <2>1. [job[b] EXCEPT !.task = "enrich", !.phase = "enriching", !.retry = FALSE].done = job[b].done
      BY JobTyped DEF Job
    <2>2. QED
      BY <1>2, <2>1 DEF TypeOK
  <1>3. QED
    BY <1>1, <1>2 DEF AfterGather

LEMMA ConfTask ==
  ASSUME ConfInv, NEW b \in Batches, TaskStep(b)
  PROVE  DoneEnded' /\ WorkersConfined' /\ NoOrphanEvents'
  <1> USE DEF ConfInv, BookInv
  <1>1. /\ UNCHANGED <<row, stored>>
        /\ \A c \in Batches : c # b => job'[c] = job[c]
        /\ \A c \in Batches, g \in Generations, u \in Uuids :
             c # b => worker'[c][g][u] = worker[c][g][u]
    BY TaskStepEffect
  <1>2. NoOrphanEvents'
    BY <1>1 DEF NoOrphanEvents, Present
  <1>3. job'[b].done => job'[b].task = "ended"
    <2>1. CASE RunStart(b)
      <3>1. ~job[b].done
        BY <2>1 DEF RunStart, DoneEnded
      <3>2. CASE AfterGather(b, FALSE)
        BY <3>1, <3>2, AfterGatherDone
      <3>3. CASE job' = [job EXCEPT ![b].task = "gather", ![b].retry = FALSE]
        <4>1. [job[b] EXCEPT !.task = "gather", !.retry = FALSE].done = job[b].done
          BY JobTyped DEF Job
        <4>2. QED
          BY <3>1, <3>3, <4>1 DEF TypeOK
      <3>4. QED
        BY <2>1, <3>2, <3>3 DEF RunStart
    <2>2. CASE GatherDone(b)
      <3>1. ~job[b].done
        BY <2>2 DEF GatherDone, DoneEnded
      <3>2. auth[b][job[b].run] \in BOOLEAN
        <4>1. job[b].run \in Generations
          BY JobTyped DEF Job
        <4>2. QED
          BY <4>1 DEF TypeOK
      <3>3. QED
        BY <2>2, <3>1, <3>2, AfterGatherDone DEF GatherDone
    <2>3. CASE EnrichDone(b) \/ RunRaised(b) \/ Cancelled(b)
      BY <2>3, JobTyped DEF EnrichDone, RunRaised, Cancelled, EndJob, TypeOK, Job
    <2>4. QED
      BY <2>1, <2>2, <2>3 DEF TaskStep
  <1>4. DoneEnded'
    BY <1>1, <1>3 DEF DoneEnded
  <1>5. \A g \in Generations, u \in Uuids :
          Active(b, g, u)' => job'[b].task = "gather" /\ job'[b].run = g /\ Present(b, u)'
    <2> SUFFICES ASSUME NEW g \in Generations, NEW u \in Uuids, Active(b, g, u)'
                 PROVE  job'[b].task = "gather" /\ job'[b].run = g /\ Present(b, u)'
      OBVIOUS
    <2>1. CASE RunStart(b)
      <3>1. ~Active(b, g, u)
        BY <2>1 DEF RunStart, WorkersConfined
      <3>2. CASE UNCHANGED worker
        BY <3>1, <3>2 DEF Active
      <3>3. CASE ~ UNCHANGED worker
        <4> DEFINE pending == {v \in Uuids : row[b][v].status \in TakenUp(job[b].retry)}
        <4>1. /\ job' = [job EXCEPT ![b].task = "gather", ![b].retry = FALSE]
              /\ worker' = [worker EXCEPT ![b][job[b].run] =
                              [v \in Uuids |-> IF v \in pending THEN Waiting ELSE Idle]]
          BY <2>1, <3>3 DEF RunStart
        <4>2. job'[b].task = "gather" /\ job'[b].run = job[b].run
          BY <4>1, JobTyped DEF TypeOK, Job
        <4>3. g = job[b].run
          BY <3>1, <4>1 DEF Active, TypeOK
        <4>4. u \in pending
          BY <4>1, <4>3 DEF Active, TypeOK, Idle
        <4>5. Present(b, u)
          BY <4>4 DEF TakenUp, Resumable, Present
        <4>6. QED
          BY <1>1, <4>2, <4>3, <4>5 DEF Present
      <3>4. QED
        BY <3>2, <3>3
    <2>2. CASE GatherDone(b)
      <3>1. Active(b, g, u)
        BY <2>2 DEF GatherDone, Active
      <3>2. QED
        BY <2>2, <3>1 DEF GatherDone, Spent, WorkersConfined
    <2>3. CASE EnrichDone(b) \/ RunRaised(b) \/ Cancelled(b)
      <3>1. Active(b, g, u)
        BY <2>3 DEF EnrichDone, RunRaised, Cancelled, Active
      <3>2. QED
        BY <2>3, <3>1 DEF EnrichDone, RunRaised, Cancelled, WorkersConfined
    <2>4. QED
      BY <2>1, <2>2, <2>3 DEF TaskStep
  <1>6. WorkersConfined'
    BY <1>1, <1>5 DEF WorkersConfined, Active, Present
  <1>7. QED
    BY <1>2, <1>4, <1>6

LEMMA ConfRestart ==
  ASSUME ConfInv,
         Crash \/ \E b \in Batches, g \in Generations, u \in Uuids, r \in Responses :
                    CrashBetweenWrites(b, g, u, r)
  PROVE  DoneEnded' /\ WorkersConfined' /\ NoOrphanEvents'
  <1>1. MemoryLost
    BY DEF Crash, CrashBetweenWrites
  <1>2. DoneEnded' /\ WorkersConfined'
    BY <1>1, MemoryLostEffect DEF MemoryLost, NoJob, DoneEnded, WorkersConfined
  <1>3. stored' = stored /\ \A c \in Batches, v \in Uuids : Present(c, v)' <=> Present(c, v)
    <2>1. CASE Crash
      BY <2>1 DEF Crash, store, Present
    <2>2. ASSUME NEW b \in Batches, NEW g \in Generations, NEW u \in Uuids, NEW r \in Responses,
                 CrashBetweenWrites(b, g, u, r)
          PROVE  stored' = stored /\ \A c \in Batches, v \in Uuids : Present(c, v)' <=> Present(c, v)
      <3>1. CASE InsertPage(b, u, 1, FALSE, FALSE, "done")
        BY <3>1 DEF ConfInv, BookInv, TypeOK, InsertPage, Present
      <3>2. CASE SetRow(b, u, "paused") /\ UNCHANGED stored
        <4>1. "paused" \in Resumable \cup Terminal
          BY DEF Resumable
        <4>2. QED
          BY <3>2, <4>1, SetRowEffect DEF ConfInv, BookInv, Present
      <3>3. QED
        BY <2>2, <3>1, <3>2 DEF CrashBetweenWrites
    <2>3. QED
      BY <2>1, <2>2
  <1>4. NoOrphanEvents'
    BY <1>3 DEF ConfInv, NoOrphanEvents
  <1>5. QED
    BY <1>2, <1>4

LEMMA ConfInductive == ASSUME NoFaults PROVE Spec => []ConfInv
  <1>1. Init => ConfInv
    <2> SUFFICES ASSUME Init PROVE ConfInv
      OBVIOUS
    <2>1. TypeOK
      BY RecordsTyped, ConstantsTyped DEF Init, TypeOK, BatchStatus, Assumptions
    <2>2. QED
      BY <2>1 DEF Init, ConfInv, BookInv, Unborn, CommittedPagesStored, ResumeStored, DoneEnded,
                  WorkersConfined, NoOrphanEvents, Present, Active, Holding, NoJob, NoRow, Idle
  <1>2. BookInv' /\ ConfInv /\ [Next]_vars => ConfInv'
    <2> SUFFICES ASSUME BookInv', ConfInv, [Next]_vars
                 PROVE  DoneEnded' /\ WorkersConfined' /\ NoOrphanEvents'
      BY DEF ConfInv
    <2>1. CASE Next
      <3>1. ASSUME NEW b \in Batches, NEW g \in Generations, NEW u \in Uuids, WorkerStep(b, g, u)
            PROVE  DoneEnded' /\ WorkersConfined' /\ NoOrphanEvents'
        BY <3>1, WorkerStepEffect, ConfWorker, NoFaults DEF ConfInv, BookInv
      <3>2. QED
        BY <2>1, <3>1, ConfUser, ConfTask, ConfRestart DEF Next
    <2>2. CASE UNCHANGED vars
      <3>1. UNCHANGED <<row, stored, job, worker>>
        BY <2>2 DEF vars, store, memory
      <3>2. QED
        BY <3>1 DEF ConfInv, DoneEnded, WorkersConfined, NoOrphanEvents, Present, Active
    <2>3. QED
      BY <2>1, <2>2
  <1>3. QED
    BY <1>1, <1>2, BookInductive, PTL DEF Spec

\* No worker outlives its run or its row, whatever is purged, resumed, retried
\* or restarted, as long as no answer makes a worker raise.
THEOREM WorkersAreConfined == ASSUME NoFaults PROVE Spec => []WorkersConfined
  BY ConfInductive, NoFaults, PTL DEF ConfInv

\* A purge takes an account's events for good: no page that was in flight brings
\* events back for an account no batch lists, as long as no answer makes a worker
\* raise.
THEOREM NoEventIsOrphaned == ASSUME NoFaults PROVE Spec => []NoOrphanEvents
  BY ConfInductive, NoFaults, PTL DEF ConfInv
-----------------------------------------------------------------------------
(* Every wait is bounded: the measure of a worker *)

\* No throttle asks for a wait of no time.
WaitsTakeTime ==
  \A r \in Responses : Outcome(r) = "Unavailable" => Wait(r.retryAfter, DefaultRetryAfter) > 0

\* Further, counter by counter.
Advances(w, v) ==
  \/ w.page < v.page
  \/ /\ w.page = v.page
     /\ \/ w.pauses < v.pauses
        \/ /\ w.pauses = v.pauses
           /\ \/ w.waited < v.waited
              \/ /\ w.waited = v.waited
                 /\ \/ w.upstream < v.upstream
                    \/ /\ w.upstream = v.upstream
                       /\ \/ Place[w.pc] < Place[v.pc]
                          \/ Place[w.pc] = Place[v.pc] /\ w.polls < v.polls

WithinBudget(w) ==
  /\ w.page <= MaxPages /\ w.pauses <= PauseCyclesMax /\ w.waited <= UnavailableMaxWait
  /\ w.upstream <= UpstreamRetries /\ w.polls <= ReadyPollAttempts

\* A row that waits for more pages has not had the last one; a worker that waits
\* for the semaphore has used up nothing; a run that has not begun has no worker.
MeasureInv ==
  /\ \A b \in Batches, u \in Uuids : row[b][u].more => row[b][u].pages < MaxPages
  /\ \A b \in Batches, g \in Generations, u \in Uuids :
       /\ WithinBudget(worker[b][g][u])
       /\ worker[b][g][u].pc = "waiting" => worker[b][g][u] = Waiting
  /\ \A b \in Batches : job[b].task \in {"created", "scheduled"} => Spent(b, job[b].run)

LEMMA LimitsTyped ==
  /\ MaxPages \in Nat \ {0} /\ PauseCyclesMax \in Nat /\ UnavailableMaxWait \in Nat
  /\ UpstreamRetries \in Nat /\ ReadyPollAttempts \in Nat
  BY SettingsAssumption, LimitsAssumption, BoundsAssumption

LEMMA FreshWorkers ==
  /\ WithinBudget(Idle) /\ WithinBudget(Waiting)
  /\ Waiting.pc = "waiting" /\ Idle.pc = "idle"
  BY LimitsTyped DEF WithinBudget, Idle, Waiting

LEMMA PlaceTyped ==
  ASSUME NEW w \in Worker, w.pc # "idle"
  PROVE  Place[w.pc] \in 0 .. 2
  BY DEF Worker, Place

LEMMA AdvancesFurther ==
  ASSUME NEW w \in Worker, NEW v \in Worker, w.pc # "idle", v.pc # "idle",
         Advances(w, v), WithinBudget(v)
  PROVE  /\ Further(w, v)
         /\ \A i \in DOMAIN Budget : UsedUp(v)[i] <= Budget[i]
  <1>1. DOMAIN Budget = 1 .. 6
    BY DEF Budget
  <1>2. ASSUME NEW x \in Worker
        PROVE  /\ UsedUp(x)[1] = x.page /\ UsedUp(x)[2] = x.pauses /\ UsedUp(x)[3] = x.waited
               /\ UsedUp(x)[4] = x.upstream /\ UsedUp(x)[5] = Place[x.pc] /\ UsedUp(x)[6] = x.polls
    BY DEF UsedUp
  <1>3. \A i \in DOMAIN Budget : UsedUp(v)[i] <= Budget[i]
    <2> SUFFICES ASSUME NEW i \in 1 .. 6 PROVE UsedUp(v)[i] <= Budget[i]
      BY <1>1
    <2>1. i = 1 \/ i = 2 \/ i = 3 \/ i = 4 \/ i = 5 \/ i = 6
      OBVIOUS
    <2>2. Place[v.pc] <= 2
      BY PlaceTyped
    <2>3. QED
      BY <1>2, <2>1, <2>2 DEF WithinBudget, Budget
  <1>4. ASSUME NEW i \in 1 .. 6, UsedUp(w)[i] < UsedUp(v)[i],
               \A k \in 1 .. 6 : k < i => UsedUp(w)[k] = UsedUp(v)[k]
        PROVE  Further(w, v)
    BY <1>1, <1>4 DEF Further
  <1>5. CASE w.page < v.page
    BY <1>2, <1>3, <1>4, <1>5
  <1>6. CASE w.page = v.page /\ w.pauses < v.pauses
    BY <1>2, <1>3, <1>4, <1>6
  <1>7. CASE w.page = v.page /\ w.pauses = v.pauses /\ w.waited < v.waited
    BY <1>2, <1>3, <1>4, <1>7
  <1>8. CASE w.page = v.page /\ w.pauses = v.pauses /\ w.waited = v.waited /\ w.upstream < v.upstream
    BY <1>2, <1>3, <1>4, <1>8
  <1>9. CASE /\ w.page = v.page /\ w.pauses = v.pauses /\ w.waited = v.waited
             /\ w.upstream = v.upstream /\ Place[w.pc] < Place[v.pc]
    BY <1>2, <1>3, <1>4, <1>9
  <1>10. CASE /\ w.page = v.page /\ w.pauses = v.pauses /\ w.waited = v.waited
              /\ w.upstream = v.upstream /\ Place[w.pc] = Place[v.pc] /\ w.polls < v.polls
    BY <1>2, <1>3, <1>4, <1>10
  <1>11. QED
    BY <1>3, <1>5, <1>6, <1>7, <1>8, <1>9, <1>10 DEF Advances

\* What a step of a worker does to the measure: the worker ends or advances, and
\* its row never claims a page beyond the last.
WorkerMoves(b, g, u) ==
  /\ Active(b, g, u)
  /\ \A c \in Batches : /\ job'[c].run = job[c].run
                        /\ job'[c].task \in {"created", "scheduled"} => job'[c].task = job[c].task
  /\ \A c \in Batches, h \in Generations, v \in Uuids :
       c # b \/ h # g \/ v # u => worker'[c][h][v] = worker[c][h][v]
  /\ \A c \in Batches, v \in Uuids : row'[c][v].more => row'[c][v].pages < MaxPages
  /\ \/ worker'[b][g][u] = Idle
     \/ /\ worker'[b][g][u].pc \notin {"idle", "waiting"}
        /\ Advances(worker[b][g][u], worker'[b][g][u])
        /\ WithinBudget(worker'[b][g][u])

\* Steps that leave the pages alone, and what they make of the worker.
LEMMA MovesKeepingPages ==
  ASSUME TypeOK, MeasureInv, NEW b \in Batches, NEW g \in Generations, NEW u \in Uuids,
         Active(b, g, u), UNCHANGED job,
         UNCHANGED row \/ \E status \in Resumable \cup Terminal : SetRow(b, u, status),
         NEW w, StepWorker(b, g, u, w),
         \/ w = Idle
         \/ /\ w.pc \notin {"idle", "waiting"}
            /\ Advances(worker[b][g][u], w) /\ WithinBudget(w)
  PROVE  WorkerMoves(b, g, u)
  <1>1. \A c \in Batches, v \in Uuids : row'[c][v].more => row'[c][v].pages < MaxPages
    BY SetRowEffect DEF MeasureInv
  <1>2. QED
    BY <1>1, StepWorkerEffect DEF WorkerMoves

LEMMA SettleMoves ==
  ASSUME TypeOK, MeasureInv, NEW b \in Batches, NEW g \in Generations, NEW u \in Uuids,
         Active(b, g, u), UNCHANGED job, NEW status \in Resumable \cup Terminal,
         Settle(b, g, u, status)
  PROVE  WorkerMoves(b, g, u)
  BY MovesKeepingPages DEF Settle, EndWorker

\* The ways on from an answer, from a sleep and from a probe.
LEMMA StepsAdvance ==
  ASSUME NEW w \in Worker, WithinBudget(w)
  PROVE  /\ w.pc = "fetch" /\ w.page < MaxPages =>
              LET v == [w EXCEPT !.page = @ + 1, !.upstream = 0]
              IN  v.pc = "fetch" /\ Advances(w, v) /\ WithinBudget(v)
         /\ \A n \in Nat : w.pc = "fetch" /\ n > w.waited /\ n <= UnavailableMaxWait =>
              LET v == [w EXCEPT !.pc = "backoff", !.waited = n]
              IN  v.pc = "backoff" /\ Advances(w, v) /\ WithinBudget(v)
         /\ w.pc = "fetch" /\ w.upstream < UpstreamRetries =>
              LET v == [w EXCEPT !.pc = "backoff", !.upstream = @ + 1]
              IN  v.pc = "backoff" /\ Advances(w, v) /\ WithinBudget(v)
         /\ w.pc = "fetch" /\ w.pauses < PauseCyclesMax =>
              LET v == [w EXCEPT !.pc = "probe", !.pauses = @ + 1, !.polls = 0]
              IN  v.pc = "probe" /\ Advances(w, v) /\ WithinBudget(v)
         /\ w.pc = "backoff" =>
              LET v == [w EXCEPT !.pc = "fetch"]
              IN  v.pc = "fetch" /\ Advances(w, v) /\ WithinBudget(v)
         /\ w.pc = "probe" =>
              LET v == [w EXCEPT !.pc = "fetch", !.polls = 0]
              IN  v.pc = "fetch" /\ Advances(w, v) /\ WithinBudget(v)
         /\ w.pc = "probe" /\ w.polls + 1 < ReadyPollAttempts =>
              LET v == [w EXCEPT !.polls = @ + 1]
              IN  v.pc = "probe" /\ Advances(w, v) /\ WithinBudget(v)
  <1> USE LimitsTyped DEF Worker, WithinBudget, Advances
  <1>1. w.pc = "fetch" /\ w.page < MaxPages =>
              LET v == [w EXCEPT !.page = @ + 1, !.upstream = 0]
              IN  v.pc = "fetch" /\ Advances(w, v) /\ WithinBudget(v)
    OBVIOUS
  <1>2. \A n \in Nat : w.pc = "fetch" /\ n > w.waited /\ n <= UnavailableMaxWait =>
              LET v == [w EXCEPT !.pc = "backoff", !.waited = n]
              IN  v.pc = "backoff" /\ Advances(w, v) /\ WithinBudget(v)
    OBVIOUS
  <1>3. w.pc = "fetch" /\ w.upstream < UpstreamRetries =>
              LET v == [w EXCEPT !.pc = "backoff", !.upstream = @ + 1]
              IN  v.pc = "backoff" /\ Advances(w, v) /\ WithinBudget(v)
    OBVIOUS
  <1>4. w.pc = "fetch" /\ w.pauses < PauseCyclesMax =>
              LET v == [w EXCEPT !.pc = "probe", !.pauses = @ + 1, !.polls = 0]
              IN  v.pc = "probe" /\ Advances(w, v) /\ WithinBudget(v)
    OBVIOUS
  <1>5. w.pc = "backoff" =>
              LET v == [w EXCEPT !.pc = "fetch"]
              IN  v.pc = "fetch" /\ Advances(w, v) /\ WithinBudget(v)
    BY DEF Place
  <1>6. w.pc = "probe" =>
              LET v == [w EXCEPT !.pc = "fetch", !.polls = 0]
              IN  v.pc = "fetch" /\ Advances(w, v) /\ WithinBudget(v)
    BY DEF Place
  <1>7. w.pc = "probe" /\ w.polls + 1 < ReadyPollAttempts =>
              LET v == [w EXCEPT !.polls = @ + 1]
              IN  v.pc = "probe" /\ Advances(w, v) /\ WithinBudget(v)
    OBVIOUS
  <1>8. QED
    BY <1>1, <1>2, <1>3, <1>4, <1>5, <1>6, <1>7

LEMMA AnswerMoves ==
  ASSUME TypeOK, MeasureInv, WaitsTakeTime, NEW b \in Batches, NEW g \in Generations,
         NEW u \in Uuids, NEW r \in Responses, Answer(b, g, u, r)
  PROVE  WorkerMoves(b, g, u)
  <1> DEFINE w == worker[b][g][u]
  <1>1. w \in Worker /\ WithinBudget(w) /\ w.waited \in Nat /\ w.page \in Nat
    BY EntriesTyped DEF MeasureInv, Worker
  <1>2. {"fetching", "paused", "done", "no_events", "unknown", "failed"} \subseteq Resumable \cup Terminal
    BY DEF Resumable, Terminal, Kept
  <1>3. CASE GotPage(b, g, u, r)
    <2>1. w.pc = "fetch" /\ w.page < MaxPages /\ job' = job
      BY <1>3 DEF GotPage, Fetching
    <2>2. StepWorker(b, g, u, [w EXCEPT !.page = @ + 1, !.upstream = 0])
      BY <1>3 DEF GotPage
    <2>3. \A c \in Batches, v \in Uuids : row'[c][v].more => row'[c][v].pages < MaxPages
      BY <1>3, <2>1 DEF GotPage, InsertPage, MeasureInv, TypeOK
    <2>4. /\ worker'[b][g][u].pc = "fetch"
          /\ Advances(w, worker'[b][g][u]) /\ WithinBudget(worker'[b][g][u])
      <3> DEFINE v == [w EXCEPT !.page = @ + 1, !.upstream = 0]
      <3>1. v.pc = "fetch" /\ Advances(w, v) /\ WithinBudget(v)
        BY <1>1, <2>1, StepsAdvance
      <3>2. worker'[b][g][u] = v
        BY <2>2, StepWorkerEffect
      <3>3. QED
        BY <3>1, <3>2
    <2>5. QED
      BY <2>1, <2>2, <2>3, <2>4, StepWorkerEffect DEF WorkerMoves, Active
  <1>4. CASE GotLastPage(b, g, u, r)
    <2>1. w.pc = "fetch" /\ job' = job /\ StepWorker(b, g, u, Idle)
      BY <1>4 DEF GotLastPage, Fetching, EndWorker
    <2>2. \A c \in Batches, v \in Uuids : row'[c][v].more => row'[c][v].pages < MaxPages
      BY <1>4 DEF GotLastPage, InsertPage, MeasureInv, TypeOK
    <2>3. QED
      BY <2>1, <2>2, StepWorkerEffect DEF WorkerMoves, Active
  <1>5. CASE GotVerdict(b, g, u, r)
    <2>1. Verdict[Outcome(r)] \in Resumable \cup Terminal
      BY <1>2, <1>5 DEF GotVerdict, Verdict
    <2>2. QED
      BY <1>5, <2>1, SettleMoves DEF GotVerdict, Active
  <1>6. CASE GotAuthError(b, g, u, r)
    BY <1>2, <1>6, SettleMoves DEF GotAuthError, Fetching, Active
  <1>7. CASE GotUnavailable(b, g, u, r)
    <2> DEFINE n == w.waited + Wait(r.retryAfter, DefaultRetryAfter)
    <2>1. w.pc = "fetch" /\ Active(b, g, u) /\ job' = job /\ n \in Nat /\ n > w.waited
      BY <1>1, <1>7, WaitTyped DEF GotUnavailable, Fetching, Active, WaitsTakeTime
    <2>2. CASE Settle(b, g, u, "failed")
      BY <1>2, <2>1, <2>2, SettleMoves
    <2>3. CASE /\ n <= UnavailableMaxWait
               /\ StepWorker(b, g, u, [w EXCEPT !.pc = "backoff", !.waited = n])
               /\ UNCHANGED row
      <3> DEFINE v == [w EXCEPT !.pc = "backoff", !.waited = n]
      <3>1. v.pc = "backoff" /\ Advances(w, v) /\ WithinBudget(v)
        BY <1>1, <2>1, <2>3, StepsAdvance, Zenon
      <3>2. QED
        BY <2>1, <2>3, <3>1, MovesKeepingPages, Zenon
    <2>4. QED
      BY <1>7, <2>2, <2>3 DEF GotUnavailable
  <1>8. CASE GotUpstream(b, g, u, r)
    <2>1. w.pc = "fetch" /\ Active(b, g, u) /\ job' = job
      BY <1>8 DEF GotUpstream, Fetching, Active
    <2>2. CASE Settle(b, g, u, "failed")
      BY <1>2, <2>1, <2>2, SettleMoves
    <2>3. CASE /\ w.upstream < UpstreamRetries
               /\ StepWorker(b, g, u, [w EXCEPT !.pc = "backoff", !.upstream = @ + 1])
               /\ UNCHANGED row
      <3> DEFINE v == [w EXCEPT !.pc = "backoff", !.upstream = @ + 1]
      <3>1. v.pc = "backoff" /\ Advances(w, v) /\ WithinBudget(v)
        BY <1>1, <2>1, <2>3, StepsAdvance, Zenon
      <3>2. QED
        BY <2>1, <2>3, <3>1, MovesKeepingPages, Zenon
    <2>4. QED
      BY <1>8, <2>2, <2>3 DEF GotUpstream
  <1>9. CASE GotConnectionLost(b, g, u, r)
    <2>1. w.pc = "fetch" /\ Active(b, g, u) /\ job' = job
      BY <1>9 DEF GotConnectionLost, Fetching, Active
    <2>2. CASE Settle(b, g, u, "failed")
      BY <1>2, <2>1, <2>2, SettleMoves
    <2>3. CASE /\ w.pauses < PauseCyclesMax
               /\ SetRow(b, u, "paused")
               /\ StepWorker(b, g, u, [w EXCEPT !.pc = "probe", !.pauses = @ + 1, !.polls = 0])
      <3> DEFINE v == [w EXCEPT !.pc = "probe", !.pauses = @ + 1, !.polls = 0]
      <3>1. v.pc = "probe" /\ Advances(w, v) /\ WithinBudget(v)
        BY <1>1, <2>1, <2>3, StepsAdvance, Zenon
      <3>2. QED
        BY <1>2, <2>1, <2>3, <3>1, MovesKeepingPages, Zenon
    <2>4. QED
      BY <1>9, <2>2, <2>3 DEF GotConnectionLost
  <1>10. CASE GotRaise(b, g, u, r)
    <2>1. /\ w.pc = "fetch" /\ StepWorker(b, g, u, Idle) /\ row' = row
          /\ job' = [job EXCEPT ![b].task = IF @ = "gather" /\ job[b].run = g THEN "raised" ELSE @]
      BY <1>10 DEF GotRaise, Fetching, EndWorker, store
    <2>2. \A c \in Batches : /\ job'[c].run = job[c].run
                             /\ job'[c].task \in {"created", "scheduled"} => job'[c].task = job[c].task
      BY <2>1, JobTyped DEF TypeOK, Job
    <2>3. QED
      BY <2>1, <2>2, StepWorkerEffect DEF WorkerMoves, Active, MeasureInv
  <1>11. CASE Probe(b, g, u, r)
    <2>1. w.pc = "probe" /\ Active(b, g, u) /\ job' = job
      BY <1>11 DEF Probe, Active
    <2>2. CASE Settle(b, g, u, "failed")
      BY <1>2, <2>1, <2>2, SettleMoves
    <2>3. CASE SetRow(b, u, "fetching") /\ StepWorker(b, g, u, [w EXCEPT !.pc = "fetch", !.polls = 0])
      <3> DEFINE v == [w EXCEPT !.pc = "fetch", !.polls = 0]
      <3>1. v.pc = "fetch" /\ Advances(w, v) /\ WithinBudget(v)
        BY <1>1, <2>1, <2>3, StepsAdvance, Zenon
      <3>2. QED
        BY <1>2, <2>1, <2>3, <3>1, MovesKeepingPages, Zenon
    <2>4. CASE /\ w.polls + 1 < ReadyPollAttempts
               /\ StepWorker(b, g, u, [w EXCEPT !.polls = @ + 1])
               /\ UNCHANGED row
      <3> DEFINE v == [w EXCEPT !.polls = @ + 1]
      <3>1. v.pc = "probe" /\ Advances(w, v) /\ WithinBudget(v)
        BY <1>1, <2>1, <2>4, StepsAdvance, Zenon
      <3>2. QED
        BY <2>1, <2>4, <3>1, MovesKeepingPages, Zenon
    <2>5. QED
      BY <1>11, <2>2, <2>3, <2>4 DEF Probe
  <1>12. QED
    BY <1>3, <1>4, <1>5, <1>6, <1>7, <1>8, <1>9, <1>10, <1>11 DEF Answer

LEMMA WorkerStepMoves ==
  ASSUME TypeOK, MeasureInv, WaitsTakeTime, NEW b \in Batches, NEW g \in Generations,
         NEW u \in Uuids, WorkerStep(b, g, u)
  PROVE  WorkerMoves(b, g, u)
  <1> DEFINE w == worker[b][g][u]
  <1>1. w \in Worker /\ WithinBudget(w)
    BY EntriesTyped DEF MeasureInv
  <1>2. {"fetching", "done", "failed"} \subseteq Resumable \cup Terminal
    BY DEF Resumable, Terminal, Kept
  <1>3. CASE WorkerStart(b, g, u)
    <2>1. w = Waiting /\ Active(b, g, u) /\ job' = job
      BY <1>3 DEF WorkerStart, Active, MeasureInv
    <2>2. CASE Settle(b, g, u, "failed") \/ Settle(b, g, u, "done")
      BY <1>2, <2>1, <2>2, SettleMoves
    <2>3. CASE /\ row[b][u].pages = 0 \/ row[b][u].more
               /\ SetRow(b, u, "fetching")
               /\ StepWorker(b, g, u, [Idle EXCEPT !.pc = "fetch", !.page = NextPage(b, u)])
      <3> DEFINE v == [Idle EXCEPT !.pc = "fetch", !.page = NextPage(b, u)]
      <3>1. NextPage(b, u) \in Nat /\ 0 < NextPage(b, u) /\ NextPage(b, u) <= MaxPages
        BY <2>3, EntriesTyped, LimitsTyped DEF NextPage, MeasureInv, Row
      <3>2. v.pc = "fetch" /\ Advances(w, v) /\ WithinBudget(v)
        BY <2>1, <3>1, LimitsTyped DEF Waiting, Idle, Advances, WithinBudget
      <3>3. QED
        BY <1>2, <2>1, <2>3, <3>2, MovesKeepingPages
    <2>4. QED
      BY <1>3, <2>2, <2>3 DEF WorkerStart
  <1>4. CASE Wake(b, g, u)
    <2>1. /\ w.pc = "backoff" /\ Active(b, g, u) /\ UNCHANGED <<row, job>>
          /\ StepWorker(b, g, u, [w EXCEPT !.pc = "fetch"])
      BY <1>4 DEF Wake, Active, store
    <2>2. QED
      BY <1>1, <2>1, StepsAdvance, MovesKeepingPages
  <1>5. QED
    BY <1>3, <1>4, AnswerMoves DEF WorkerStep

LEMMA MeasureWorker ==
  ASSUME TypeOK, MeasureInv, NEW b \in Batches, NEW g \in Generations, NEW u \in Uuids,
         WorkerMoves(b, g, u)
  PROVE  MeasureInv'
  <1>1. \A c \in Batches, h \in Generations, v \in Uuids :
          /\ WithinBudget(worker[c][h][v])'
          /\ worker'[c][h][v].pc = "waiting" => worker'[c][h][v] = Waiting
    BY FreshWorkers DEF WorkerMoves, MeasureInv, WithinBudget
  <1>2. ASSUME NEW c \in Batches, job'[c].task \in {"created", "scheduled"}
        PROVE  Spent(c, job[c].run)'
    <2>1. Spent(c, job[c].run) /\ job'[c].run = job[c].run
      BY <1>2 DEF WorkerMoves, MeasureInv
    <2>2. job[c].run \in Generations
      BY JobTyped DEF Job
    <2>3. \A v \in Uuids : worker'[c][job[c].run][v] = worker[c][job[c].run][v]
      BY <2>1, <2>2 DEF WorkerMoves, Spent
    <2>4. QED
      BY <2>1, <2>3 DEF Spent, Active
  <1>3. QED
    BY <1>1, <1>2 DEF MeasureInv, WorkerMoves

\* Every other step: the workers stay, or end, or are those of a run that begins,
\* whose generation had none.
WorkersStayOrBegin ==
  \A b \in Batches, g \in Generations, u \in Uuids :
    \/ worker'[b][g][u] = worker[b][g][u]
    \/ worker'[b][g][u] = Idle
    \/ ~Active(b, g, u) /\ worker'[b][g][u] = Waiting

LEMMA MeasureUser ==
  ASSUME TypeOK, MeasureInv, NEW b \in Batches, UserStep(b)
  PROVE  MeasureInv' /\ WorkersStayOrBegin
  <1>1. \A c \in Batches, h \in Generations, v \in Uuids :
          worker'[c][h][v] = worker[c][h][v] \/ worker'[c][h][v] = Idle
    <2>1. CASE UNCHANGED worker
      BY <2>1
    <2>2. CASE Purge(b)
      BY <2>2 DEF Purge, CancelWorkers, TypeOK
    <2>3. QED
      BY <2>1, <2>2 DEF UserStep, CreateBatch, OpenPage, Retry
  <1>2. \A c \in Batches, v \in Uuids : row'[c][v].more => row'[c][v].pages < MaxPages
    <2>1. NoRow.pages = 0 /\ QueuedRow.pages = 0
      BY DEF NoRow, QueuedRow
    <2>2. \A c \in Batches, v \in Uuids : row'[c][v] = row[c][v] \/ row'[c][v] \in {NoRow, QueuedRow}
      <3>1. ASSUME NEW us \in SUBSET Uuids, CreateBatch(b, us)
            PROVE  \A c \in Batches, v \in Uuids : row'[c][v] = row[c][v] \/ row'[c][v] \in {NoRow, QueuedRow}
        BY <3>1 DEF CreateBatch, TypeOK
      <3>2. CASE Purge(b)
        BY <3>2 DEF Purge, PurgeStore, TypeOK
      <3>3. CASE UNCHANGED row
        BY <3>3
      <3>4. QED
        BY <3>1, <3>2, <3>3 DEF UserStep, OpenPage, Retry, store
    <2>3. QED
      BY <2>1, <2>2, LimitsTyped DEF MeasureInv
  <1>3. \A c \in Batches : job'[c].task \in {"created", "scheduled"} => Spent(c, job'[c].run)
    <2>1. ASSUME NEW task \in {"created", "scheduled"}, NEW retry \in BOOLEAN, Start(b, task, retry)
          PROVE  \A c \in Batches : job'[c].task \in {"created", "scheduled"} => Spent(c, job'[c].run)
      <3>1. PICK h \in Generations :
              /\ Spent(b, h)
              /\ job' = [job EXCEPT ![b] = [NoJob EXCEPT !.task = task, !.run = h, !.retry = retry]]
        BY <2>1 DEF Start
      <3>2. job'[b].run = h /\ \A c \in Batches : c # b => job'[c] = job[c]
        BY <3>1 DEF TypeOK, NoJob
      <3>3. QED
        BY <3>1, <3>2 DEF MeasureInv
    <2>2. CASE Purge(b)
      <3>1. \A c \in Batches : job'[c].task \in {"created", "scheduled"} => job'[c] = job[c]
        <4>1. job'[b].task \in {"doomed", "cancelling"} \/ job'[b] = job[b]
          BY <2>2, JobTyped DEF Purge, CancelTask, TypeOK, Job
        <4>2. \A c \in Batches : c # b => job'[c] = job[c]
          BY <2>2 DEF Purge, CancelTask, TypeOK
        <4>3. QED
          BY <4>1, <4>2
      <3>2. QED
        BY <3>1 DEF MeasureInv
    <2>3. QED
      BY <2>1, <2>2 DEF UserStep, CreateBatch, OpenPage, Retry
  <1>4. \A c \in Batches, h \in Generations : Spent(c, h) => Spent(c, h)'
    BY <1>1, FreshWorkers DEF Spent, Active
  <1>5. \A c \in Batches : job'[c].task \in {"created", "scheduled"} => Spent(c, job[c].run)'
    <2>1. \A c \in Batches : job'[c].run \in Generations
      BY UserStepTyped DEF TypeOK, Job
    <2>2. QED
      BY <1>3, <1>4, <2>1 DEF Spent, Active
  <1>6. QED
    BY <1>1, <1>2, <1>5, FreshWorkers DEF MeasureInv, WorkersStayOrBegin, WithinBudget

LEMMA MeasureTask ==
  ASSUME TypeOK, MeasureInv, NEW b \in Batches, TaskStep(b)
  PROVE  MeasureInv' /\ WorkersStayOrBegin
  <1>1. /\ UNCHANGED row
        /\ \A c \in Batches : c # b => job'[c] = job[c]
    BY TaskStepEffect
  <1>2. job'[b].task \notin {"created", "scheduled"}
    BY JobTyped DEF TaskStep, RunStart, GatherDone, EnrichDone, RunRaised, Cancelled, AfterGather, EndJob,
                    TypeOK, Job
  <1>3. /\ \A c \in Batches, h \in Generations, v \in Uuids : c # b => worker'[c][h][v] = worker[c][h][v]
        /\ WorkersStayOrBegin
    <2>1. CASE UNCHANGED worker
      BY <2>1 DEF WorkersStayOrBegin
    <2>2. CASE /\ job[b].task \in {"created", "scheduled"}
               /\ \E pending \in SUBSET Uuids :
                    worker' = [worker EXCEPT ![b][job[b].run] =
                                 [u \in Uuids |-> IF u \in pending THEN Waiting ELSE Idle]]
      <3>1. PICK pending \in SUBSET Uuids :
              worker' = [worker EXCEPT ![b][job[b].run] =
                           [u \in Uuids |-> IF u \in pending THEN Waiting ELSE Idle]]
        BY <2>2
      <3>2. Spent(b, job[b].run)
        BY <2>2 DEF MeasureInv
      <3>3. \A c \in Batches, h \in Generations, v \in Uuids :
              IF c = b /\ h = job[b].run THEN worker'[c][h][v] \in {Waiting, Idle}
              ELSE worker'[c][h][v] = worker[c][h][v]
        BY <3>1 DEF TypeOK
      <3>4. QED
        BY <3>2, <3>3 DEF WorkersStayOrBegin, Spent
    <2>3. QED
      BY <2>1, <2>2 DEF TaskStep, RunStart, GatherDone, EnrichDone, RunRaised, Cancelled
  <1>4. \A c \in Batches : job'[c].task \in {"created", "scheduled"} => Spent(c, job[c].run)'
    <2>1. \A c \in Batches : job[c].run \in Generations
      BY DEF TypeOK, Job
    <2>2. QED
      BY <1>1, <1>2, <1>3, <2>1 DEF MeasureInv, Spent, Active
  <1>5. QED
    BY <1>1, <1>3, <1>4, FreshWorkers DEF MeasureInv, WorkersStayOrBegin, WithinBudget

LEMMA MeasureRestart ==
  ASSUME TypeOK, MeasureInv,
         Crash \/ \E b \in Batches, g \in Generations, u \in Uuids, r \in Responses :
                    CrashBetweenWrites(b, g, u, r)
  PROVE  MeasureInv' /\ WorkersStayOrBegin
  <1>1. MemoryLost
    BY DEF Crash, CrashBetweenWrites
  <1>2. \A c \in Batches, h \in Generations, v \in Uuids : worker'[c][h][v] = Idle
    BY <1>1 DEF MemoryLost
  <1>3. \A c \in Batches, v \in Uuids : row'[c][v].more => row'[c][v].pages < MaxPages
    <2>1. CASE Crash
      BY <2>1 DEF Crash, store, MeasureInv
    <2>2. ASSUME NEW b \in Batches, NEW g \in Generations, NEW u \in Uuids, NEW r \in Responses,
                 CrashBetweenWrites(b, g, u, r)
          PROVE  \A c \in Batches, v \in Uuids : row'[c][v].more => row'[c][v].pages < MaxPages
      <3>1. CASE InsertPage(b, u, 1, FALSE, FALSE, "done")
        BY <3>1 DEF InsertPage, MeasureInv, TypeOK
      <3>2. CASE SetRow(b, u, "paused")
        <4>1. "paused" \in Resumable \cup Terminal
          BY DEF Resumable
        <4>2. QED
          BY <3>2, <4>1, SetRowEffect DEF MeasureInv
      <3>3. QED
        BY <2>2, <3>1, <3>2 DEF CrashBetweenWrites
    <2>3. QED
      BY <2>1, <2>2
  <1>4. QED
    BY <1>1, <1>2, <1>3, FreshWorkers, MemoryLostEffect
    DEF MeasureInv, WorkersStayOrBegin, WithinBudget

\* One step, of whatever kind: the invariant stays, and a worker that changes
\* ends or advances.
LEMMA MeasureNext ==
  ASSUME TypeOK, TypeOK', MeasureInv, WaitsTakeTime, [Next]_vars
  PROVE  /\ MeasureInv'
         /\ \A b \in Batches, g \in Generations, u \in Uuids :
              Active(b, g, u) /\ worker[b][g][u] # worker[b][g][u]' =>
                \/ ~Active(b, g, u)'
                \/ /\ Further(worker[b][g][u], worker[b][g][u]')
                   /\ \A i \in DOMAIN Budget : UsedUp(worker[b][g][u]')[i] <= Budget[i]
  <1>1. ASSUME NEW b \in Batches, NEW g \in Generations, NEW u \in Uuids, WorkerStep(b, g, u)
        PROVE  /\ MeasureInv'
               /\ \A c \in Batches, h \in Generations, v \in Uuids :
                    Active(c, h, v) /\ worker[c][h][v] # worker'[c][h][v] =>
                      \/ ~Active(c, h, v)'
                      \/ /\ Further(worker[c][h][v], worker'[c][h][v])
                         /\ \A i \in DOMAIN Budget : UsedUp(worker'[c][h][v])[i] <= Budget[i]
    <2>1. WorkerMoves(b, g, u)
      BY <1>1, WorkerStepMoves
    <2>2. worker[b][g][u] \in Worker /\ worker'[b][g][u] \in Worker
      BY DEF TypeOK
    <2>3. CASE worker'[b][g][u] = Idle
      BY <2>1, <2>3, FreshWorkers, MeasureWorker DEF WorkerMoves, Active
    <2>4. CASE /\ worker'[b][g][u].pc # "idle"
               /\ Advances(worker[b][g][u], worker'[b][g][u])
               /\ WithinBudget(worker'[b][g][u])
      <3>1. /\ Further(worker[b][g][u], worker'[b][g][u])
            /\ \A i \in DOMAIN Budget : UsedUp(worker'[b][g][u])[i] <= Budget[i]
        BY <2>1, <2>2, <2>4, AdvancesFurther DEF WorkerMoves, Active
      <3>2. QED
        BY <2>1, <3>1, MeasureWorker DEF WorkerMoves
    <2>5. QED
      BY <2>1, <2>3, <2>4 DEF WorkerMoves
  <1>2. ASSUME MeasureInv', WorkersStayOrBegin
        PROVE  /\ MeasureInv'
               /\ \A c \in Batches, h \in Generations, v \in Uuids :
                    Active(c, h, v) /\ worker[c][h][v] # worker'[c][h][v] => ~Active(c, h, v)'
    BY <1>2, FreshWorkers DEF WorkersStayOrBegin, Active
  <1>3. CASE UNCHANGED vars
    <2>1. UNCHANGED <<row, worker, job>>
      BY <1>3 DEF vars, store, memory
    <2>2. MeasureInv'
      BY <2>1 DEF MeasureInv, WithinBudget, Spent, Active
    <2>3. QED
      BY <2>1, <2>2
  <1>4. CASE Next
    <2>1. ASSUME ~\E b \in Batches, g \in Generations, u \in Uuids : WorkerStep(b, g, u)
          PROVE  MeasureInv' /\ WorkersStayOrBegin
      BY <1>4, <2>1, MeasureUser, MeasureTask, MeasureRestart DEF Next
    <2>2. QED
      BY <1>1, <1>2, <2>1
  <1>5. QED
    BY <1>3, <1>4

\* Every wait is bounded (jobs.py:5), for any limits and any mixture of
\* throttles, failed tries, outages and pages: a worker goes strictly forward
\* in a measure that is bounded, or ends.  An answer that asks for a wait of
\* nothing is the exception (run no_wait), hence the assumption.
THEOREM EveryWaitIsBounded == ASSUME WaitsTakeTime PROVE Spec => WorkersGetOn
  <1>1. Init => MeasureInv
    BY FreshWorkers, LimitsTyped DEF Init, MeasureInv, NoRow, NoJob
  <1>2. TypeOK /\ TypeOK' /\ MeasureInv /\ [Next]_vars => MeasureInv'
    BY MeasureNext, WaitsTakeTime
  <1>3. Spec => []MeasureInv
    BY <1>1, <1>2, TypeCorrect, PTL DEF Spec
  <1>4. TypeOK /\ TypeOK' /\ MeasureInv /\ [Next]_vars =>
          [\A b \in Batches, g \in Generations, u \in Uuids :
             Active(b, g, u) /\ worker[b][g][u] # worker[b][g][u]' =>
               \/ ~Active(b, g, u)'
               \/ /\ Further(worker[b][g][u], worker[b][g][u]')
                  /\ \A i \in DOMAIN Budget : UsedUp(worker[b][g][u]')[i] <= Budget[i]]_vars
    BY MeasureNext, WaitsTakeTime
  <1>5. QED
    BY <1>3, <1>4, TypeCorrect, PTL DEF Spec, WorkersGetOn


=============================================================================

-------------------------- MODULE WatchedPullProofs --------------------------
(***************************************************************************)
(* WatchedPull implements Paging and ProgressStream, so that the theorems  *)
(* about the two hold of the pull with its watchers; and a page that a     *)
(* message told of is never taken back.                                    *)
(***************************************************************************)
EXTENDS WatchedPull, PagingProofs

Log == INSTANCE ProgressStreamProofs WITH Jobs <- 1 .. MaxJobs

-----------------------------------------------------------------------------
(* The invariant *)

\* The runner's job is the one whose run is under way; a batch whose row says
\* running has a live job, unless the process has died since.
Runs ==
    /\ current \in 0 .. MaxJobs
    /\ pull.pc # "idle" <=> Live
    /\ seen.batch = "running" /\ current # 0 => Live

WatchInv ==
    /\ Inv /\ Log!Inv /\ Runs
    /\ tab \in {"still", "polling", "leaving"}
    /\ told \in Nat /\ NothingToldInVain

LEMMA WatchInvInit == WatchInit => WatchInv
<1>. SUFFICES ASSUME WatchInit PROVE WatchInv
  OBVIOUS
<1>1. Inv
  BY InvInit DEF WatchInit
<1>2. Log!Inv
  <2>1. Log!Init
    BY DEF WatchInit, Log!Init, Log!NoJob, Log!NewJob, Log!Closed,
           Progress!NoJob, Progress!NewJob, Progress!Closed
  <2>. QED
    BY <2>1, Log!InvInit
<1>3. job[1].done = FALSE /\ current = 1 /\ 1 \in 1 .. MaxJobs
  BY WatchAssumption DEF WatchInit, Progress!NewJob
<1>4. pull.pc = "scheduled"
  BY DEF WatchInit, Init, Idle
<1>5. Runs
  BY <1>3, <1>4 DEF Runs, Live
<1>6. told = 0 /\ file.pages = 0 /\ tab = "still"
  BY DEF WatchInit, Init
<1>. QED
  BY <1>1, <1>2, <1>5, <1>6 DEF WatchInv, NothingToldInVain

-----------------------------------------------------------------------------
(* Each step is one of Paging, or leaves it alone *)

LEMMA PagingStep == ASSUME [WatchNext]_all PROVE [Next]_vars
<1>1. CASE UNCHANGED all
  BY <1>1 DEF all
<1>2. ASSUME NEW e \in Events, Arrive(e) PROVE Next
  BY <1>2 DEF Next
<1>3. ASSUME OddReply PROVE Next
  BY <1>3 DEF Next
<1>4. ASSUME Run PROVE Next
  BY <1>4 DEF Run, Next
<1>5. ASSUME NEW j \in 1 .. MaxJobs, Late(j) PROVE UNCHANGED vars
  BY <1>5 DEF Late
<1>6. ASSUME NEW retry \in BOOLEAN, Launch(retry) PROVE Next
  BY <1>6 DEF Launch, Next
<1>7. ASSUME Load PROVE [Next]_vars
  BY <1>6, <1>7 DEF Load
<1>8. ASSUME Visit \/ Reload \/ Poll \/ RetryFailed PROVE [Next]_vars
  BY <1>6, <1>7, <1>8 DEF Visit, Reload, Poll, RetryFailed
<1>9. ASSUME NEW s \in Streams, WatchStream(s) \/ StreamEvent(s) PROVE UNCHANGED vars
  BY <1>9 DEF WatchStream, StreamEvent
<1>10. ASSUME Die PROVE Next
  BY <1>10 DEF Die, Next
<1>. QED
  BY <1>1, <1>2, <1>3, <1>4, <1>5, <1>8, <1>9, <1>10 DEF WatchNext

\* The resume point of the file never goes back, and a page that is stored is
\* the next one.
LEMMA PagesGrow ==
    ASSUME Inv, [Next]_vars
    PROVE  /\ file'.pages >= file.pages
           /\ GotPage => file'.pages = pull.page
<1>. DEFINE Keeps == file'.pages = file.pages
<1>0. file.pages \in Nat /\ seen.pages = file.pages /\ seen \in Store
  BY DEF Inv, TypeOK, Store, Agreed
<1>1. ASSUME NEW new, Statement(new), new.pages = seen.pages PROVE Keeps
  BY <1>0, <1>1 DEF Statement
<1>2. ASSUME NEW b, Statement([seen EXCEPT !.batch = b]) PROVE Keeps
  <2>1. [seen EXCEPT !.batch = b].pages = seen.pages
    BY <1>0 DEF Store
  <2>. QED
    BY <1>1, <1>2, <2>1
<1>3. ASSUME NEW st, Statement([seen EXCEPT !.status = st]) PROVE Keeps
  <2>1. [seen EXCEPT !.status = st].pages = seen.pages
    BY <1>0 DEF Store
  <2>. QED
    BY <1>1, <1>3, <2>1
<1>4. CASE GotPage
  <2>1. pull.page = file.pages + 1
    BY <1>4 DEF Inv, Agreed, GotPage
  <2>2. file'.pages = pull.page
    BY <1>4 DEF GotPage, Transaction, WithPage
  <2>. QED
    BY <1>0, <2>1, <2>2
<1>5. CASE ~GotPage
  <2>1. ASSUME NEW e \in Events, Arrive(e) PROVE Keeps
    BY <2>1 DEF Arrive, store
  <2>2. ASSUME NEW retry \in BOOLEAN, Start(retry) PROVE Keeps
    BY <2>2 DEF Start, store
  <2>3. ASSUME RunStart \/ WorkerStart \/ RunEnd \/ \E pc \in {"over", "rejected"} : GotError(pc)
        PROVE  Keeps
    BY <1>2, <1>3, <2>3 DEF RunStart, WorkerStart, RunEnd, GotError
  <2>4. ASSUME PageRaises PROVE Keeps
    BY <2>4 DEF PageRaises, Refused, Broken, store
  <2>5. ASSUME OddReply \/ Crash \/ UNCHANGED vars PROVE Keeps
    BY <2>5 DEF OddReply, Broken, Crash, vars, store
  <2>6. Keeps
    BY <1>5, <2>1, <2>2, <2>3, <2>4, <2>5 DEF Next
  <2>. QED
    BY <1>0, <1>5, <2>6
<1>. QED
  BY <1>4, <1>5

-----------------------------------------------------------------------------
(* Each step is one of ProgressStream, or leaves it alone *)

\* What the lemmas on single actions show.
Follows == [Log!Next]_(Log!vars) /\ Runs'

LEMMA RunFacts ==
    ASSUME WatchInv, pull.pc # "idle"
    PROVE  current \in 1 .. MaxJobs /\ job[current] \in Log!Job /\ ~job[current].done
<1>1. current \in 1 .. MaxJobs /\ ~job[current].done
  BY WatchAssumption DEF WatchInv, Runs, Live
<1>2. job \in [1 .. MaxJobs -> Log!Job]
  BY DEF WatchInv, Log!Inv, Log!TypeOK
<1>. QED
  BY <1>1, <1>2

\* A message leaves it open whether a job is live.
LEMMA Emitted ==
    ASSUME WatchInv, NEW j \in 1 .. MaxJobs, Progress!Emit(j), current' = current
    PROVE  Log!Next /\ (Live' <=> Live)
<1>1. job \in [1 .. MaxJobs -> Log!Job] /\ current \in 0 .. MaxJobs
  BY DEF WatchInv, Log!Inv, Log!TypeOK, Runs
<1>2. Log!Emit(j)
  BY DEF Progress!Emit, Log!Emit, Progress!Notify, Log!Notify
<1>3. job' = [job EXCEPT ![j].log = @ + 1]
  BY DEF Progress!Emit
<1>4. ASSUME current # 0 PROVE job'[current].done = job[current].done
  <2>1. job[current] \in Log!Job /\ current \in 1 .. MaxJobs
    BY <1>1, <1>4
  <2>2. CASE current = j
    <3>1. job'[current] = [job[current] EXCEPT !.log = @ + 1]
      BY <1>1, <1>3, <2>1, <2>2
    <3>. QED
      BY <2>1, <3>1 DEF Log!Job
  <2>3. CASE current # j
    BY <1>1, <1>3, <2>1, <2>3
  <2>. QED
    BY <2>2, <2>3
<1>. QED
  BY <1>2, <1>4 DEF Log!Next, Live

LEMMA RunFollows == ASSUME WatchInv, Run PROVE Follows
<1>1. pull.pc # "idle" /\ pull \in Pull
  BY DEF Run, RunStart, WorkerStart, GotPage, PageRaises, GotError, RunEnd, WatchInv, Inv, TypeOK
<1>2. current \in 1 .. MaxJobs /\ job[current] \in Log!Job /\ ~job[current].done /\ Live
  BY <1>1, RunFacts DEF WatchInv, Runs
<1>3. ASSUME pull'.pc # "idle", current' = current, Live' PROVE Runs'
  BY <1>2, <1>3 DEF Runs
<1>4. ASSUME Progress!Emit(current), current' = current, pull'.pc # "idle" PROVE Follows
  BY <1>2, <1>3, <1>4, Emitted DEF Follows
<1>5. ASSUME Quiet, pull'.pc # "idle" PROVE Follows
  <2>1. current' = current /\ job' = job /\ stream' = stream
    BY <1>5 DEF Quiet, watchers
  <2>. QED
    BY <1>2, <1>3, <1>5, <2>1 DEF Follows, Live, Log!vars
<1>6. CASE RunStart /\ Emits
  BY <1>4, <1>6 DEF RunStart, Emits, Idle
<1>7. CASE WorkerStart /\ Quiet
  BY <1>1, <1>5, <1>7 DEF WorkerStart, Pull
<1>8. CASE GotPage /\ Progress!Emit(current) /\ UNCHANGED <<current, tab>>
  BY <1>1, <1>4, <1>8 DEF GotPage, Pull
<1>9. CASE PageRaises /\ Quiet
  BY <1>1, <1>5, <1>9 DEF PageRaises, Pull
<1>10. CASE GotError("over") /\ Emits
  BY <1>1, <1>4, <1>10 DEF GotError, Emits, Pull
<1>11. CASE GotError("rejected") /\ Quiet
  BY <1>1, <1>5, <1>11 DEF GotError, Pull
<1>12. ASSUME RunEnd, NEW left \in BOOLEAN, Progress!End(current, left), current' = current
       PROVE  Follows
  <2>1. Log!End(current, left)
    BY <1>12 DEF Progress!End, Log!End, Progress!Notify, Log!Notify, Progress!Last, Log!Last
  <2>2. job'[current].done
    BY <1>2, <1>12 DEF Progress!End, Progress!Last, WatchInv, Log!Inv, Log!TypeOK
  <2>3. pull'.pc = "idle" /\ seen'.batch # "running"
    <3>1. seen \in Store
      BY DEF WatchInv, Inv, TypeOK
    <3>2. seen' = [seen EXCEPT !.batch = Verdict] /\ pull' = Idle
      BY <1>12 DEF RunEnd, Statement
    <3>3. seen'.batch = Verdict
      BY <3>1, <3>2 DEF Store
    <3>. QED
      BY <3>2, <3>3 DEF Idle, Verdict
  <2>. QED
    BY <1>2, <1>12, <2>1, <2>2, <2>3 DEF Follows, Runs, Live, Log!Next
<1>. QED
  BY <1>6, <1>7, <1>8, <1>9, <1>10, <1>11, <1>12 DEF Run

LEMMA LaunchFollows ==
    ASSUME WatchInv, NEW retry \in BOOLEAN, Launch(retry), current < MaxJobs
    PROVE  Follows
<1>1. current + 1 \in 1 .. MaxJobs /\ job \in [1 .. MaxJobs -> Log!Job]
  BY WatchAssumption DEF WatchInv, Runs, Log!Inv, Log!TypeOK
<1>2. Log!Make(current + 1) /\ current' = current + 1
  BY DEF Launch, Progress!Make, Log!Make, Progress!NewJob, Log!NewJob
<1>3. job'[current'].done = FALSE
  BY <1>1, <1>2 DEF Log!Make, Log!NewJob
<1>4. pull'.pc = "scheduled"
  BY DEF Launch, Start, Idle
<1>. QED
  BY <1>1, <1>2, <1>3, <1>4 DEF Follows, Runs, Live, Log!Next

LEMMA LoadFollows == ASSUME WatchInv, Load PROVE Follows
<1>1. CASE seen.batch = "running" /\ ~Live /\ Launch(FALSE)
  <2>1. current = 0
    BY <1>1 DEF WatchInv, Runs
  <2>2. current < MaxJobs
    BY <2>1, WatchAssumption
  <2>3. ASSUME NEW retry \in BOOLEAN, Launch(retry) PROVE Follows
    BY <2>2, <2>3, LaunchFollows
  <2>. QED
    BY <1>1, <2>3
<1>2. CASE UNCHANGED <<vars, job, stream, current, told>>
  BY <1>2 DEF Follows, Log!vars, WatchInv, Runs, Live, vars, store
<1>. QED
  BY <1>1, <1>2 DEF Load

\* The run and what it says are left alone.
LEMMA OthersFollow ==
    ASSUME WatchInv, UNCHANGED <<vars, job, current>>, [Log!Next]_(Log!vars)
    PROVE  Follows
BY DEF Follows, WatchInv, Runs, Live, vars, store

LEMMA StreamFollows ==
    ASSUME WatchInv, NEW s \in Streams, WatchStream(s) \/ StreamEvent(s) PROVE Follows
<1>1. UNCHANGED <<vars, current>>
  BY DEF WatchStream, StreamEvent
<1>2. current # 0 => current \in 1 .. MaxJobs
  BY DEF WatchInv, Runs
<1>3. CASE Progress!StreamStep(s)
  <2>1. Log!StreamStep(s) /\ job' = job
    BY <1>3 DEF Progress!StreamStep, Log!StreamStep, Progress!Deliver, Log!Deliver, Progress!Finish,
          Log!Finish, Progress!Sleep, Log!Sleep, Progress!Wake, Log!Wake, Progress!Step, Log!Step,
          Progress!MayFinish, Log!MayFinish, Progress!Behind, Log!Behind, Progress!Over, Log!Over,
          Progress!Ended, Log!Ended, Progress!Closed, Log!Closed
  <2>. QED
    BY <1>1, <2>1, OthersFollow DEF Log!Next
<1>4. CASE Progress!Timeout(s) \/ Progress!Drop(s)
  <2>1. (Log!Timeout(s) \/ Log!Drop(s)) /\ job' = job
    BY <1>4 DEF Progress!Timeout, Log!Timeout, Progress!Drop, Log!Drop, Progress!Step, Log!Step,
          Progress!Following, Log!Following, Progress!Closed, Log!Closed
  <2>. QED
    BY <1>1, <2>1, OthersFollow DEF Log!Next
<1>5. CASE current # 0 /\ Progress!Open(s, current)
  <2>1. Log!Open(s, current) /\ job' = job
    BY <1>5 DEF Progress!Open, Log!Open, Progress!Step, Log!Step
  <2>. QED
    BY <1>1, <1>2, <1>5, <2>1, OthersFollow DEF Log!Next
<1>. QED
  BY <1>3, <1>4, <1>5 DEF WatchStream, StreamEvent

LEMMA DieFollows == ASSUME WatchInv, Die PROVE Follows
<1>1. Log!Restart
  BY DEF Die, Progress!Restart, Log!Restart, Progress!NoJob, Log!NoJob, Progress!Closed, Log!Closed
<1>2. current' = 0 /\ pull'.pc = "idle"
  BY DEF Die, Crash, Idle
<1>. QED
  BY <1>1, <1>2, WatchAssumption DEF Follows, Runs, Live, Log!Next

LEMMA QuietFollows ==
    ASSUME WatchInv, Quiet, pull' = pull, seen' = seen PROVE Follows
BY DEF Follows, Quiet, watchers, Log!vars, WatchInv, Runs, Live

LEMMA LogStep == ASSUME WatchInv, [WatchNext]_all PROVE Follows
<1>1. CASE UNCHANGED all
  BY <1>1, QuietFollows DEF all, Quiet, vars, store
<1>2. ASSUME NEW e \in Events, Arrive(e), Quiet PROVE Follows
  BY <1>2, QuietFollows DEF Arrive, store
<1>3. ASSUME OddReply, Quiet PROVE Follows
  BY <1>3, QuietFollows DEF OddReply, Broken
<1>4. ASSUME NEW j \in 1 .. MaxJobs, Late(j) PROVE Follows
  <2>1. UNCHANGED <<vars, current>> /\ Log!Next /\ (Live' <=> Live)
    BY <1>4, Emitted DEF Late
  <2>. QED
    BY <2>1 DEF Follows, WatchInv, Runs, vars, store
<1>5. ASSUME Visit \/ Reload PROVE Follows
  BY <1>5, LoadFollows DEF Visit, Reload
<1>6. ASSUME Poll PROVE Follows
  BY <1>6, OthersFollow DEF Poll, Log!vars
<1>7. ASSUME RetryFailed PROVE Follows
  <2>1. current < MaxJobs
    BY <1>7, WatchAssumption DEF RetryFailed, WatchInv, Runs, Inv, TypeOK
  <2>. QED
    BY <1>7, <2>1, LaunchFollows DEF RetryFailed
<1>. QED
  BY <1>1, <1>2, <1>3, <1>4, <1>5, <1>6, <1>7, RunFollows, StreamFollows, DieFollows DEF WatchNext

-----------------------------------------------------------------------------
(* The invariant is kept *)

\* A message that tells of a page comes after its commit.
LEMMA ToldKeeps ==
    ASSUME WatchInv, [WatchNext]_all, [Next]_vars
    PROVE  told' \in Nat /\ told' <= file'.pages
<1>1. /\ told \in Nat /\ told <= file.pages /\ Inv /\ file.pages \in Nat /\ pull.page \in Nat
  BY DEF WatchInv, NothingToldInVain, Inv, TypeOK, Store, Pull
<1>2. Inv'
  BY <1>1, InvNext
<1>3. file'.pages \in Nat /\ file'.pages >= file.pages /\ (GotPage => file'.pages = pull.page)
  BY <1>1, <1>2, PagesGrow DEF Inv, TypeOK, Store
<1>4. told' = told \/ (GotPage /\ told' = pull.page)
  <2>1. Quiet \/ UNCHANGED all => told' = told
    BY DEF Quiet, all, watchers
  <2>2. Run => told' = told \/ (GotPage /\ told' = pull.page)
    BY <2>1 DEF Run, Emits
  <2>3. Visit \/ Reload \/ Poll \/ RetryFailed \/ Die => told' = told
    BY DEF Visit, Reload, Load, Poll, RetryFailed, Launch, Die
  <2>4. \A s \in Streams : WatchStream(s) \/ StreamEvent(s) => told' = told
    BY DEF WatchStream, StreamEvent
  <2>5. \A j \in 1 .. MaxJobs : Late(j) => told' = told
    BY DEF Late
  <2>. QED
    BY <2>1, <2>2, <2>3, <2>4, <2>5 DEF WatchNext
<1>. QED
  BY <1>1, <1>3, <1>4

LEMMA TabKeeps ==
    ASSUME WatchInv, [WatchNext]_all PROVE tab' \in {"still", "polling", "leaving"}
<1>1. tab \in {"still", "polling", "leaving"}
  BY DEF WatchInv
<1>2. Quiet \/ UNCHANGED all => tab' = tab
  BY DEF Quiet, all, watchers
<1>3. Run => tab' = tab
  BY <1>2 DEF Run, Emits
<1>4. Visit \/ Reload \/ Poll \/ RetryFailed => tab' \in {"still", "polling", "leaving"}
  BY DEF Visit, Reload, Load, Poll, RetryFailed
<1>5. \A s \in Streams : WatchStream(s) \/ StreamEvent(s) => tab' = tab
  BY DEF WatchStream, StreamEvent
<1>6. (\A j \in 1 .. MaxJobs : Late(j) => tab' = tab) /\ (Die => tab' = tab)
  BY DEF Late, Die
<1>. QED
  BY <1>1, <1>2, <1>3, <1>4, <1>5, <1>6 DEF WatchNext

LEMMA WatchInvNext == WatchInv /\ [WatchNext]_all => WatchInv'
<1>. SUFFICES ASSUME WatchInv, [WatchNext]_all PROVE WatchInv'
  OBVIOUS
<1>1. [Next]_vars
  BY PagingStep
<1>2. Inv'
  BY <1>1, InvNext DEF WatchInv
<1>3. Follows
  BY LogStep
<1>4. Log!Inv' /\ Runs'
  BY <1>3, Log!InvNext DEF Follows, WatchInv
<1>. QED
  BY <1>1, <1>2, <1>4, ToldKeeps, TabKeeps DEF WatchInv, NothingToldInVain

-----------------------------------------------------------------------------
(* The theorems *)

THEOREM WatchInvariance == WatchSpec => []WatchInv
  BY WatchInvInit, WatchInvNext, PTL DEF WatchSpec

\* The pull with its watchers is a pull: whatever is watched, polled or retried.
THEOREM ImplementsPaging == WatchSpec => Spec
<1>1. WatchInit => Init
  BY DEF WatchInit
<1>2. [WatchNext]_all => [Next]_vars
  BY PagingStep
<1>. QED
  BY <1>1, <1>2, PTL DEF WatchSpec, Spec

\* The types of the state; the runner's job is one of the jobs that were made.
THEOREM WatchTypeCorrect == WatchSpec => []WatchTypeOK
<1>1. WatchInv => WatchTypeOK
  BY DEF WatchInv, WatchTypeOK, Inv, Runs, Log!Inv, Log!TypeOK, Progress!TypeOK,
         Log!Job, Progress!Job, Log!Stream, Progress!Stream, Log!Following, Progress!Following
<1>. QED
  BY <1>1, WatchInvariance, PTL

\* An account that is done has every event that was there when its pull began
\* (README, "Paging is exact").
THEOREM WatchedMissesNothing == WatchSpec => [](NoneMissed /\ ResumeMissesNothing)
  BY ImplementsPaging, NoEventIsMissed, ResumesMissNothing, PTL

\* A page that a message told of is committed and stays so, whatever statement
\* raises inside its transaction and whenever the process dies (jobs.py:205-206,
\* db.py:143).
THEOREM ToldIsKept == WatchSpec => []NothingToldInVain
<1>1. WatchInv => NothingToldInVain
  BY DEF WatchInv
<1>. QED
  BY <1>1, WatchInvariance, PTL

\* No wakeup of a stream is lost, in the runs the runner and the page start.
THEOREM WatchedWakeups == WatchSpec => []NoLostWakeup
<1>1. WatchInv => NoLostWakeup
  BY DEF WatchInv, Log!Inv, Log!NoLostWakeup, NoLostWakeup, Progress!NoLostWakeup,
         Log!Behind, Progress!Behind, Log!Over, Progress!Over
<1>. QED
  BY <1>1, WatchInvariance, PTL

\* A stream that ends has sent every message of its run, orphaned workers and
\* restarts included.
THEOREM WatchedIsTold == WatchSpec => ToldAll
<1>1. WatchInv /\ [WatchNext]_all =>
        [\A s \in Streams : Progress!Following(s) /\ stream'[s].at = "ended" =>
           stream[s].seq >= job[stream[s].job].final]_<<job, stream>>
  <2>. SUFFICES ASSUME WatchInv, [WatchNext]_all, NEW s \in Streams,
                       Progress!Following(s), stream'[s].at = "ended"
                PROVE  stream[s].seq >= job[stream[s].job].final
    OBVIOUS
  <2>1. Log!Inv /\ [Log!Next]_(Log!vars) /\ Log!Following(s)
    BY LogStep DEF WatchInv, Follows, Progress!Following, Log!Following
  <2>. QED
    BY <2>1, Log!EndsTold
<1>. QED
  BY <1>1, WatchInvariance, PTL DEF WatchSpec, ToldAll, Progress!ToldAll, Progress!vars
=============================================================================

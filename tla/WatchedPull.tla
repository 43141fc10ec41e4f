---------------------------- MODULE WatchedPull ----------------------------
(***************************************************************************)
(* A pull and those who watch it: Paging, the progress log of its jobs and *)
(* the streams that follow it (ProgressStream), and the batch page, which  *)
(* polls the status, reloads when no job is live and by that resumes a     *)
(* batch the process died under (batch_page, batch_status, static/batch.js)*)
(*                                                                         *)
(* The batch has other accounts; of their workers only the messages of     *)
(* those matter that outlive a run in which one raised.                    *)
(*                                                                         *)
(* Left out: when it is another account's worker that raises, this one's   *)
(* outlives the run too, and a retry starts a second one on the same row,  *)
(* so that the later commit may set pages_done back. BatchRunner has       *)
(* orphans next to a retry. No batch is purged here.                       *)
(***************************************************************************)
EXTENDS Paging

CONSTANTS
    Streams,   \* the open connections
    MaxJobs,   \* bound: jobs in one life of the process
    MaxLate    \* bound: messages of workers that outlive their run

ASSUME WatchAssumption == MaxJobs \in Nat \ {0} /\ MaxLate \in Nat

VARIABLES
    job, stream,   \* see ProgressStream
    current,       \* runner.jobs: the number of the batch's job, 0 for none
    tab,           \* the browser tab with the batch page
    told           \* the last page a message has told of

Progress == INSTANCE ProgressStream WITH Jobs <- 1 .. MaxJobs

watchers == <<job, stream, current, tab, told>>
all      == <<vars, watchers>>

\* "still": no tab, or a page without the script. "leaving": the poll found no live
\* job, and the page is about to reload.
WatchTypeOK ==
    /\ TypeOK /\ Progress!TypeOK
    /\ current \in 0 .. MaxJobs
    /\ tab \in {"still", "polling", "leaving"}
    /\ told \in Nat

WatchInit ==
    /\ Init
    /\ job = [j \in 1 .. MaxJobs |-> IF j = 1 THEN Progress!NewJob ELSE Progress!NoJob]
    /\ stream = [s \in Streams |-> Progress!Closed]
    /\ current = 1
    /\ tab = "still"
    /\ told = 0

Live == current # 0 /\ ~job[current].done

-----------------------------------------------------------------------------
(* The run, with its messages *)

Quiet == UNCHANGED watchers
Emits == Progress!Emit(current) /\ UNCHANGED <<current, tab, told>>

Run ==
    \/ RunStart /\ Emits
    \/ WorkerStart /\ Quiet
    \/ GotPage /\ Progress!Emit(current) /\ told' = pull.page /\ UNCHANGED <<current, tab>>
    \/ PageRaises /\ Quiet
    \/ GotError("over") /\ Emits
    \/ GotError("rejected") /\ Quiet
    \/ /\ RunEnd
       /\ \E left \in {FALSE, pull.pc = "raised"} : Progress!End(current, left)
       /\ UNCHANGED <<current, tab, told>>

Late(j) ==
    /\ job[j].left /\ job[j].log < job[j].final + MaxLate
    /\ Progress!Emit(j)
    /\ UNCHANGED <<vars, current, tab, told>>

-----------------------------------------------------------------------------
(* The page *)

Launch(retry) ==
    /\ Start(retry)
    /\ current' = current + 1
    /\ Progress!Make(current + 1)
    /\ UNCHANGED told

\* batch_page; the script that polls is on the page only while a job is live.
Load ==
    \/ /\ seen.batch = "running" /\ ~Live
       /\ Launch(FALSE)
       /\ tab' = "polling"
    \/ /\ seen.batch # "running" \/ Live
       /\ tab' = IF Live THEN "polling" ELSE "still"
       /\ UNCHANGED <<vars, job, stream, current, told>>

Visit  == tab = "still" /\ Load
Reload == tab = "leaving" /\ Load

\* batch_status; while a job is live only the drawing changes.
Poll ==
    /\ tab = "polling" /\ ~Live
    /\ tab' = "leaving"
    /\ UNCHANGED <<vars, job, stream, current, told>>

\* retry_failed, which sends the tab back to the batch page. The numbers of the
\* jobs are bounded; of the jobs that a restart forgot, one is resumed.
RetryFailed ==
    /\ ~Live /\ current + crashes < MaxJobs
    /\ Launch(TRUE)
    /\ tab' = "polling"

-----------------------------------------------------------------------------
WatchStream(s) == Progress!StreamStep(s) /\ UNCHANGED <<vars, current, tab, told>>

StreamEvent(s) ==
    /\ \/ Progress!Timeout(s) \/ Progress!Drop(s)
       \/ current # 0 /\ Progress!Open(s, current)
    /\ UNCHANGED <<vars, current, tab, told>>

Die == Crash /\ Progress!Restart /\ current' = 0 /\ UNCHANGED <<tab, told>>

WatchNext ==
    \/ \E e \in Events : Arrive(e) /\ Quiet
    \/ OddReply /\ Quiet
    \/ Run \/ \E j \in 1 .. MaxJobs : Late(j)
    \/ Visit \/ Reload \/ Poll \/ RetryFailed
    \/ \E s \in Streams : WatchStream(s) \/ StreamEvent(s)
    \/ Die

WatchSpec == WatchInit /\ [][WatchNext]_all

\* The run's requests and sleeps end, the page's timers go off, and a browser
\* reads what its stream sends. Nobody has to visit the page or to retry, and no
\* stream has to time out.
WatchFairness ==
    /\ WF_all(Run) /\ WF_all(Poll) /\ WF_all(Reload)
    /\ \A s \in Streams : WF_all(WatchStream(s))

FairSpec == WatchSpec /\ WatchFairness

-----------------------------------------------------------------------------
(* Properties *)

NoLostWakeup == Progress!NoLostWakeup
ToldAll      == Progress!ToldAll
StreamsEnd   == Progress!StreamsEnd

\* A page the log tells of is committed: no restart takes it back, whatever the
\* store refuses (jobs.py:2-3, "every page committed"), as long as one worker at a
\* time pulls the account.
NothingToldInVain == told <= file.pages

\* A batch page that is left open comes to rest, through restarts (whose batch it
\* resumes), retries and a store that refuses everything; it does not poll or
\* reload for ever (static/batch.js).
PageComesToRest == tab \in {"polling", "leaving"} ~> tab = "still"
=============================================================================

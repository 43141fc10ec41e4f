--------------------------- MODULE ProgressStream ---------------------------
(***************************************************************************)
(* The progress log of the jobs (BatchJob.emit and wait, the end of _run)  *)
(* and the event streams that follow it (batch_events of web/routes.py).   *)
(*                                                                         *)
(* A stream yields the messages it has not sent one by one, other tasks in *)
(* between; that there is none left, that the job is not done, and that    *)
(* its waiter is registered is one step, since wait() suspends only after. *)
(*                                                                         *)
(* Abstracted: a message is its number; keepalives are left out.           *)
(***************************************************************************)
EXTENDS Naturals

CONSTANTS
    Jobs,     \* the jobs of one batch in one life of the process, numbered from 1
    Streams   \* the open connections

VARIABLES
    job,      \* the jobs: the length of their log, and whether they are done
    stream    \* the streams: their place, their job, messages sent, their event

vars == <<job, stream>>

\* left: workers outlived the run, and still emit; final: the log when it ended.
Job == [made : BOOLEAN, log : Nat, done : BOOLEAN, left : BOOLEAN, final : Nat]
NoJob == [made |-> FALSE, log |-> 0, done |-> FALSE, left |-> FALSE, final |-> 0]
NewJob == [made |-> TRUE, log |-> 0, done |-> FALSE, left |-> FALSE, final |-> 0]

Stream == [at : {"closed", "drain", "wait", "ended"}, job : Jobs \cup {0}, seq : Nat, set : BOOLEAN]

Closed == [at |-> "closed", job |-> 0, seq |-> 0, set |-> FALSE]
Ended  == [Closed EXCEPT !.at = "ended"]

Following(s) == stream[s].at \in {"drain", "wait"}

TypeOK ==
    /\ job \in [Jobs -> Job]
    /\ stream \in [Streams -> Stream]
    /\ \A s \in Streams : Following(s) => stream[s].job \in Jobs

\* Jobs may have been started already.
Init ==
    /\ job \in [Jobs -> {NoJob, NewJob}]
    /\ stream = [s \in Streams |-> Closed]

-----------------------------------------------------------------------------
(* The job *)

Make(j) ==
    /\ ~job[j].made
    /\ job' = [job EXCEPT ![j] = NewJob]
    /\ UNCHANGED stream

\* for w in _waiters: w.set()
NotifyMutant(j) == UNCHANGED stream                      \* leaves them asleep
Notify(j) ==
    stream' = [s \in Streams |->
                 IF stream[s].at = "wait" /\ stream[s].job = j
                 THEN [stream[s] EXCEPT !.set = TRUE] ELSE stream[s]]

\* emit, by a worker, the task or the enrichment pass.
Emit(j) ==
    /\ job[j].made /\ (~job[j].done \/ job[j].left)
    /\ job' = [job EXCEPT ![j].log = @ + 1]
    /\ Notify(j)

\* The last message of _run and its finally clause.
LastMutant(j, left) ==                                  \* done only when all went well
    LET n == job[j].log + 1 IN
    [made |-> TRUE, log |-> n, done |-> ~left, left |-> left, final |-> n]
Last(j, left) ==
    LET n == job[j].log + 1 IN
    [made |-> TRUE, log |-> n, done |-> TRUE, left |-> left, final |-> n]

End(j, left) ==
    /\ job[j].made /\ ~job[j].done
    /\ job' = [job EXCEPT ![j] = Last(j, left)]
    /\ Notify(j)

-----------------------------------------------------------------------------
(* A stream *)

Behind(s) == stream[s].seq < job[stream[s].job].log
Over(s)   == job[stream[s].job].done

Step(s, to) == stream' = [stream EXCEPT ![s] = to] /\ UNCHANGED job

\* Without a job the stream ends at once, and nothing has changed.
Open(s, j) ==
    /\ stream[s].at \in {"closed", "ended"}
    /\ job[j].made
    /\ Step(s, [at |-> "drain", job |-> j, seq |-> 0, set |-> FALSE])

Deliver(s) ==
    /\ stream[s].at = "drain" /\ Behind(s)
    /\ Step(s, [stream[s] EXCEPT !.seq = @ + 1])

MayFinishMutant(s) == Over(s)                            \* without a look at the log
MayFinish(s) == Over(s) /\ ~Behind(s)

Finish(s) ==
    /\ stream[s].at = "drain" /\ MayFinish(s)
    /\ Step(s, Ended)

\* wait(): the check and the registration of the waiter.
Sleep(s) ==
    /\ stream[s].at = "drain" /\ ~Behind(s) /\ ~Over(s)
    /\ Step(s, [stream[s] EXCEPT !.at = "wait", !.set = FALSE])

Wake(s) ==
    /\ stream[s].at = "wait" /\ stream[s].set
    /\ Step(s, [stream[s] EXCEPT !.at = "drain"])

\* Fifteen seconds without a message.
Timeout(s) ==
    /\ stream[s].at = "wait" /\ ~stream[s].set
    /\ Step(s, [stream[s] EXCEPT !.at = "drain"])

\* The browser goes away.
Drop(s) ==
    /\ Following(s)
    /\ Step(s, Closed)

StreamStep(s) == Deliver(s) \/ Finish(s) \/ Sleep(s) \/ Wake(s)

\* The process dies, and its connections with it.
Restart ==
    /\ job' = [j \in Jobs |-> NoJob]
    /\ stream' = [s \in Streams |-> Closed]

-----------------------------------------------------------------------------
Next ==
    \/ \E j \in Jobs :
         \/ Make(j) \/ Emit(j)
         \/ \E left \in BOOLEAN : End(j, left)
    \/ \E s \in Streams :
         \/ StreamStep(s) \/ Timeout(s) \/ Drop(s)
         \/ \E j \in Jobs : Open(s, j)
    \/ Restart

Spec == Init /\ [][Next]_vars

-----------------------------------------------------------------------------
(* Properties *)

\* No wakeup is lost: a stream that sleeps and was not woken has sent all there
\* is, and more is to come (jobs.py:58-68).
NoLostWakeup ==
    \A s \in Streams :
      stream[s].at = "wait" /\ ~stream[s].set => ~Behind(s) /\ ~Over(s)

\* A stream that ended has sent every message of the run, the last one included.
ToldAll ==
    [][\A s \in Streams : Following(s) /\ stream'[s].at = "ended" =>
         stream[s].seq >= job[stream[s].job].final]_vars

\* The streams of a job that is done end, and no timer is needed for it.
StreamsEnd == \A s \in Streams : Following(s) /\ Over(s) ~> ~Following(s)
=============================================================================

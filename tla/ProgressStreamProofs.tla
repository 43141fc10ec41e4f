------------------------ MODULE ProgressStreamProofs ------------------------
(***************************************************************************)
(* Theorems about ProgressStream, for any jobs, streams and messages.      *)
(***************************************************************************)
EXTENDS ProgressStream, TLAPS

\* Whoever follows a job follows one that was made; a log only grows.
Followed ==
    /\ \A s \in Streams : Following(s) => stream[s].job \in Jobs /\ job[stream[s].job].made
    /\ \A j \in Jobs : job[j].final <= job[j].log

Inv == TypeOK /\ Followed /\ NoLostWakeup

LEMMA InvInit == Init => Inv
<1>. SUFFICES ASSUME Init PROVE Inv
  OBVIOUS
<1>1. \A j \in Jobs : job[j] \in {NoJob, NewJob}
  BY DEF Init
<1>2. \A s \in Streams : stream[s] = Closed
  BY DEF Init
<1>3. /\ NoJob \in Job /\ NewJob \in Job /\ Closed \in Stream /\ Closed.at = "closed"
      /\ NoJob.final <= NoJob.log /\ NewJob.final <= NewJob.log
  BY DEF NoJob, NewJob, Job, Closed, Stream
<1>4. TypeOK
  <2>1. job \in [Jobs -> Job]
    BY <1>3 DEF Init
  <2>. QED
    BY <1>2, <1>3, <2>1 DEF Init, TypeOK, Following
<1>5. Followed /\ NoLostWakeup
  BY <1>1, <1>2, <1>3 DEF Followed, NoLostWakeup, Following
<1>. QED
  BY <1>4, <1>5 DEF Inv

-----------------------------------------------------------------------------
\* A message, or the end, with its notification: the job's log grows.
LEMMA NotifiedKeeps ==
    ASSUME Inv, NEW j \in Jobs, NEW to \in Job, job[j].made, to.made,
           job' = [job EXCEPT ![j] = to], to.final <= to.log,
           Notify(j)
    PROVE  Inv'
<1>1. /\ \A i \in Jobs : job'[i] = IF i = j THEN to ELSE job[i]
      /\ job' \in [Jobs -> Job]
  BY DEF Inv, TypeOK
<1>2. ASSUME NEW s \in Streams
      PROVE  /\ stream'[s] \in Stream
             /\ stream'[s].at = stream[s].at /\ stream'[s].job = stream[s].job
             /\ stream'[s].seq = stream[s].seq
             /\ stream'[s].at = "wait" /\ ~stream'[s].set =>
                  stream[s].job # j /\ ~stream[s].set
  <2>1. stream[s] \in Stream
    BY DEF Inv, TypeOK
  <2>2. stream'[s] = IF stream[s].at = "wait" /\ stream[s].job = j
                     THEN [stream[s] EXCEPT !.set = TRUE] ELSE stream[s]
    BY DEF Notify
  <2>. QED
    BY <2>1, <2>2 DEF Stream
<1>3. stream' \in [Streams -> Stream]
  BY <1>2 DEF Notify
<1>4. TypeOK'
  BY <1>1, <1>2, <1>3 DEF Inv, TypeOK, Following
<1>5. Followed'
  BY <1>1, <1>2 DEF Inv, Followed, Following
<1>6. NoLostWakeup'
  <2>. SUFFICES ASSUME NEW s \in Streams, stream'[s].at = "wait", ~stream'[s].set
                PROVE  ~Behind(s)' /\ ~Over(s)'
    BY DEF NoLostWakeup
  <2>1. stream[s].job # j /\ stream[s].at = "wait" /\ ~stream[s].set /\ stream[s].job \in Jobs
    BY <1>2 DEF Inv, TypeOK, Following
  <2>2. job'[stream'[s].job] = job[stream[s].job] /\ stream'[s].seq = stream[s].seq
    BY <1>1, <1>2, <2>1
  <2>3. ~Behind(s) /\ ~Over(s)
    BY <2>1 DEF Inv, NoLostWakeup
  <2>. QED
    BY <2>2, <2>3 DEF Behind, Over
<1>. QED
  BY <1>4, <1>5, <1>6 DEF Inv

LEMMA EmitKeeps == ASSUME Inv, NEW j \in Jobs, Emit(j) PROVE Inv'
<1>. DEFINE to == [job[j] EXCEPT !.log = @ + 1]
<1>1. job[j] \in Job /\ job[j].final <= job[j].log /\ job[j].made
  BY DEF Inv, TypeOK, Followed, Emit
<1>2. to \in Job /\ to.made /\ to.final <= to.log
  BY <1>1 DEF Job
<1>3. job' = [job EXCEPT ![j] = to] /\ Notify(j)
  BY DEF Emit
<1>. HIDE DEF to
<1>. QED
  BY <1>1, <1>2, <1>3, NotifiedKeeps

LEMMA EndKeeps == ASSUME Inv, NEW j \in Jobs, NEW left \in BOOLEAN, End(j, left) PROVE Inv'
<1>1. job[j] \in Job /\ job[j].made
  BY DEF Inv, TypeOK, End
<1>2. job[j].log + 1 \in Nat
  BY <1>1 DEF Job
<1>3. Last(j, left) \in Job /\ Last(j, left).made /\ Last(j, left).final <= Last(j, left).log
  BY <1>2 DEF Job, Last
<1>. QED
  BY <1>1, <1>3, NotifiedKeeps DEF End

LEMMA MakeKeeps == ASSUME Inv, NEW j \in Jobs, Make(j) PROVE Inv'
<1>1. /\ \A i \in Jobs : job'[i] = IF i = j THEN NewJob ELSE job[i]
      /\ stream' = stream /\ ~job[j].made
  BY DEF Make, Inv, TypeOK
<1>2. NewJob \in Job /\ NewJob.made /\ NewJob.final <= NewJob.log
  BY DEF NewJob, Job
<1>3. TypeOK'
  BY <1>1, <1>2 DEF Inv, TypeOK, Make, Following
<1>4. Followed'
  BY <1>1, <1>2 DEF Inv, Followed, Following
<1>5. NoLostWakeup'
  <2>. SUFFICES ASSUME NEW s \in Streams, stream[s].at = "wait", ~stream[s].set
                PROVE  ~Behind(s)' /\ ~Over(s)'
    BY <1>1 DEF NoLostWakeup
  <2>1. stream[s].job \in Jobs /\ stream[s].job # j
    BY <1>1 DEF Inv, Followed, Following
  <2>2. ~Behind(s) /\ ~Over(s)
    BY DEF Inv, NoLostWakeup
  <2>. QED
    BY <1>1, <2>1, <2>2 DEF Behind, Over
<1>. QED
  BY <1>3, <1>4, <1>5 DEF Inv

-----------------------------------------------------------------------------
\* One stream changes its place; who goes to sleep has looked before.
LEMMA StreamKeeps ==
    ASSUME Inv, NEW s \in Streams, NEW to \in Stream, Step(s, to),
           to.at \in {"drain", "wait"} => to.job \in Jobs /\ job[to.job].made,
           to.at = "wait" /\ ~to.set => to.seq >= job[to.job].log /\ ~job[to.job].done
    PROVE  Inv'
<1>1. /\ job' = job /\ stream' \in [Streams -> Stream]
      /\ \A r \in Streams : stream'[r] = IF r = s THEN to ELSE stream[r]
  BY DEF Step, Inv, TypeOK
<1>2. TypeOK'
  BY <1>1 DEF Inv, TypeOK, Following
<1>3. Followed'
  BY <1>1 DEF Inv, Followed, Following
<1>4. NoLostWakeup'
  <2>. SUFFICES ASSUME NEW r \in Streams, stream'[r].at = "wait", ~stream'[r].set
                PROVE  ~Behind(r)' /\ ~Over(r)'
    BY DEF NoLostWakeup
  <2>1. CASE r = s
    <3>1. to.job \in Jobs /\ to.seq >= job[to.job].log /\ ~job[to.job].done
      BY <1>1, <2>1
    <3>2. job[to.job].log \in Nat /\ to.seq \in Nat
      BY <3>1 DEF Inv, TypeOK, Job, Stream
    <3>. QED
      BY <1>1, <2>1, <3>1, <3>2 DEF Behind, Over
  <2>2. CASE r # s
    BY <1>1, <2>2 DEF Inv, NoLostWakeup, Behind, Over
  <2>. QED
    BY <2>1, <2>2
<1>. QED
  BY <1>2, <1>3, <1>4 DEF Inv

LEMMA StreamStepKeeps ==
    ASSUME Inv, NEW s \in Streams, StreamStep(s) \/ Timeout(s) \/ Drop(s) PROVE Inv'
<1>1. stream[s] \in Stream
      /\ (Following(s) => stream[s].job \in Jobs /\ job[stream[s].job].made)
  BY DEF Inv, TypeOK, Followed
<1>2. Closed \in Stream /\ Ended \in Stream /\ Closed.at = "closed" /\ Ended.at = "ended"
  BY DEF Closed, Ended, Stream
<1>3. CASE Deliver(s)
  <2>. DEFINE to == [stream[s] EXCEPT !.seq = @ + 1]
  <2>1. to \in Stream /\ to.at = "drain" /\ to.job = stream[s].job /\ Step(s, to) /\ Following(s)
    BY <1>1, <1>3 DEF Stream, Deliver, Following
  <2>. HIDE DEF to
  <2>. QED
    BY <1>1, <2>1, StreamKeeps
<1>4. CASE Finish(s)
  BY <1>2, <1>4, StreamKeeps DEF Finish
<1>5. CASE Sleep(s)
  <2>. DEFINE to == [stream[s] EXCEPT !.at = "wait", !.set = FALSE]
  <2>1. to \in Stream /\ to.job = stream[s].job /\ to.seq = stream[s].seq /\ Step(s, to)
        /\ Following(s) /\ ~Behind(s) /\ ~Over(s)
    BY <1>1, <1>5 DEF Stream, Sleep, Following
  <2>2. job[stream[s].job].log \in Nat /\ stream[s].seq \in Nat
    BY <1>1, <2>1 DEF Inv, TypeOK, Job, Stream
  <2>. HIDE DEF to
  <2>. QED
    BY <1>1, <2>1, <2>2, StreamKeeps DEF Behind, Over
<1>6. CASE Wake(s) \/ Timeout(s)
  <2>. DEFINE to == [stream[s] EXCEPT !.at = "drain"]
  <2>1. to \in Stream /\ to.at = "drain" /\ to.job = stream[s].job /\ Step(s, to) /\ Following(s)
    BY <1>1, <1>6 DEF Stream, Wake, Timeout, Following
  <2>. HIDE DEF to
  <2>. QED
    BY <1>1, <2>1, StreamKeeps
<1>7. CASE Drop(s)
  BY <1>2, <1>7, StreamKeeps DEF Drop
<1>. QED
  BY <1>3, <1>4, <1>5, <1>6, <1>7 DEF StreamStep

LEMMA OpenKeeps == ASSUME Inv, NEW s \in Streams, NEW j \in Jobs, Open(s, j) PROVE Inv'
<1>. DEFINE to == [at |-> "drain", job |-> j, seq |-> 0, set |-> FALSE]
<1>1. to \in Stream /\ to.at = "drain" /\ to.job = j /\ Step(s, to) /\ job[j].made
  BY DEF Stream, Open
<1>. HIDE DEF to
<1>. QED
  BY <1>1, StreamKeeps

LEMMA RestartKeeps == ASSUME Inv, Restart PROVE Inv'
<1>1. \A j \in Jobs : job'[j] = NoJob
  BY DEF Restart
<1>2. \A s \in Streams : stream'[s] = Closed
  BY DEF Restart
<1>3. NoJob \in Job /\ Closed \in Stream /\ NoJob.final <= NoJob.log /\ Closed.at = "closed"
  BY DEF NoJob, Job, Closed, Stream
<1>4. TypeOK'
  BY <1>2, <1>3 DEF Restart, TypeOK, Following
<1>5. Followed' /\ NoLostWakeup'
  BY <1>1, <1>2, <1>3 DEF Followed, NoLostWakeup, Following
<1>. QED
  BY <1>4, <1>5 DEF Inv

LEMMA InvNext == Inv /\ [Next]_vars => Inv'
<1>. SUFFICES ASSUME Inv, [Next]_vars PROVE Inv'
  OBVIOUS
<1>1. CASE UNCHANGED vars
  BY <1>1 DEF vars, Inv, TypeOK, Followed, NoLostWakeup, Following, Behind, Over
<1>2. ASSUME NEW j \in Jobs, Make(j) PROVE Inv'
  BY <1>2, MakeKeeps
<1>3. ASSUME NEW j \in Jobs, Emit(j) PROVE Inv'
  BY <1>3, EmitKeeps
<1>4. ASSUME NEW j \in Jobs, NEW left \in BOOLEAN, End(j, left) PROVE Inv'
  BY <1>4, EndKeeps
<1>5. ASSUME NEW s \in Streams, StreamStep(s) \/ Timeout(s) \/ Drop(s) PROVE Inv'
  BY <1>5, StreamStepKeeps
<1>6. ASSUME NEW s \in Streams, NEW j \in Jobs, Open(s, j) PROVE Inv'
  BY <1>6, OpenKeeps
<1>. QED
  BY <1>1, <1>2, <1>3, <1>4, <1>5, <1>6, RestartKeeps DEF Next

\* A stream ends only when it has sent the log of a job that is done.
LEMMA EndsTold ==
    ASSUME Inv, [Next]_vars, NEW s \in Streams, Following(s), stream'[s].at = "ended"
    PROVE  stream[s].seq >= job[stream[s].job].final
<1>1. stream \in [Streams -> Stream] /\ stream[s].at \in {"drain", "wait"}
      /\ stream[s].job \in Jobs /\ job[stream[s].job] \in Job /\ stream[s] \in Stream
      /\ job[stream[s].job].final <= job[stream[s].job].log
  BY DEF Inv, TypeOK, Following, Followed
<1>2. ASSUME NEW r \in Streams, NEW to, Step(r, to), to.at # "ended" PROVE FALSE
  BY <1>1, <1>2 DEF Step
<1>3. ASSUME NEW r \in Streams, Finish(r) PROVE ~Behind(s)
  BY <1>1, <1>3 DEF Finish, Step, MayFinish
<1>4. ASSUME NEW j \in Jobs, Make(j) PROVE FALSE
  BY <1>1, <1>4 DEF Make
<1>5. ASSUME NEW j \in Jobs, Notify(j) PROVE FALSE
  <2>1. stream'[s] = stream[s] \/ stream'[s] = [stream[s] EXCEPT !.set = TRUE]
    BY <1>5 DEF Notify
  <2>2. stream'[s].at = stream[s].at
    BY <1>1, <2>1 DEF Stream
  <2>. QED
    BY <1>1, <2>2
<1>6. ASSUME NEW r \in Streams, Deliver(r) \/ Sleep(r) \/ Wake(r) \/ Timeout(r) \/ Drop(r)
      PROVE  FALSE
  <2>1. stream[r] \in Stream
    BY <1>1
  <2>2. CASE Deliver(r)
    <3>1. [stream[r] EXCEPT !.seq = @ + 1].at = "drain"
      BY <2>1, <2>2 DEF Stream, Deliver
    <3>. QED
      BY <1>2, <2>2, <3>1 DEF Deliver
  <2>3. CASE Sleep(r)
    <3>1. [stream[r] EXCEPT !.at = "wait", !.set = FALSE].at = "wait"
      BY <2>1 DEF Stream
    <3>. QED
      BY <1>2, <2>3, <3>1 DEF Sleep
  <2>4. CASE Wake(r) \/ Timeout(r)
    <3>1. [stream[r] EXCEPT !.at = "drain"].at = "drain"
      BY <2>1 DEF Stream
    <3>. QED
      BY <1>2, <2>4, <3>1 DEF Wake, Timeout
  <2>5. CASE Drop(r)
    BY <1>2, <2>5 DEF Drop, Closed
  <2>. QED
    BY <1>6, <2>2, <2>3, <2>4, <2>5
<1>7. ASSUME NEW r \in Streams, NEW j \in Jobs, Open(r, j) PROVE FALSE
  BY <1>2, <1>7 DEF Open
<1>8. stream' # stream /\ ~Restart
  BY <1>1 DEF Restart, Closed
<1>9. PICK r \in Streams : Finish(r)
  <2>1. Next
    BY <1>8 DEF vars
  <2>2. \A j \in Jobs : ~Make(j) /\ ~Emit(j) /\ \A left \in BOOLEAN : ~End(j, left)
    BY <1>4, <1>5 DEF Emit, End
  <2>. QED
    BY <1>6, <1>7, <1>8, <2>1, <2>2 DEF Next, StreamStep
<1>10. ~Behind(s)
  BY <1>3, <1>9
<1>. QED
  BY <1>1, <1>10 DEF Behind, Job, Stream

-----------------------------------------------------------------------------
(* The theorems *)

THEOREM StreamInvariance == Spec => []Inv
  BY InvInit, InvNext, PTL DEF Spec

\* The types of the state, for any number of jobs, streams and messages.
THEOREM TypeCorrect == Spec => []TypeOK
<1>1. Inv => TypeOK
  BY DEF Inv
<1>. QED
  BY <1>1, StreamInvariance, PTL

\* No wakeup is lost, whatever is emitted, by whom and when (BatchJob.wait, emit
\* and the end of _run in jobs.py; batch_events in routes.py).
THEOREM WakeupsAreNotLost == Spec => []NoLostWakeup
<1>1. Inv => NoLostWakeup
  BY DEF Inv
<1>. QED
  BY <1>1, StreamInvariance, PTL

\* A stream that ends has sent every message of its run.
THEOREM EverythingIsTold == Spec => ToldAll
<1>1. Inv /\ [Next]_vars =>
        [\A s \in Streams : Following(s) /\ stream'[s].at = "ended" =>
           stream[s].seq >= job[stream[s].job].final]_vars
  BY EndsTold
<1>. QED
  BY <1>1, StreamInvariance, PTL DEF Spec, ToldAll
=============================================================================

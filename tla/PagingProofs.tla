---------------------------- MODULE PagingProofs ----------------------------
(***************************************************************************)
(* Theorems about Paging, for any events, page size, faults and restarts.  *)
(***************************************************************************)
EXTENDS Paging, FiniteSetTheorems, TLAPS

-----------------------------------------------------------------------------
(* Counting the newer events *)

\* The number of newer events is a number.
LEMMA NewerNat ==
    ASSUME TypeOK, NEW e \in Events
    PROVE  IsFiniteSet(present) /\ Newer(e) \in Nat /\ Cardinality(present) \in Nat
<1>1. IsFiniteSet(present)
  BY EventsAssumption, FS_Subset DEF TypeOK
<1>2. {f \in present : f > e} \subseteq present
  OBVIOUS
<1>3. IsFiniteSet({f \in present : f > e})
  BY <1>1, <1>2, FS_Subset
<1>. QED
  BY <1>1, <1>3, FS_CardinalityType DEF Newer

\* Not all events are newer than one of them.
LEMMA NewerThanNone ==
    ASSUME TypeOK, NEW e \in present
    PROVE  Newer(e) < Cardinality(present)
<1>1. IsFiniteSet(present) /\ e \in Events /\ Events \subseteq Int
  BY NewerNat, EventsAssumption DEF TypeOK
<1>. DEFINE S == {f \in present : f > e}
<1>2. S \in SUBSET present /\ S # present
  BY <1>1
<1>3. Cardinality(S) <= Cardinality(present) /\ Cardinality(S) # Cardinality(present)
  <2>. HIDE DEF S
  <2>. QED
    BY <1>1, <1>2, FS_Subset
<1>4. Cardinality(S) \in Nat /\ Cardinality(present) \in Nat
  BY <1>1, NewerNat DEF Newer
<1>. QED
  BY <1>3, <1>4 DEF Newer

\* An event that arrives pushes the others back, if anything.
LEMMA NewerGrows ==
    ASSUME TypeOK, NEW new \in Events, present' = present \cup {new}, NEW e \in Events
    PROVE  Newer(e) \in Nat /\ Newer(e)' \in Nat /\ Newer(e) <= Newer(e)'
<1>1. IsFiniteSet(present) /\ Newer(e) \in Nat
  BY NewerNat
<1>2. IsFiniteSet(present')
  BY <1>1, FS_AddElement
<1>3. {f \in present' : f > e} \subseteq present'
  OBVIOUS
<1>4. IsFiniteSet({f \in present' : f > e})
  BY <1>2, <1>3, FS_Subset
<1>5. {f \in present : f > e} \subseteq {f \in present' : f > e}
  OBVIOUS
<1>6. Cardinality({f \in present : f > e}) <= Cardinality({f \in present' : f > e})
  BY <1>4, <1>5, FS_Subset
<1>7. Cardinality({f \in present' : f > e}) \in Nat
  BY <1>4, FS_CardinalityType
<1>. QED
  BY <1>1, <1>6, <1>7 DEF Newer

-----------------------------------------------------------------------------
(* The invariant *)

\* What the connection and the file agree on, open transaction or not; and the
\* page a worker asks for is the one after the resume point of the file.
Agreed ==
    /\ ~open => seen = file
    /\ seen.pages = file.pages /\ seen.more = file.more
    /\ file.events \subseteq seen.events
    /\ pull.pc = "asking" => pull.page = file.pages + 1

\* A row that says done has pulled its last page, and that page was the last.
Closing ==
    /\ \A s \in {seen, file} : Complete(s) => s.pages > 0 /\ ~s.more
    /\ file.pages > 0 /\ ~file.more => known \subseteq file.events

Inv == TypeOK /\ Agreed /\ Closing /\ ResumeMissesNothing

LEMMA InvInit == Init => Inv
<1>. SUFFICES ASSUME Init PROVE Inv
  OBVIOUS
<1>1. file \in Store
  BY DEF Init, Store, Resumable
<1>2. file.pages = 0 /\ file.more /\ file.status = "queued" /\ seen = file
  BY DEF Init
<1>3. TypeOK
  BY <1>1, <1>2 DEF Init, TypeOK, Pull, Idle
<1>4. Agreed /\ Closing
  BY <1>2, <1>3 DEF Init, Agreed, Closing, Complete, Idle
<1>5. ResumeMissesNothing
  BY DEF Init, ResumeMissesNothing
<1>. QED
  BY <1>3, <1>4, <1>5 DEF Inv

-----------------------------------------------------------------------------
(* The steps *)

\* A statement of its own that leaves pages and events alone.
LEMMA StatementKeeps ==
    ASSUME Inv, NEW new \in Store, Statement(new),
           new.pages = seen.pages, new.more = seen.more, new.events = seen.events,
           Complete(new) => new.pages > 0 /\ ~new.more,
           pull' \in Pull, pull'.pc = "asking" => pull'.page = seen.pages + 1,
           UNCHANGED <<present, known, crashes>>
    PROVE  Inv'
<1>1. seen' = new /\ open' = open /\ file' \in {file, new} /\ (~open => file' = new)
  BY DEF Statement
<1>2. TypeOK'
  BY <1>1 DEF Inv, TypeOK
<1>3. file'.pages = file.pages /\ file'.more = file.more
  BY <1>1 DEF Inv, Agreed
<1>4. file'.events = file.events
  BY <1>1 DEF Inv, Agreed, Statement
<1>5. Agreed'
  BY <1>1, <1>3, <1>4 DEF Inv, Agreed
<1>6. Closing'
  BY <1>1, <1>3, <1>4 DEF Inv, Closing, Complete
<1>7. ResumeMissesNothing'
  BY <1>3, <1>4 DEF Inv, ResumeMissesNothing, Newer
<1>. QED
  BY <1>2, <1>5, <1>6, <1>7 DEF Inv

\* A change of the batch's or of the row's status is such a statement.
LEMMA WithBatch ==
    ASSUME Inv, NEW b \in {"running", "done", "failed"}
    PROVE  LET new == [seen EXCEPT !.batch = b] IN
           /\ new \in Store /\ new.pages = seen.pages /\ new.more = seen.more
           /\ new.events = seen.events /\ (Complete(new) => new.pages > 0 /\ ~new.more)
<1>. DEFINE new == [seen EXCEPT !.batch = b]
<1>1. seen \in Store
  BY DEF Inv, TypeOK
<1>2. new \in Store /\ new.pages = seen.pages /\ new.more = seen.more
      /\ new.events = seen.events /\ new.status = seen.status
  BY <1>1 DEF Store
<1>. HIDE DEF new
<1>3. Complete(new) => new.pages > 0 /\ ~new.more
  BY <1>2 DEF Inv, Closing, Complete
<1>. QED
  BY <1>2, <1>3 DEF new

LEMMA WithRow ==
    ASSUME Inv, NEW st \in {"fetching", "done", "failed"},
           st = "done" => seen.pages > 0 /\ ~seen.more
    PROVE  LET new == [seen EXCEPT !.status = st] IN
           /\ new \in Store /\ new.pages = seen.pages /\ new.more = seen.more
           /\ new.events = seen.events /\ (Complete(new) => new.pages > 0 /\ ~new.more)
<1>. DEFINE new == [seen EXCEPT !.status = st]
<1>1. seen \in Store
  BY DEF Inv, TypeOK
<1>2. new \in Store /\ new.pages = seen.pages /\ new.more = seen.more
      /\ new.events = seen.events /\ new.status = st
  BY <1>1 DEF Store, Resumable
<1>. HIDE DEF new
<1>3. Complete(new) => new.pages > 0 /\ ~new.more
  BY <1>2 DEF Complete
<1>. QED
  BY <1>2, <1>3 DEF new

LEMMA ArriveKeeps == ASSUME Inv, NEW new \in Events, Arrive(new) PROVE Inv'
<1>1. present' = present \cup {new} /\ UNCHANGED <<known, store, pull, crashes>>
  BY DEF Arrive
<1>2. TypeOK'
  BY <1>1 DEF Inv, TypeOK, store
<1>3. Agreed' /\ Closing'
  BY <1>1 DEF Inv, Agreed, Closing, Complete, store
<1>4. ResumeMissesNothing'
  <2>. SUFFICES ASSUME NEW e \in known \ file.events
                PROVE  Newer(e)' >= file.pages * PageSize
    BY <1>1 DEF ResumeMissesNothing, store
  <2>1. e \in Events
    BY DEF Inv, TypeOK
  <2>2. Newer(e) \in Nat /\ Newer(e)' \in Nat /\ Newer(e) <= Newer(e)'
    BY <1>1, <2>1, NewerGrows DEF Inv
  <2>3. Newer(e) >= file.pages * PageSize
    BY DEF Inv, ResumeMissesNothing
  <2>4. file.pages * PageSize \in Int
    BY PageAssumption DEF Inv, TypeOK, Store
  <2>. QED
    BY <2>2, <2>3, <2>4
<1>. QED
  BY <1>2, <1>3, <1>4 DEF Inv

LEMMA StartKeeps == ASSUME Inv, NEW retry \in BOOLEAN, Start(retry) PROVE Inv'
<1>1. pull' \in Pull /\ pull'.pc # "asking" /\ UNCHANGED <<present, known, store, crashes>>
  BY DEF Start, Pull, Idle
<1>2. TypeOK' /\ Agreed' /\ Closing'
  BY <1>1 DEF Inv, TypeOK, Agreed, Closing, Complete, store
<1>3. ResumeMissesNothing'
  BY <1>1 DEF Inv, ResumeMissesNothing, Newer, store
<1>. QED
  BY <1>2, <1>3 DEF Inv

LEMMA RunStartKeeps == ASSUME Inv, RunStart PROVE Inv'
<1>1. Statement([seen EXCEPT !.batch = "running"]) /\ UNCHANGED <<present, known, crashes>>
  BY DEF RunStart
<1>2. pull' \in Pull /\ pull'.pc # "asking"
  BY DEF RunStart, Pull, Idle
<1>. QED
  BY <1>1, <1>2, WithBatch, StatementKeeps

LEMMA WorkerStartKeeps == ASSUME Inv, WorkerStart PROVE Inv'
<1>1. pull \in Pull /\ seen.pages \in Nat /\ UNCHANGED <<present, known, crashes>>
  BY DEF Inv, TypeOK, Store, WorkerStart
<1>2. CASE Statement([seen EXCEPT !.status = "done"]) /\ seen.pages > 0 /\ ~seen.more
           /\ pull' = [pull EXCEPT !.pc = "over"]
  <2>1. pull' \in Pull /\ pull'.pc # "asking"
    BY <1>1, <1>2 DEF Pull
  <2>. QED
    BY <1>1, <1>2, <2>1, WithRow, StatementKeeps
<1>3. CASE Statement([seen EXCEPT !.status = "fetching"])
           /\ pull' = [pull EXCEPT !.pc = "asking", !.page = NextPage]
  <2>1. NextPage \in Nat /\ NextPage = seen.pages + 1
    BY <1>1 DEF NextPage
  <2>2. pull' \in Pull /\ pull'.page = seen.pages + 1
    BY <1>1, <1>3, <2>1 DEF Pull
  <2>. QED
    BY <1>1, <1>3, <2>2, WithRow, StatementKeeps
<1>. QED
  BY <1>2, <1>3 DEF WorkerStart

LEMMA GotErrorKeeps == ASSUME Inv, NEW pc \in {"over", "rejected"}, GotError(pc) PROVE Inv'
<1>1. Statement([seen EXCEPT !.status = "failed"]) /\ UNCHANGED <<present, known, crashes>>
  BY DEF GotError
<1>2. pull' \in Pull /\ pull'.pc # "asking"
  BY DEF GotError, Pull, Inv, TypeOK
<1>. QED
  BY <1>1, <1>2, WithRow, StatementKeeps

LEMMA RunEndKeeps == ASSUME Inv, RunEnd PROVE Inv'
<1>1. Statement([seen EXCEPT !.batch = Verdict]) /\ UNCHANGED <<present, known, crashes>>
  BY DEF RunEnd
<1>2. pull' \in Pull /\ pull'.pc # "asking" /\ Verdict \in {"running", "done", "failed"}
  BY DEF RunEnd, Pull, Idle, Verdict
<1>. QED
  BY <1>1, <1>2, WithBatch, StatementKeeps

\* What is not on page p and not on the pages before is beyond it.
LEMMA Beyond ==
    ASSUME TypeOK, NEW p \in Nat, NEW e \in present, e \notin OnPage(p),
           Newer(e) >= (p - 1) * PageSize
    PROVE  Newer(e) >= p * PageSize
<1>1. e \in Events
  BY DEF TypeOK
<1>2. Newer(e) \in Int /\ p * PageSize \in Int
  BY <1>1, NewerNat, PageAssumption
<1>. QED
  BY <1>2 DEF OnPage

LEMMA GotPageKeeps == ASSUME Inv, GotPage PROVE Inv'
<1>. DEFINE p == pull.page
            new == WithPage(p)
<1>1. /\ pull \in Pull /\ seen \in Store /\ file \in Store /\ seen = file
      /\ p = file.pages + 1 /\ p \in Nat /\ p > 0 /\ pull.pc = "asking"
  BY DEF Inv, TypeOK, Agreed, GotPage, Transaction, Store
<1>2. /\ seen' = new /\ file' = new /\ open' = FALSE
      /\ present' = present /\ crashes' = crashes
      /\ known' = IF p = 1 THEN present ELSE known
  BY DEF GotPage, Transaction, Answered
<1>3. /\ new \in Store /\ new.pages = p /\ new.more = More(p)
      /\ new.events = file.events \cup OnPage(p)
      /\ Complete(new) => ~More(p)
  <2>1. OnPage(p) \subseteq Events /\ More(p) \in BOOLEAN
    BY DEF OnPage, Inv, TypeOK, More
  <2>2. seen.events \subseteq Events /\ seen.batch \in {"running", "done", "failed"}
    BY <1>1 DEF Store
  <2>. HIDE DEF p
  <2>. QED
    BY <1>1, <2>1, <2>2 DEF WithPage, Store, Resumable, Complete
<1>4. pull' \in Pull /\ (pull'.pc = "asking" => pull'.page = p + 1)
  BY <1>1 DEF GotPage, Pull
<1>. HIDE DEF new
<1>5. TypeOK'
  BY <1>1, <1>2, <1>3, <1>4 DEF Inv, TypeOK
<1>6. Agreed'
  BY <1>2, <1>3, <1>4 DEF Agreed
<1>7. ASSUME NEW e \in known', e \notin new.events
      PROVE  Newer(e) >= p * PageSize
  <2>1. e \in present /\ e \notin OnPage(p)
    BY <1>2, <1>3, <1>7 DEF Inv, TypeOK
  <2>2. Newer(e) >= (p - 1) * PageSize
    <3>1. CASE p = 1
      <4>1. (p - 1) * PageSize = 0
        BY <3>1, PageAssumption
      <4>2. Newer(e) \in Nat
        BY <2>1, NewerNat DEF Inv, TypeOK
      <4>. QED
        BY <4>1, <4>2
    <3>2. CASE p # 1
      <4>1. e \in known \ file.events /\ p - 1 = file.pages
        BY <1>1, <1>2, <1>3, <1>7, <3>2 DEF Store
      <4>. QED
        BY <4>1 DEF Inv, ResumeMissesNothing
    <3>. QED
      BY <3>1, <3>2
  <2>. QED
    BY <1>1, <2>1, <2>2, Beyond DEF Inv
<1>8. ResumeMissesNothing'
  BY <1>2, <1>3, <1>7 DEF ResumeMissesNothing, Newer
<1>9. ~More(p) => known' \subseteq new.events
  <2>. SUFFICES ASSUME ~More(p), NEW e \in known', e \notin new.events PROVE FALSE
    OBVIOUS
  <2>1. e \in present
    BY <1>2 DEF Inv, TypeOK
  <2>2. Newer(e) < Cardinality(present) /\ Newer(e) \in Nat /\ Cardinality(present) \in Nat
    BY <2>1, NewerThanNone, NewerNat DEF Inv, TypeOK
  <2>3. p * PageSize \in Int /\ Cardinality(present) <= p * PageSize
    BY <1>1, <2>2, PageAssumption DEF More
  <2>. QED
    BY <1>7, <2>2, <2>3
<1>10. Closing'
  <2>. HIDE DEF p
  <2>. QED
    BY <1>1, <1>2, <1>3, <1>9 DEF Closing, Complete
<1>. QED
  BY <1>5, <1>6, <1>8, <1>10 DEF Inv

LEMMA PageRaisesKeeps == ASSUME Inv, PageRaises PROVE Inv'
<1>. DEFINE p == pull.page
<1>1. /\ pull \in Pull /\ seen \in Store /\ file \in Store
      /\ p = file.pages + 1 /\ pull.pc = "asking"
  BY DEF Inv, TypeOK, Agreed, PageRaises
<1>2. /\ pull' \in Pull /\ pull'.pc # "asking"
      /\ present' = present /\ crashes' = crashes
      /\ known' = IF p = 1 THEN present ELSE known
  BY <1>1 DEF PageRaises, Answered, Pull
<1>3. PICK more \in SUBSET Events :
        /\ seen' = [seen EXCEPT !.events = @ \cup more] \/ seen' = seen
        /\ file' = file /\ open' = TRUE
  <2>1. CASE Refused
    BY <2>1 DEF Refused, store
  <2>2. ASSUME NEW bad \in OnPage(p) \cap Unbindable,
               Broken([seen EXCEPT !.events = @ \cup {e \in OnPage(p) : e > bad}])
        PROVE  \E more \in SUBSET Events :
                 /\ seen' = [seen EXCEPT !.events = @ \cup more]
                 /\ file' = file /\ open' = TRUE
    <3>1. {e \in OnPage(p) : e > bad} \in SUBSET Events
      BY DEF OnPage, Inv, TypeOK
    <3>. QED
      BY <2>2, <3>1 DEF Broken
  <2>. QED
    BY <2>1, <2>2 DEF PageRaises
<1>4. /\ seen' \in Store /\ seen'.pages = seen.pages /\ seen'.more = seen.more
      /\ seen'.status = seen.status /\ seen.events \subseteq seen'.events
  BY <1>1, <1>3 DEF Store
<1>5. TypeOK'
  BY <1>2, <1>3, <1>4 DEF Inv, TypeOK
<1>6. Agreed'
  BY <1>2, <1>3, <1>4 DEF Inv, Agreed
<1>7. known' = known \/ file.pages = 0
  BY <1>1, <1>2 DEF Store
<1>8. Closing'
  BY <1>1, <1>3, <1>4, <1>7 DEF Inv, Closing, Complete
<1>9. ResumeMissesNothing'
  <2>. SUFFICES ASSUME NEW e \in known' \ file.events PROVE Newer(e) >= file.pages * PageSize
    BY <1>2, <1>3 DEF ResumeMissesNothing, Newer
  <2>1. CASE known' = known
    BY <2>1 DEF Inv, ResumeMissesNothing
  <2>2. CASE file.pages = 0
    <3>1. e \in Events
      BY <1>5, <1>2 DEF TypeOK
    <3>2. Newer(e) \in Nat /\ file.pages * PageSize = 0
      BY <2>2, <3>1, NewerNat, PageAssumption DEF Inv
    <3>. QED
      BY <3>2
  <2>. QED
    BY <1>7, <2>1, <2>2
<1>. QED
  BY <1>5, <1>6, <1>8, <1>9 DEF Inv

LEMMA OddReplyKeeps == ASSUME Inv, OddReply PROVE Inv'
<1>1. /\ UNCHANGED <<present, known, seen, file, pull, crashes>> /\ open' = TRUE
  BY DEF OddReply, Broken
<1>2. TypeOK' /\ Agreed' /\ Closing'
  BY <1>1 DEF Inv, TypeOK, Agreed, Closing, Complete
<1>3. ResumeMissesNothing'
  BY <1>1 DEF Inv, ResumeMissesNothing, Newer
<1>. QED
  BY <1>2, <1>3 DEF Inv

LEMMA CrashKeeps == ASSUME Inv, Crash PROVE Inv'
<1>1. /\ UNCHANGED <<present, known, file>> /\ seen' = file /\ open' = FALSE
      /\ pull' = Idle /\ crashes' = crashes + 1
  BY DEF Crash
<1>2. pull' \in Pull /\ pull'.pc # "asking"
  BY <1>1 DEF Pull, Idle
<1>3. TypeOK'
  <2>1. present \subseteq Events /\ known \subseteq present /\ file \in Store /\ crashes' \in Nat
    BY <1>1 DEF Inv, TypeOK
  <2>. QED
    BY <1>1, <1>2, <2>1 DEF TypeOK
<1>4. Agreed'
  BY <1>1, <1>2 DEF Agreed
<1>5. Closing'
  BY <1>1 DEF Inv, Closing, Complete
<1>6. ResumeMissesNothing'
  BY <1>1 DEF Inv, ResumeMissesNothing, Newer
<1>. QED
  BY <1>3, <1>4, <1>5, <1>6 DEF Inv

LEMMA InvNext == Inv /\ [Next]_vars => Inv'
<1>. SUFFICES ASSUME Inv, [Next]_vars PROVE Inv'
  OBVIOUS
<1>1. CASE UNCHANGED vars
  <2>1. TypeOK' /\ Agreed' /\ Closing'
    BY <1>1 DEF vars, store, Inv, TypeOK, Agreed, Closing, Complete
  <2>2. ResumeMissesNothing'
    BY <1>1 DEF vars, store, Inv, ResumeMissesNothing, Newer
  <2>. QED
    BY <2>1, <2>2 DEF Inv
<1>2. ASSUME NEW e \in Events, Arrive(e) PROVE Inv'
  BY <1>2, ArriveKeeps
<1>3. ASSUME NEW retry \in BOOLEAN, Start(retry) PROVE Inv'
  BY <1>3, StartKeeps
<1>4. ASSUME NEW pc \in {"over", "rejected"}, GotError(pc) PROVE Inv'
  BY <1>4, GotErrorKeeps
<1>. QED
  BY <1>1, <1>2, <1>3, <1>4, RunStartKeeps, WorkerStartKeeps, GotPageKeeps, PageRaisesKeeps,
     RunEndKeeps, OddReplyKeeps, CrashKeeps DEF Next

-----------------------------------------------------------------------------
(* The theorems *)

THEOREM Invariance == Spec => []Inv
  BY InvInit, InvNext, PTL DEF Spec

\* The types of the state, for any number of events and restarts (db.py, jobs.py).
THEOREM TypeCorrect == Spec => []TypeOK
<1>1. Inv => TypeOK
  BY DEF Inv
<1>. QED
  BY <1>1, Invariance, PTL

\* Wherever a run is cut off, what the file lacks is on the pages left to pull
\* (insert_events_page of db.py, the resume in _process_uuid of jobs.py).
THEOREM ResumesMissNothing == Spec => []ResumeMissesNothing
<1>1. Inv => ResumeMissesNothing
  BY DEF Inv
<1>. QED
  BY <1>1, Invariance, PTL

\* An account that is done has every event that was there when its pull began, for
\* any page size, any arrivals, a store that raises and restarts (README, "Paging
\* is exact"; jobs.py:9-12).
THEOREM NoEventIsMissed == Spec => []NoneMissed
<1>1. Inv => NoneMissed
  <2>. SUFFICES ASSUME Inv, NEW s \in {seen, file}, Complete(s) PROVE known \subseteq s.events
    BY DEF NoneMissed
  <2>1. file.pages > 0 /\ ~file.more
    BY DEF Inv, Closing, Agreed
  <2>. QED
    BY <2>1 DEF Inv, Closing, Agreed
<1>. QED
  BY <1>1, Invariance, PTL
=============================================================================

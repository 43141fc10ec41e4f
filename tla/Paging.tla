------------------------------- MODULE Paging -------------------------------
(***************************************************************************)
(* One account's events on their way from Guardhouse into the store: a     *)
(* list that grows while it is read page by page, newest first, by runs    *)
(* that end, fail and die (jobs.py), and one SQLite connection whose       *)
(* transactions have no rollback (db.py).  BatchRunner knows an event by   *)
(* the page it came on; here the same event may come on two pages.         *)
(*                                                                         *)
(* The connection sees its own open transaction; the file holds what is    *)
(* committed, and is all that a restart finds.                             *)
(*                                                                         *)
(* Abstracted: the answers without a page are a verdict or nothing, and an *)
(* empty first page is one step (BatchRunner has them in full); what other *)
(* parts of the program write matters only when it raises in a transaction;*)
(* the account has one worker at a time (WatchedPull says what is left out)*)
(***************************************************************************)
EXTENDS Integers, FiniteSets

CONSTANTS
    Events,      \* what may ever happen on the account; a greater one is newer
    PageSize,    \* events on a page of Guardhouse
    Pulled,      \* those an earlier batch stored, if they were there
    Unbindable,  \* the events with a text the store cannot take (no UTF-8)
    OddReplies,  \* may IPQS answer a value the store cannot take?
    MaxCrashes   \* bound: restarts of the process

ASSUME EventsAssumption ==
    /\ Events \subseteq Int /\ IsFiniteSet(Events)
    /\ Pulled \subseteq Events /\ Unbindable \subseteq Events
ASSUME PageAssumption == PageSize \in Nat \ {0}
ASSUME FaultsAssumption == OddReplies \in BOOLEAN /\ MaxCrashes \in Nat

VARIABLES
    present,  \* Guardhouse's events of the account
    known,    \* those of them there when the pull's first page was answered
    seen,     \* the store as the connection sees it
    file,     \* the store as committed
    open,     \* a transaction was begun and neither committed nor rolled back
    pull,     \* the run and its worker
    crashes   \* restarts so far

store == <<seen, file, open>>
vars  == <<present, known, store, pull, crashes>>

-----------------------------------------------------------------------------
(* The state *)

\* The batch, its row of the account, and the account's events.
Resumable == {"queued", "fetching"}
Store == [batch  : {"running", "done", "failed"},
          status : Resumable \cup {"done", "no_events", "failed"},
          pages  : Nat, more : BOOLEAN, events : SUBSET Events]

\* "over" and "rejected": the worker has returned, the second with auth_failed.
Pull == [pc : {"idle", "scheduled", "ready", "asking", "over", "rejected", "raised"},
         retry : BOOLEAN, page : Nat]
Idle == [pc |-> "idle", retry |-> FALSE, page |-> 0]

TypeOK ==
    /\ present \subseteq Events /\ known \subseteq present
    /\ seen \in Store /\ file \in Store /\ open \in BOOLEAN
    /\ pull \in Pull
    /\ crashes \in Nat

\* A batch just created.
Init ==
    /\ present \in SUBSET Events
    /\ known = {}
    /\ file = [batch |-> "running", status |-> "queued", pages |-> 0, more |-> TRUE,
               events |-> present \cap Pulled]
    /\ seen = file /\ open = FALSE
    /\ pull = [Idle EXCEPT !.pc = "scheduled"]
    /\ crashes = 0

-----------------------------------------------------------------------------
(* Guardhouse *)

Newer(e)  == Cardinality({f \in present : f > e})
OnPage(p) == {e \in present : Newer(e) >= (p - 1) * PageSize /\ Newer(e) < p * PageSize}
More(p)   == Cardinality(present) > p * PageSize

\* Something happens on the account, or is recorded late.
Arrive(e) ==
    /\ e \in Events \ present
    /\ present' = present \cup {e}
    /\ UNCHANGED <<known, store, pull, crashes>>

-----------------------------------------------------------------------------
(* The connection *)

\* A statement of its own is committed at once, but joins a transaction that
\* is open.
Statement(new) ==
    /\ seen' = new
    /\ file' = IF open THEN file ELSE new
    /\ UNCHANGED open

\* BEGIN ... COMMIT, when nothing raises.
TransactionMutant(new) ==                                \* COMMIT is forgotten
    ~open /\ seen' = new /\ file' = file /\ open' = TRUE
Transaction(new) == ~open /\ seen' = new /\ file' = new /\ open' = FALSE

\* A statement after BEGIN raises: those before it stay, and so does BEGIN. The
\* next BEGIN raises too, whoever says it.
Broken(new)  == ~open /\ seen' = new /\ UNCHANGED file /\ open' = TRUE
Refused      == open /\ UNCHANGED store

-----------------------------------------------------------------------------
(* A run *)

\* JobRunner.start, by the resume of batch_page, or by retry_failed, which asks
\* nothing of the batch.
Start(retry) ==
    /\ pull.pc = "idle"
    /\ retry \/ seen.batch = "running"
    /\ pull' = [Idle EXCEPT !.pc = "scheduled", !.retry = retry]
    /\ UNCHANGED <<present, known, store, crashes>>

\* The first step of _run, and the first of the worker if there is one.
RunStart ==
    LET pending == seen.status \in Resumable \cup (IF pull.retry THEN {"failed"} ELSE {}) IN
    /\ pull.pc = "scheduled"
    /\ Statement([seen EXCEPT !.batch = "running"])
    /\ pull' = [Idle EXCEPT !.pc = IF pending THEN "ready" ELSE "over"]
    /\ UNCHANGED <<present, known, crashes>>

NextPageMutant == seen.pages + (IF seen.pages = 0 THEN 1 ELSE 2)   \* resumes one too far
NextPage == seen.pages + 1

WorkerStart ==
    /\ pull.pc = "ready"
    /\ \/ /\ seen.pages > 0 /\ ~seen.more
          /\ Statement([seen EXCEPT !.status = "done"])
          /\ pull' = [pull EXCEPT !.pc = "over"]
       \/ /\ seen.pages = 0 \/ seen.more
          /\ Statement([seen EXCEPT !.status = "fetching"])
          /\ pull' = [pull EXCEPT !.pc = "asking", !.page = NextPage]
    /\ UNCHANGED <<present, known, crashes>>

\* The page as insert_events_page writes it.
WithPageMutant(p) ==                                     \* forgets has_more
    [batch |-> seen.batch, status |-> IF More(p) THEN "fetching" ELSE "done",
     pages |-> p, more |-> FALSE, events |-> seen.events \cup OnPage(p)]
WithPage(p) ==
    [batch  |-> seen.batch,
     status |-> IF More(p) THEN "fetching"
                ELSE IF p = 1 /\ OnPage(p) = {} THEN "no_events" ELSE "done",
     pages  |-> p, more |-> More(p), events |-> seen.events \cup OnPage(p)]

Answered == known' = IF pull.page = 1 THEN present ELSE known

GotPage ==
    LET p == pull.page IN
    /\ pull.pc = "asking"
    /\ OnPage(p) \cap Unbindable = {}
    /\ Transaction(WithPage(p))
    /\ pull' = IF More(p) THEN [pull EXCEPT !.page = @ + 1] ELSE [pull EXCEPT !.pc = "over"]
    /\ Answered
    /\ UNCHANGED <<present, crashes>>

\* insert_events_page raises: at BEGIN, or at the first event that cannot be
\* bound, with the ones before it inserted.
PageRaises ==
    LET page == OnPage(pull.page) IN
    /\ pull.pc = "asking"
    /\ \/ Refused
       \/ \E bad \in page \cap Unbindable :
            /\ \A e \in page \cap Unbindable : e <= bad
            /\ Broken([seen EXCEPT !.events = @ \cup {e \in page : e > bad}])
    /\ pull' = [pull EXCEPT !.pc = "raised"]
    /\ Answered
    /\ UNCHANGED <<present, crashes>>

\* No page, for good.
GotError(pc) ==
    /\ pull.pc = "asking"
    /\ Statement([seen EXCEPT !.status = "failed"])
    /\ pull' = [pull EXCEPT !.pc = pc]
    /\ UNCHANGED <<present, known, crashes>>

VerdictMutant == IF pull.pc = "over" THEN "done" ELSE pull.pc   \* no status of a batch
Verdict == IF pull.pc = "over" THEN "done" ELSE "failed"

\* What follows gather, and the except clause of _run.
RunEnd ==
    /\ pull.pc \in {"over", "rejected", "raised"}
    /\ Statement([seen EXCEPT !.batch = Verdict])
    /\ pull' = Idle
    /\ UNCHANGED <<present, known, crashes>>

-----------------------------------------------------------------------------
\* save_ipqs of a body with a value that cannot be bound.
OddReply ==
    /\ OddReplies
    /\ Broken(seen)
    /\ UNCHANGED <<present, known, pull, crashes>>

\* The process dies; SQLite rolls back what was not committed.
Crash ==
    /\ crashes < MaxCrashes
    /\ crashes' = crashes + 1
    /\ seen' = file /\ open' = FALSE
    /\ pull' = Idle
    /\ UNCHANGED <<present, known, file>>

-----------------------------------------------------------------------------
Next ==
    \/ \E e \in Events : Arrive(e)
    \/ \E retry \in BOOLEAN : Start(retry)
    \/ RunStart \/ WorkerStart \/ GotPage \/ PageRaises \/ RunEnd
    \/ \E pc \in {"over", "rejected"} : GotError(pc)
    \/ OddReply \/ Crash

Spec == Init /\ [][Next]_vars

-----------------------------------------------------------------------------
(* Properties *)

Complete(s) == s.status \in {"done", "no_events"}

\* An account that is done has every event that was there when its pull began,
\* however many arrived in between and however often the pull was taken up again
\* (jobs.py:9-12; README, "Paging is exact").
NoneMissed == \A s \in {seen, file} : Complete(s) => known \subseteq s.events

\* Wherever a run is cut off, the events the file lacks are on the pages that the
\* resume point leaves to pull: events that arrive push the others to later pages,
\* never to earlier ones.
ResumeMissesNothing ==
    \A e \in known \ file.events : Newer(e) >= file.pages * PageSize

\* db.py:132, "Commit one page atomically with the uuid's progress (resume
\* point)": the events of a page never show without its progress.
PageAtomic ==
    [][seen'.events \subseteq seen.events
       \/ (seen'.pages = pull.page /\ file' = seen')]_vars
=============================================================================

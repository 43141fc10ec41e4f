----------------------------- MODULE PullLedger -----------------------------
(***************************************************************************)
(* What the analyst is promised about a batch, without tasks, retries,     *)
(* pauses or restarts: a ledger with one line per uuid that is pending     *)
(* until it gets a verdict, whose pages are entered one after the other,   *)
(* each with its events; a batch is closed only when no line is pending;   *)
(* a verdict other than "failed" is final; a purge takes the lines of the  *)
(* batch and exactly the events nobody else holds a line for.              *)
(***************************************************************************)
EXTENDS Naturals

CONSTANTS Batches, Uuids

VARIABLES
    state,    \* of each batch
    ledger,   \* the line of each uuid in each batch
    events    \* the pages of each uuid whose events are kept

vars == <<state, ledger, events>>

NoLine   == [status |-> "absent", pages |-> 0]

Init ==
    /\ state = [b \in Batches |-> "none"]
    /\ ledger = [b \in Batches |-> [u \in Uuids |-> NoLine]]
    /\ events = [u \in Uuids |-> {}]

Listed(b, u)  == ledger[b][u].status # "absent"
Pending(b, u) == ledger[b][u].status = "pending"

Create(b, us) ==
    /\ state[b] = "none"
    /\ state' = [state EXCEPT ![b] = "open"]
    /\ ledger' = [ledger EXCEPT ![b] =
                    [u \in Uuids |-> IF u \in us THEN [NoLine EXCEPT !.status = "pending"] ELSE NoLine]]
    /\ UNCHANGED events

\* The next page of a line, with its events; only a last page may have none.
Enter(b, u, status, hasEvents) ==
    LET page == ledger[b][u].pages + 1 IN
    /\ state[b] = "open" /\ Pending(b, u)
    /\ status = "pending" => hasEvents
    /\ status = "no_events" => page = 1 /\ ~hasEvents
    /\ ledger' = [ledger EXCEPT ![b][u] = [status |-> status, pages |-> page]]
    /\ events' = [events EXCEPT ![u] = IF hasEvents THEN @ \cup {page} ELSE @]
    /\ UNCHANGED state

\* A verdict without a page.
Conclude(b, u, status) ==
    /\ state[b] = "open" /\ Pending(b, u)
    /\ ledger' = [ledger EXCEPT ![b][u].status = status]
    /\ UNCHANGED <<state, events>>

\* A failed line is taken up again, at the page it had reached.
TakeUp(b, u) ==
    /\ state[b] = "open" /\ ledger[b][u].status = "failed"
    /\ ledger' = [ledger EXCEPT ![b][u].status = "pending"]
    /\ UNCHANGED <<state, events>>

Close(b) ==
    /\ state[b] = "open"
    /\ \A u \in Uuids : ~Pending(b, u)
    /\ state' = [state EXCEPT ![b] = "closed"]
    /\ UNCHANGED <<ledger, events>>

Reopen(b) ==
    /\ state[b] = "closed"
    /\ state' = [state EXCEPT ![b] = "open"]
    /\ UNCHANGED <<ledger, events>>

Purge(b) ==
    /\ state[b] \in {"open", "closed"}
    /\ state' = [state EXCEPT ![b] = "purged"]
    /\ ledger' = [ledger EXCEPT ![b] = [u \in Uuids |-> NoLine]]
    /\ events' = [u \in Uuids |->
                    IF Listed(b, u) /\ \A c \in Batches \ {b} : ~Listed(c, u) THEN {} ELSE events[u]]

Next ==
    \E b \in Batches :
      \/ \E us \in SUBSET Uuids \ {{}} : Create(b, us)
      \/ \E u \in Uuids :
           \/ \E status \in {"pending", "done", "no_events"}, hasEvents \in BOOLEAN :
                Enter(b, u, status, hasEvents)
           \/ \E status \in {"no_events", "unknown", "failed"} : Conclude(b, u, status)
           \/ TakeUp(b, u)
      \/ Close(b) \/ Reopen(b) \/ Purge(b)

Spec == Init /\ [][Next]_vars
=============================================================================

-------------------------------- MODULE Ipqs --------------------------------
(***************************************************************************)
(* The IPQS button (account_ipqs of web/routes.py), the client behind it   *)
(* (enrich/ipqs.py) and the tables it keeps (db.py): a press looks up the  *)
(* addresses of one account, one at a time across all accounts, within the *)
(* day's cap.                                                              *)
(*                                                                         *)
(* An action is the code from one await to the next.  Two things are the   *)
(* vendor's: the moment it processes (and bills) a lookup, which lies      *)
(* somewhere between our request and its answer, and what it answers.      *)
(*                                                                         *)
(* Abstracted: the addresses an account has are any set, chosen at each    *)
(* press (pulls and purges change them); addresses are looked up in any    *)
(* order; of the vendor's balance only whether a copy of it is older than  *)
(* the last lookup.                                                        *)
(***************************************************************************)
EXTENDS Naturals, FiniteSets

CONSTANTS
    Accounts,      \* the accounts whose page has the button
    Ips,           \* the addresses
    Replies,       \* the replies to a lookup
    LostReplies,   \* may a lookup be processed and its reply be lost, or unreadable?
    DailyCap,      \* settings.ipqs_daily_cap
    MaxPaid,       \* bound: lookups the vendor processes in a day
    MaxMidnights,  \* bound: changes of the day
    MaxTails,      \* bound: final refreshes of the balance under way at once
    MaxCrashes     \* bound: restarts of the process

\* What a reply says, as lookup() reads it: "net" fails for anything httpx
\* raises; "body" is an object, other JSON, or no JSON at all; "words" are those
\* of the message that tell a refusal from a processed lookup.
Reply == [net : BOOLEAN, status : Nat, body : {"object", "other", "text"},
          success : BOOLEAN, words : SUBSET {"key", "unauthorized", "credit", "insufficient"}]

ASSUME RepliesAssumption == Replies \subseteq Reply /\ LostReplies \in BOOLEAN
ASSUME CapAssumption     == DailyCap \in Nat
ASSUME BoundsAssumption ==
    MaxPaid \in Nat /\ MaxMidnights \in Nat /\ MaxTails \in Nat /\ MaxCrashes \in Nat
ASSUME IpsAssumption     == IsFiniteSet(Ips)

VARIABLES
    cached,     \* ipqs: the addresses with a row
    errors,     \* ipqs_errors: the addresses with a row
    spent,      \* ipqs_log: today's rows
    run,        \* ipqs_runs and the task of each run
    lock,       \* ipqs_lock: the accounts whose task holds it
    balance,    \* ipqs_account_cache
    tails,      \* tasks whose run is finished and who refresh the balance last
    paid,       \* the vendor's: lookups processed today
    midnights,  \* changes of the day so far
    crashes     \* restarts so far

store  == <<cached, errors, spent>>
memory == <<run, lock, balance, tails>>
vars   == <<store, memory, paid, midnights, crashes>>

-----------------------------------------------------------------------------
(* What lookup() makes of a reply *)

LookupOutcome(r) ==
    CASE ~r.net \/ r.status # 200 \/ r.body = "text" -> "uncharged"
      [] r.net /\ r.status = 200 /\ r.body = "other" -> "raise"
      [] r.net /\ r.status = 200 /\ r.body = "object" ->
           IF r.success THEN "success"
           ELSE IF r.words \cap {"credit", "insufficient"} # {} THEN "no_credits"
           ELSE IF r.words # {} THEN "uncharged"
           ELSE "charged"

\* The vendor bills what it processed: a success, or a refusal of the address.
\* It processes nothing for a rejected key or an empty balance.
MayFollow(r, processed) ==
    CASE LookupOutcome(r) \in {"success", "charged"} -> processed
      [] LookupOutcome(r) = "no_credits"             -> ~processed
      [] LookupOutcome(r) = "raise"                  -> processed => LostReplies
      [] OTHER -> processed => LostReplies /\ (~r.net \/ r.status # 200)

-----------------------------------------------------------------------------
(* The state *)

Freshness == {"current", "stale"}

\* "refresh": awaits the balance; "waiting": wants the lock; "asking": awaits a
\* lookup of "ip". "processed" is the vendor's side of that lookup.
Run == [pc : {"none", "refresh", "waiting", "asking", "finished"},
        targets : SUBSET Ips, left : SUBSET Ips, done : Nat, failed : Nat, capped : Nat,
        stopped : BOOLEAN, fetch : Freshness, ip : SUBSET Ips, processed : BOOLEAN]

TypeOK ==
    /\ cached \subseteq Ips
    /\ errors \subseteq Ips
    /\ spent \in Nat
    /\ run \in [Accounts -> Run]
    /\ lock \subseteq Accounts
    /\ balance \in {"none", "unknown"} \cup Freshness
    /\ tails \in [Freshness -> Nat]
    /\ paid \in Nat
    /\ midnights \in Nat
    /\ crashes \in Nat

NoRun == [pc |-> "none", targets |-> {}, left |-> {}, done |-> 0,
          failed |-> 0, capped |-> 0, stopped |-> FALSE, fetch |-> "current", ip |-> {},
          processed |-> FALSE]

Init ==
    /\ cached = {} /\ errors = {} /\ spent = 0
    /\ run = [a \in Accounts |-> NoRun]
    /\ lock = {} /\ balance = "none" /\ tails = [f \in Freshness |-> 0]
    /\ paid = 0 /\ midnights = 0 /\ crashes = 0

Live(a) == run[a].pc \in {"refresh", "waiting", "asking"}
Asking  == {a \in Accounts : run[a].pc = "asking"}

\* The end of work(): finished, its locals gone, and the balance forgotten and
\* asked for anew.
Finish(a, r) ==
    /\ run' = [run EXCEPT ![a] = [r EXCEPT !.pc = "finished", !.left = {}, !.ip = {},
                                           !.fetch = "current", !.processed = FALSE]]
    /\ balance' = "none"
    /\ tails' = [tails EXCEPT !["current"] = @ + 1]

\* The head of the loop over the targets.
NextTarget(a, r) ==
    \/ /\ r.left = {}
       /\ Finish(a, r)
    \/ /\ r.left # {}
       /\ run' = [run EXCEPT ![a] = [r EXCEPT !.pc = "waiting"]]
       /\ UNCHANGED <<balance, tails>>

-----------------------------------------------------------------------------
(* account_ipqs: a press, for an account with the addresses ips *)

Targets(ips, force) == IF force THEN ips ELSE ips \ cached

\* The task starts with a balance unless one not too old is there.
Press(a, ips, force) ==
    LET targets == Targets(ips, force)
        new == [NoRun EXCEPT !.targets = targets, !.left = targets]
    IN  /\ ~Live(a)
        /\ tails["current"] + tails["stale"] < MaxTails
        /\ \/ /\ run' = [run EXCEPT ![a] = [new EXCEPT !.pc = "refresh"]]
              /\ UNCHANGED <<balance, tails>>
           \/ /\ balance # "none"
              /\ NextTarget(a, new)
        /\ UNCHANGED <<store, lock, paid, midnights, crashes>>

\* _ipqs_account: what the vendor says of the balance was read at some moment
\* between the request and its answer; a failure is kept as "unknown".
RefreshedMutant(fetch) == {"error", "current", fetch}    \* nothing the page knows
Refreshed(fetch) == {"unknown", "current", fetch}

Refresh(a) ==
    /\ run[a].pc = "refresh"
    /\ \/ /\ run[a].left # {}
          /\ balance' \in Refreshed(run[a].fetch)
          /\ run' = [run EXCEPT ![a].pc = "waiting", ![a].fetch = "current"]
          /\ UNCHANGED tails
       \/ /\ run[a].left = {} \/ \E r \in Replies : LookupOutcome(r) = "raise"
          /\ Finish(a, run[a])
    /\ UNCHANGED <<store, lock, paid, midnights, crashes>>

\* The last await of a finished task.
LastRefresh(f) ==
    /\ tails[f] > 0
    /\ tails' = [tails EXCEPT ![f] = @ - 1]
    /\ balance' \in Refreshed(f) \cup {balance}
    /\ UNCHANGED <<store, run, lock, paid, midnights, crashes>>

-----------------------------------------------------------------------------
(* One lookup, under the lock *)

LockFreeMutant == TRUE                                   \* no lock at all
LockFree == lock = {}

WithinDay == spent < DailyCap

Ask(a) ==
    /\ run[a].pc = "waiting"
    /\ LockFree
    /\ WithinDay
    /\ \E ip \in run[a].left :
         run' = [run EXCEPT ![a].pc = "asking", ![a].ip = {ip}, ![a].processed = FALSE]
    /\ lock' = lock \cup {a}
    /\ UNCHANGED <<store, balance, tails, paid, midnights, crashes>>

\* The day's cap is reached: what is left waits for tomorrow.
Capped(a) ==
    /\ run[a].pc = "waiting"
    /\ LockFree
    /\ ~WithinDay
    /\ Finish(a, [run[a] EXCEPT !.capped = Cardinality(run[a].targets) - run[a].done])
    /\ UNCHANGED <<store, lock, paid, midnights, crashes>>

\* The vendor processes the lookup; every copy of the balance grows old.
Process(a) ==
    /\ run[a].pc = "asking" /\ ~run[a].processed
    /\ paid < MaxPaid
    /\ paid' = paid + 1
    /\ run' = [c \in Accounts |->
                  [run[c] EXCEPT !.fetch = IF run[c].pc = "refresh" THEN "stale" ELSE @,
                                 !.processed = @ \/ c = a]]
    /\ balance' = IF balance = "current" THEN "stale" ELSE balance
    /\ tails' = [f \in Freshness |-> IF f = "stale" THEN tails["current"] + tails["stale"] ELSE 0]
    /\ UNCHANGED <<store, lock, midnights, crashes>>

\* save_ipqs and log_ipqs_failure, one transaction each.
SaveMutant(ip, outcome) ==                               \* forgets to log a failure
    /\ cached' = IF outcome = "success" THEN cached \cup ip ELSE cached
    /\ errors' = IF outcome = "success" THEN errors \ ip ELSE errors \cup ip
    /\ spent'  = IF outcome = "success" THEN spent + 1 ELSE spent
SaveErrorMutant(ip, outcome) ==                          \* keeps no error
    /\ cached' = IF outcome = "success" THEN cached \cup ip ELSE cached
    /\ errors' = errors \ ip
    /\ spent'  = IF outcome \in {"success", "charged"} THEN spent + 1 ELSE spent
Save(ip, outcome) ==
    /\ cached' = IF outcome = "success" THEN cached \cup ip ELSE cached
    /\ errors' = IF outcome = "success" THEN errors \ ip ELSE errors \cup ip
    /\ spent'  = IF outcome \in {"success", "charged"} THEN spent + 1 ELSE spent

ReleaseMutant(a, outcome) == lock' = IF outcome = "success" THEN lock \ {a} ELSE lock
Release(a, outcome) == lock' = lock \ {a}

\* The reply: saved or noted as a failure, then the next target; without credits
\* the run stops, and so it does, with nothing saved, at a body that is no object.
Answer(a, r) ==
    LET outcome == LookupOutcome(r)
        one == [run[a] EXCEPT !.left = @ \ run[a].ip, !.ip = {},
                              !.failed = IF outcome = "success" THEN @ ELSE @ + 1]
    IN  /\ run[a].pc = "asking"
        /\ MayFollow(r, run[a].processed)
        /\ Release(a, outcome)
        /\ \/ /\ outcome \in {"success", "charged", "uncharged"}
              /\ Save(run[a].ip, outcome)
              /\ NextTarget(a, [one EXCEPT !.done = @ + 1])
           \/ /\ outcome = "no_credits"
              /\ Save(run[a].ip, outcome)
              /\ Finish(a, [one EXCEPT !.stopped = TRUE])
           \/ /\ outcome = "raise"
              /\ Finish(a, run[a])
              /\ UNCHANGED store
        /\ UNCHANGED <<paid, midnights, crashes>>

-----------------------------------------------------------------------------
(* The day changes, at any moment; the process dies *)

Midnight ==
    /\ midnights < MaxMidnights
    /\ midnights' = midnights + 1
    /\ spent' = 0 /\ paid' = 0
    /\ UNCHANGED <<cached, errors, memory, crashes>>

Crash ==
    /\ crashes < MaxCrashes
    /\ crashes' = crashes + 1
    /\ run' = [a \in Accounts |-> NoRun]
    /\ lock' = {} /\ balance' = "none" /\ tails' = [f \in Freshness |-> 0]
    /\ UNCHANGED <<store, paid, midnights>>

-----------------------------------------------------------------------------
TaskStep(a) ==
    \/ Refresh(a) \/ Capped(a) \/ Ask(a)
    \/ \E r \in Replies : Answer(a, r)

Next ==
    \/ \E a \in Accounts, ips \in SUBSET Ips, force \in BOOLEAN : Press(a, ips, force)
    \/ \E a \in Accounts : TaskStep(a) \/ Process(a)
    \/ \E f \in Freshness : LastRefresh(f)
    \/ Midnight \/ Crash

Spec == Init /\ [][Next]_vars

\* Every request ends, by a reply or by the client's timeout; asyncio.Lock hands
\* over in order of arrival, so a task that waits for it gets it in the end.
Fairness ==
    \A a \in Accounts :
      /\ WF_vars(Refresh(a)) /\ WF_vars(\E r \in Replies : Answer(a, r))
      /\ SF_vars(Ask(a) \/ Capped(a))

FairSpec == Spec /\ Fairness

-----------------------------------------------------------------------------
(* Properties *)

\* The log of the day never passes the cap, whoever presses together, across
\* midnights and restarts (routes.py:277-278, "two accounts pressed together
\* cannot overspend the cap").
WithinCap == spent <= DailyCap

\* Nor does what the vendor bills, as the log is "every credit spent (requests
\* IPQS actually processed), so the daily cap can be enforced" (schema.sql:94).
PaidWithinCap == paid <= DailyCap

\* That every credit is in the log takes a vendor that answers what it bills and
\* a process that lives to read it.
Reliable ==
    /\ ~LostReplies
    /\ MaxCrashes = 0

\* A finished run accounts for every target: each has its row or its error on
\* the page, or is counted among those left for tomorrow, whatever the other
\* accounts did meanwhile; unless the vendor said that the credits are gone
\* (schema.sql:88, "A failed lookup is a fact too: shown on the page"). A reply
\* that is JSON and no object breaks this (ipqs.py:65): "raise" forgets the rest.
NothingForgotten ==
    \A a \in Accounts :
      run[a].pc = "finished" /\ ~run[a].stopped =>
        Cardinality(run[a].targets \ (cached \cup errors)) <= run[a].capped

\* Every press comes to an end, whatever replies come and whoever else presses:
\* no way out of the loop keeps the lock.
PressEnds == \A a \in Accounts : Live(a) ~> ~Live(a)
=============================================================================

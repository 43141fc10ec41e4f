----------------------------- MODULE IpqsProofs -----------------------------
(***************************************************************************)
(* Theorems about the IPQS button, for every number of accounts and        *)
(* addresses, every set of replies and every bound.                        *)
(*                                                                         *)
(* The cap is checked when a lookup is sent and counted when it is         *)
(* answered; between the two only the lock keeps it.  So the invariant     *)
(* says who holds the lock, and that its holder still has room in the day. *)
(***************************************************************************)
EXTENDS Ipqs, FiniteSetTheorems, TLAPS

Busy == {"refresh", "waiting", "asking"}

\* What the loop has left, and what it has done, are all the targets.
Counted(r) ==
    /\ r.left \subseteq r.targets
    /\ r.done + Cardinality(r.left) = Cardinality(r.targets)

RunInv(r) ==
    /\ r \in Run
    /\ r.pc \in Busy => Counted(r)
    /\ r.pc = "asking" => \E ip \in r.left : r.ip = {ip}

RunsInv == run \in [Accounts -> Run] /\ \A a \in Accounts : RunInv(run[a])

RestTypes ==
    /\ cached \subseteq Ips
    /\ errors \subseteq Ips
    /\ spent \in Nat
    /\ lock \subseteq Accounts
    /\ balance \in {"none", "unknown"} \cup Freshness
    /\ tails \in [Freshness -> Nat]
    /\ paid \in Nat
    /\ midnights \in Nat
    /\ crashes \in Nat

\* The lock's holder is the one that asks, and there is room for its lookup.
LockInv == \A a \in Accounts : run[a].pc = "asking" => lock = {a} /\ spent < DailyCap

IInv == RunsInv /\ RestTypes /\ LockInv /\ WithinCap

-----------------------------------------------------------------------------
(* Runs *)

LEMMA TypesOfParts == RunsInv /\ RestTypes => TypeOK
  BY DEF RunsInv, RestTypes, TypeOK

LEMMA FiniteSubsets == \A S \in SUBSET Ips : IsFiniteSet(S) /\ Cardinality(S) \in Nat
  BY IpsAssumption, FS_Subset, FS_CardinalityType

\* The record that Finish leaves.
LEMMA FinishedRun ==
  ASSUME NEW r \in Run
  PROVE  RunInv([r EXCEPT !.pc = "finished", !.left = {}, !.ip = {},
                          !.fetch = "current", !.processed = FALSE])
<1> DEFINE f == [r EXCEPT !.pc = "finished", !.left = {}, !.ip = {},
                          !.fetch = "current", !.processed = FALSE]
<1>1. f \in Run
  BY DEF Run, Freshness
<1>2. f.pc = "finished"
  BY DEF Run
<1> QED
  BY <1>1, <1>2 DEF RunInv, Busy

\* Replacing one run by one that is sound keeps all of them sound.
LEMMA OneRun ==
  ASSUME RunsInv, NEW a \in Accounts, NEW r, RunInv(r),
         run' = [run EXCEPT ![a] = r]
  PROVE  RunsInv' /\ run'[a] = r /\ \A c \in Accounts \ {a} : run'[c] = run[c]
<1>1. run \in [Accounts -> Run] /\ \A c \in Accounts : RunInv(run[c])
  BY DEF RunsInv
<1>2. r \in Run
  BY DEF RunInv
<1>3. run' \in [Accounts -> Run] /\ run'[a] = r /\ \A c \in Accounts \ {a} : run'[c] = run[c]
  BY <1>1, <1>2
<1>4. \A c \in Accounts : RunInv(run'[c])
  BY <1>1, <1>3
<1> QED
  BY <1>3, <1>4 DEF RunsInv, RunInv, Counted

\* What Finish and NextTarget do to the runs, the balance and the tails: the
\* account's run is sound and no longer asks.
Left(a) ==
    /\ RunsInv'
    /\ run'[a].pc # "asking"
    /\ \A c \in Accounts \ {a} : run'[c] = run[c]
    /\ balance' \in {"none", "unknown"} \cup Freshness
    /\ tails' \in [Freshness -> Nat]

LEMMA FinishEffect ==
  ASSUME RunsInv, RestTypes, NEW a \in Accounts, NEW r \in Run, Finish(a, r)
  PROVE  Left(a)
<1> DEFINE f == [r EXCEPT !.pc = "finished", !.left = {}, !.ip = {},
                          !.fetch = "current", !.processed = FALSE]
<1>1. RunInv(f)
  BY FinishedRun
<1>2. run' = [run EXCEPT ![a] = f]
  BY DEF Finish
<1>3. RunsInv' /\ run'[a] = f /\ \A c \in Accounts \ {a} : run'[c] = run[c]
  BY <1>1, <1>2, OneRun
<1>4. f.pc = "finished"
  BY DEF Run
<1>5. tails' \in [Freshness -> Nat] /\ balance' = "none"
  BY DEF Finish, RestTypes, Freshness
<1> QED
  BY <1>3, <1>4, <1>5 DEF Left

LEMMA NextTargetEffect ==
  ASSUME RunsInv, RestTypes, NEW a \in Accounts, NEW r \in Run, Counted(r), NextTarget(a, r)
  PROVE  Left(a)
<1>1. CASE Finish(a, r)
  BY <1>1, FinishEffect
<1>2. CASE /\ run' = [run EXCEPT ![a] = [r EXCEPT !.pc = "waiting"]]
           /\ UNCHANGED <<balance, tails>>
  <2> DEFINE w == [r EXCEPT !.pc = "waiting"]
  <2>1. w \in Run /\ w.pc = "waiting" /\ w.left = r.left /\ w.targets = r.targets /\ w.done = r.done
    BY DEF Run
  <2>2. RunInv(w)
    BY <2>1 DEF RunInv, Counted
  <2>3. RunsInv' /\ run'[a] = w /\ \A c \in Accounts \ {a} : run'[c] = run[c]
    BY <1>2, <2>2, OneRun
  <2> QED
    BY <1>2, <2>1, <2>3 DEF Left, RestTypes
<1> QED
  BY <1>1, <1>2 DEF NextTarget

-----------------------------------------------------------------------------
(* The invariant *)

LEMMA InitInv == Init => IInv
<1> SUFFICES ASSUME Init PROVE IInv
  OBVIOUS
<1>1. NoRun \in Run /\ NoRun.pc = "none"
  BY DEF NoRun, Run, Freshness
<1>2. RunInv(NoRun)
  BY <1>1 DEF RunInv, Busy
<1>3. RunsInv /\ \A a \in Accounts : run[a].pc = "none"
  BY <1>1, <1>2 DEF Init, RunsInv
<1>4. RestTypes
  BY DEF Init, RestTypes, Freshness
<1>5. WithinCap
  BY CapAssumption DEF Init, WithinCap
<1> QED
  BY <1>3, <1>4, <1>5 DEF IInv, LockInv

\* A step that only takes the account a out of asking, and counts nothing.
LEMMA QuietStep ==
  ASSUME IInv, NEW a \in Accounts, Left(a),
         UNCHANGED <<store, lock, paid, midnights, crashes>>
  PROVE  IInv'
<1>1. RestTypes'
  BY DEF IInv, RestTypes, Left, store
<1>2. LockInv'
  BY DEF IInv, LockInv, Left, store
<1> QED
  BY <1>1, <1>2 DEF IInv, Left, WithinCap, store

LEMMA PressInv ==
  ASSUME IInv, NEW a \in Accounts, NEW ips \in SUBSET Ips, NEW force \in BOOLEAN,
         Press(a, ips, force)
  PROVE  IInv'
<1> DEFINE targets == Targets(ips, force)
           new == [NoRun EXCEPT !.targets = targets, !.left = targets]
           r == [new EXCEPT !.pc = "refresh"]
<1>1. targets \in SUBSET Ips
  BY DEF Targets
<1>2. /\ new \in Run /\ new.left = targets /\ new.targets = targets /\ new.done = 0
      /\ r \in Run /\ r.left = targets /\ r.targets = targets /\ r.done = 0 /\ r.pc = "refresh"
  BY <1>1 DEF NoRun, Run, Freshness
<1>3. Counted(new) /\ Counted(r)
  BY <1>1, <1>2, FiniteSubsets DEF Counted
<1>4. RunsInv /\ RestTypes
  BY DEF IInv
<1>5. Left(a)
  <2>1. CASE run' = [run EXCEPT ![a] = r] /\ UNCHANGED <<balance, tails>>
    <3>1. RunInv(r)
      BY <1>2, <1>3 DEF RunInv
    <3>2. RunsInv' /\ run'[a] = r /\ \A c \in Accounts \ {a} : run'[c] = run[c]
      BY <1>4, <2>1, <3>1, OneRun
    <3> QED
      BY <1>2, <1>4, <2>1, <3>2 DEF Left, RestTypes
  <2>2. CASE NextTarget(a, new)
    BY <1>2, <1>3, <1>4, <2>2, NextTargetEffect
  <2> QED
    BY <2>1, <2>2 DEF Press
<1> QED
  BY <1>5, QuietStep DEF Press

LEMMA RefreshInv ==
  ASSUME IInv, NEW a \in Accounts, Refresh(a)
  PROVE  IInv'
<1>1. RunsInv /\ RestTypes /\ run[a] \in Run /\ RunInv(run[a])
  BY DEF IInv, RunsInv
<1>2. Left(a)
  <2>1. CASE Finish(a, run[a])
    BY <1>1, <2>1, FinishEffect
  <2>2. CASE /\ balance' \in Refreshed(run[a].fetch)
             /\ run' = [run EXCEPT ![a].pc = "waiting", ![a].fetch = "current"]
             /\ UNCHANGED tails
    <3> DEFINE w == [run[a] EXCEPT !.pc = "waiting", !.fetch = "current"]
    <3>1. /\ w \in Run /\ w.pc = "waiting" /\ w.left = run[a].left
          /\ w.targets = run[a].targets /\ w.done = run[a].done
      BY <1>1 DEF Run, Freshness
    <3>2. Counted(run[a])
      BY <1>1 DEF RunInv, Busy, Refresh
    <3>3. RunInv(w)
      BY <3>1, <3>2 DEF RunInv, Counted
    <3>4. run' = [run EXCEPT ![a] = w]
      BY <1>1, <2>2 DEF RunsInv
    <3>5. RunsInv' /\ run'[a] = w /\ \A c \in Accounts \ {a} : run'[c] = run[c]
      BY <1>1, <3>3, <3>4, OneRun
    <3>6. run[a].fetch \in Freshness
      BY <1>1 DEF Run
    <3> QED
      BY <1>1, <2>2, <3>1, <3>5, <3>6 DEF Left, Refreshed, RestTypes, Freshness
  <2> QED
    BY <2>1, <2>2 DEF Refresh
<1> QED
  BY <1>2, QuietStep DEF Refresh

LEMMA CappedInv ==
  ASSUME IInv, NEW a \in Accounts, Capped(a)
  PROVE  IInv'
<1> DEFINE left == Cardinality(run[a].targets) - run[a].done
           r == [run[a] EXCEPT !.capped = left]
<1>1. RunsInv /\ RestTypes /\ run[a] \in Run /\ RunInv(run[a]) /\ run[a].pc = "waiting"
  BY DEF IInv, RunsInv, Capped
<1>2. run[a].left \in SUBSET Ips /\ run[a].targets \in SUBSET Ips /\ run[a].done \in Nat
  BY <1>1 DEF Run
<1>3. run[a].done + Cardinality(run[a].left) = Cardinality(run[a].targets)
  BY <1>1 DEF RunInv, Counted, Busy
<1>4. left \in Nat
  BY <1>2, <1>3, FiniteSubsets
<1>5. r \in Run
  BY <1>1, <1>4 DEF Run
<1>6. Left(a)
  BY <1>1, <1>5, FinishEffect DEF Capped
<1> QED
  BY <1>6, QuietStep DEF Capped

LEMMA AskInv ==
  ASSUME IInv, NEW a \in Accounts, Ask(a)
  PROVE  IInv'
<1>1. RunsInv /\ RestTypes /\ run[a] \in Run /\ RunInv(run[a]) /\ run[a].pc = "waiting"
  BY DEF IInv, RunsInv, Ask
<1>2. PICK ip \in run[a].left :
         run' = [run EXCEPT ![a].pc = "asking", ![a].ip = {ip}, ![a].processed = FALSE]
  BY DEF Ask
<1> DEFINE r == [run[a] EXCEPT !.pc = "asking", !.ip = {ip}, !.processed = FALSE]
<1>3. ip \in Ips
  BY <1>1 DEF Run
<1>4. /\ r \in Run /\ r.left = run[a].left /\ r.targets = run[a].targets
      /\ r.done = run[a].done /\ r.ip = {ip}
  BY <1>1, <1>3 DEF Run
<1>5. RunInv(r)
  BY <1>1, <1>4 DEF RunInv, Counted, Busy
<1>6. run' = [run EXCEPT ![a] = r]
  BY <1>1, <1>2 DEF RunsInv
<1>7. RunsInv' /\ \A c \in Accounts \ {a} : run'[c] = run[c]
  BY <1>1, <1>5, <1>6, OneRun
<1>8. lock = {} /\ lock' = {a} /\ spent < DailyCap
  BY DEF Ask, LockFree, WithinDay
<1>9. LockInv'
  BY <1>7, <1>8 DEF IInv, LockInv, Ask, store
<1>10. RestTypes' /\ WithinCap'
  BY <1>8 DEF IInv, RestTypes, WithinCap, Ask, store
<1> QED
  BY <1>7, <1>9, <1>10 DEF IInv

LEMMA ProcessInv ==
  ASSUME IInv, NEW a \in Accounts, Process(a)
  PROVE  IInv'
<1>1. RunsInv /\ RestTypes
  BY DEF IInv
<1>2. ASSUME NEW c \in Accounts
      PROVE  RunInv(run'[c]) /\ run'[c] \in Run /\ run'[c].pc = run[c].pc
  <2>1. run[c] \in Run /\ RunInv(run[c])
    BY <1>1 DEF RunsInv
  <2>2. run'[c] = [run[c] EXCEPT !.fetch = IF run[c].pc = "refresh" THEN "stale" ELSE @,
                                 !.processed = @ \/ c = a]
    BY DEF Process
  <2>3. /\ run'[c] \in Run /\ run'[c].pc = run[c].pc /\ run'[c].left = run[c].left
        /\ run'[c].targets = run[c].targets /\ run'[c].done = run[c].done
        /\ run'[c].ip = run[c].ip
    BY <2>1, <2>2 DEF Run, Freshness
  <2> QED
    BY <2>1, <2>3 DEF RunInv, Counted
<1>3. run' \in [Accounts -> Run]
  BY <1>2 DEF Process
<1>4. RunsInv'
  BY <1>2, <1>3 DEF RunsInv, RunInv, Counted
<1>5. RestTypes'
  <2>1. tails["current"] \in Nat /\ tails["stale"] \in Nat
    BY <1>1 DEF RestTypes, Freshness
  <2>2. tails' = [f \in Freshness |->
                     IF f = "stale" THEN tails["current"] + tails["stale"] ELSE 0]
    BY DEF Process
  <2>3. tails' \in [Freshness -> Nat]
    BY <2>1, <2>2
  <2>4. balance' \in {"none", "unknown"} \cup Freshness
    BY <1>1 DEF Process, RestTypes, Freshness
  <2>5. UNCHANGED <<cached, errors, spent, lock, midnights, crashes>> /\ paid' = paid + 1
    BY DEF Process, store
  <2> QED
    BY <1>1, <2>3, <2>4, <2>5 DEF RestTypes
<1>6. LockInv'
  BY <1>2 DEF IInv, LockInv, Process, store
<1> QED
  BY <1>4, <1>5, <1>6 DEF IInv, WithinCap, Process, store

LEMMA AnswerInv ==
  ASSUME IInv, NEW a \in Accounts, NEW r \in Replies, Answer(a, r)
  PROVE  IInv'
<1> DEFINE outcome == LookupOutcome(r)
           one == [run[a] EXCEPT !.left = @ \ run[a].ip, !.ip = {},
                                 !.failed = IF outcome = "success" THEN @ ELSE @ + 1]
<1>1. RunsInv /\ RestTypes /\ run[a] \in Run /\ RunInv(run[a]) /\ run[a].pc = "asking"
  BY DEF IInv, RunsInv, Answer
<1>2. PICK ip \in run[a].left : run[a].ip = {ip}
  BY <1>1 DEF RunInv
<1>3. /\ run[a].left \in SUBSET Ips /\ run[a].targets \in SUBSET Ips /\ run[a].done \in Nat
      /\ run[a].failed \in Nat /\ ip \in Ips
  BY <1>1, <1>2 DEF Run
<1>4. /\ one \in Run /\ one.left = run[a].left \ {ip} /\ one.targets = run[a].targets
      /\ one.done = run[a].done
  <2> DEFINE left == run[a].left \ {ip}
             failed == IF outcome = "success" THEN run[a].failed ELSE run[a].failed + 1
  <2>1. left \in SUBSET Ips /\ failed \in Nat
    BY <1>3
  <2>2. one = [run[a] EXCEPT !.left = left, !.ip = {}, !.failed = failed]
    BY <1>1, <1>2 DEF Run
  <2> HIDE DEF failed, left, one
  <2>3. /\ one \in Run /\ one.left = left /\ one.targets = run[a].targets
        /\ one.done = run[a].done
    BY <1>1, <2>1, <2>2 DEF Run
  <2> QED
    BY <2>3 DEF left
<1> DEFINE next == [one EXCEPT !.done = @ + 1]
           stop == [one EXCEPT !.stopped = TRUE]
<1>5. /\ next \in Run /\ next.left = run[a].left \ {ip} /\ next.targets = run[a].targets
      /\ next.done = run[a].done + 1 /\ stop \in Run
  <2> HIDE DEF one
  <2>1. run[a].done + 1 \in Nat
    BY <1>3
  <2>2. next = [one EXCEPT !.done = run[a].done + 1]
    BY <1>4 DEF Run
  <2>3. /\ next \in Run /\ next.left = one.left /\ next.targets = one.targets
        /\ next.done = run[a].done + 1
    BY <1>4, <2>1, <2>2 DEF Run
  <2>4. stop \in Run
    BY <1>4 DEF Run
  <2> QED
    BY <1>4, <2>3, <2>4
<1>6. Counted(next)
  <2>1. Cardinality(run[a].left \ {ip}) = Cardinality(run[a].left) - 1
    BY <1>2, <1>3, FiniteSubsets, FS_RemoveElement
  <2>2. Counted(run[a])
    BY <1>1 DEF RunInv, Busy
  <2>3. Cardinality(run[a].left) \in Nat /\ Cardinality(run[a].targets) \in Nat
    BY <1>3, FiniteSubsets
  <2> HIDE DEF next
  <2> QED
    BY <1>3, <1>5, <2>1, <2>2, <2>3 DEF Counted
<1>7. Left(a)
  <2>1. CASE NextTarget(a, next)
    BY <1>1, <1>5, <1>6, <2>1, NextTargetEffect
  <2>2. CASE Finish(a, stop)
    BY <1>1, <1>5, <2>2, FinishEffect
  <2>3. CASE Finish(a, run[a])
    BY <1>1, <2>3, FinishEffect
  <2> QED
    BY <2>1, <2>2, <2>3 DEF Answer
<1>8. lock = {a} /\ spent < DailyCap
  BY <1>1 DEF IInv, LockInv
<1>9. /\ cached' \subseteq Ips /\ errors' \subseteq Ips
      /\ spent' \in Nat /\ spent' <= DailyCap
  <2>1. CASE Save(run[a].ip, outcome)
    BY <1>1, <1>2, <1>3, <1>8, <2>1, CapAssumption DEF Save, RestTypes
  <2>2. CASE UNCHANGED store
    BY <1>1, <1>8, <2>2, CapAssumption DEF store, RestTypes
  <2> QED
    BY <2>1, <2>2 DEF Answer
<1>10. lock' = {} /\ UNCHANGED <<paid, midnights, crashes>>
  BY <1>8 DEF Answer, Release
<1>11. LockInv'
  BY <1>7, <1>8 DEF IInv, LockInv, Left
<1>12. RestTypes'
  BY <1>1, <1>7, <1>9, <1>10 DEF RestTypes, Left
<1> QED
  BY <1>7, <1>9, <1>11, <1>12 DEF IInv, Left, WithinCap

LEMMA RestInv ==
  ASSUME IInv,
         (\E f \in Freshness : LastRefresh(f)) \/ Midnight \/ Crash \/ UNCHANGED vars
  PROVE  IInv'
<1>1. RunsInv /\ RestTypes
  BY DEF IInv
<1>2. ASSUME NEW f \in Freshness, LastRefresh(f) PROVE IInv'
  <2>1. tails' \in [Freshness -> Nat]
    BY <1>1, <1>2 DEF LastRefresh, RestTypes
  <2>2. balance' \in {"none", "unknown"} \cup Freshness
    BY <1>1, <1>2 DEF LastRefresh, RestTypes, Refreshed, Freshness
  <2> QED
    BY <1>2, <2>1, <2>2
    DEF LastRefresh, IInv, RunsInv, RunInv, Counted, RestTypes, LockInv, WithinCap, store
<1>3. CASE Midnight
  <2>1. UNCHANGED <<run, lock, balance, tails, cached, errors, crashes>>
        /\ spent' = 0 /\ paid' = 0 /\ midnights' = midnights + 1
    BY <1>3 DEF Midnight, memory
  <2>2. RestTypes' /\ RunsInv'
    BY <1>1, <2>1 DEF RestTypes, RunsInv, RunInv, Counted
  <2>3. LockInv' /\ WithinCap'
    BY <1>1, <2>1, CapAssumption DEF IInv, LockInv, WithinCap, RestTypes
  <2> QED
    BY <2>2, <2>3 DEF IInv
<1>4. CASE Crash
  <2>1. NoRun \in Run /\ NoRun.pc = "none"
    BY DEF NoRun, Run, Freshness
  <2>2. RunInv(NoRun)
    BY <2>1 DEF RunInv, Busy
  <2>3. RunsInv' /\ \A a \in Accounts : run'[a].pc = "none"
    BY <1>4, <2>1, <2>2 DEF Crash, RunsInv, RunInv, Counted
  <2>4. RestTypes'
    BY <1>1, <1>4 DEF Crash, RestTypes, store, Freshness
  <2> QED
    BY <1>4, <2>3, <2>4 DEF IInv, LockInv, WithinCap, Crash, store
<1>5. CASE UNCHANGED vars
  BY <1>5 DEF vars, store, memory, IInv, RunsInv, RunInv, Counted, RestTypes, LockInv, WithinCap
<1> QED
  BY <1>2, <1>3, <1>4, <1>5

LEMMA StepInv == IInv /\ [Next]_vars => IInv'
<1> SUFFICES ASSUME IInv, [Next]_vars PROVE IInv'
  OBVIOUS
<1>1. ASSUME NEW a \in Accounts, NEW ips \in SUBSET Ips, NEW force \in BOOLEAN,
             Press(a, ips, force)
      PROVE  IInv'
  BY <1>1, PressInv
<1>2. ASSUME NEW a \in Accounts, TaskStep(a) PROVE IInv'
  BY <1>2, RefreshInv, CappedInv, AskInv, AnswerInv DEF TaskStep
<1>3. ASSUME NEW a \in Accounts, Process(a) PROVE IInv'
  BY <1>3, ProcessInv
<1>4. ASSUME (\E f \in Freshness : LastRefresh(f)) \/ Midnight \/ Crash \/ UNCHANGED vars
      PROVE  IInv'
  BY <1>4, RestInv
<1> QED
  BY <1>1, <1>2, <1>3, <1>4 DEF Next

LEMMA InvHolds == Spec => []IInv
  BY InitInv, StepInv, PTL DEF Spec

-----------------------------------------------------------------------------
\* Types of every variable, that a capped run never counts less than nothing
\* for tomorrow included.
THEOREM TypeCorrect == Spec => []TypeOK
<1>1. IInv => TypeOK
  BY TypesOfParts DEF IInv
<1> QED
  BY InvHolds, <1>1, PTL

\* The log of a day never passes the cap: for any number of accounts pressed
\* together, across midnights and restarts and whatever the vendor replies.
THEOREM CapHolds == Spec => []WithinCap
<1>1. IInv => WithinCap
  BY DEF IInv
<1> QED
  BY InvHolds, <1>1, PTL

-----------------------------------------------------------------------------
(* What is billed *)

\* The vendor is ahead of the log by one lookup at most, the one in flight.
PaidInv ==
    \/ paid <= spent
    \/ /\ paid = spent + 1
       /\ \E a \in Accounts : run[a].pc = "asking" /\ run[a].processed

\* A task touches its own run only.
LEMMA OthersKept ==
  ASSUME IInv, NEW a \in Accounts,
         \/ \E ips \in SUBSET Ips, force \in BOOLEAN : Press(a, ips, force)
         \/ TaskStep(a)
  PROVE  \A c \in Accounts \ {a} : run'[c] = run[c]
<1> USE DEF Finish, NextTarget
<1>1. run \in [Accounts -> Run]
  BY DEF IInv, RunsInv
<1>2. ASSUME NEW ips \in SUBSET Ips, NEW force \in BOOLEAN, Press(a, ips, force)
      PROVE  \A c \in Accounts \ {a} : run'[c] = run[c]
  BY <1>1, <1>2 DEF Press
<1>3. CASE Refresh(a)
  BY <1>1, <1>3 DEF Refresh
<1>4. CASE Capped(a)
  BY <1>1, <1>4 DEF Capped
<1>5. CASE Ask(a)
  BY <1>1, <1>5 DEF Ask
<1>6. ASSUME NEW r \in Replies, Answer(a, r)
      PROVE  \A c \in Accounts \ {a} : run'[c] = run[c]
  BY <1>1, <1>6 DEF Answer
<1> QED
  BY <1>2, <1>3, <1>4, <1>5, <1>6 DEF TaskStep

\* A step of a task that does not ask leaves the one that does alone.
LEMMA QuietPaid ==
  ASSUME IInv, PaidInv, NEW a \in Accounts, run[a].pc # "asking",
         \A c \in Accounts \ {a} : run'[c] = run[c],
         UNCHANGED <<spent, paid>>
  PROVE  PaidInv'
  BY DEF PaidInv

LEMMA AnswerPaid ==
  ASSUME Reliable, IInv, PaidInv, NEW a \in Accounts, NEW r \in Replies, Answer(a, r)
  PROVE  PaidInv'
<1> DEFINE outcome == LookupOutcome(r)
<1>1. spent \in Nat /\ paid \in Nat /\ paid' = paid
  BY DEF IInv, RestTypes, Answer
<1>2. run[a].pc = "asking" /\ MayFollow(r, run[a].processed) /\ run[a].processed \in BOOLEAN
  BY DEF Answer, IInv, RunsInv, Run
<1>3. \A c \in Accounts : run[c].pc = "asking" => c = a
  BY <1>2 DEF IInv, LockInv
<1>4. CASE outcome \in {"success", "charged"}
  <2>1. Save(run[a].ip, outcome)
    BY <1>4 DEF Answer
  <2>2. spent' = spent + 1
    BY <1>4, <2>1 DEF Save
  <2> QED
    BY <1>1, <2>2 DEF PaidInv
<1>5. CASE outcome \notin {"success", "charged"}
  <2>1. ~run[a].processed
    BY <1>2, <1>5 DEF MayFollow, Reliable
  <2>2. paid <= spent
    BY <1>3, <2>1 DEF PaidInv
  <2>3. spent' = spent
    BY <1>5 DEF Answer, Save, store
  <2> QED
    BY <1>1, <2>2, <2>3 DEF PaidInv
<1> QED
  BY <1>4, <1>5

LEMMA ProcessPaid ==
  ASSUME IInv, PaidInv, NEW a \in Accounts, Process(a)
  PROVE  PaidInv'
<1>1. /\ spent \in Nat /\ paid \in Nat /\ paid' = paid + 1 /\ spent' = spent
      /\ run[a].pc = "asking" /\ ~run[a].processed /\ run[a] \in Run
  BY DEF IInv, RestTypes, RunsInv, Process, store
<1>2. \A c \in Accounts : run[c].pc = "asking" => c = a
  BY <1>1 DEF IInv, LockInv
<1>3. paid <= spent
  BY <1>1, <1>2 DEF PaidInv
<1>4. run'[a] = [run[a] EXCEPT !.fetch = IF run[a].pc = "refresh" THEN "stale" ELSE @,
                               !.processed = TRUE]
  BY DEF Process
<1>5. run'[a].pc = "asking" /\ run'[a].processed
  BY <1>1, <1>4 DEF Run
<1> QED
  BY <1>1, <1>3, <1>5 DEF PaidInv

LEMMA StepPaid == Reliable /\ IInv /\ PaidInv /\ [Next]_vars => PaidInv'
<1> SUFFICES ASSUME Reliable, IInv, PaidInv, [Next]_vars PROVE PaidInv'
  OBVIOUS
<1>1. ASSUME NEW a \in Accounts, NEW ips \in SUBSET Ips, NEW force \in BOOLEAN,
             Press(a, ips, force)
      PROVE  PaidInv'
  BY <1>1, OthersKept, QuietPaid DEF Press, Live, store
<1>2. ASSUME NEW a \in Accounts, Refresh(a) \/ Capped(a) \/ Ask(a) PROVE PaidInv'
  <2>1. \A c \in Accounts \ {a} : run'[c] = run[c]
    BY <1>2, OthersKept DEF TaskStep
  <2>2. run[a].pc # "asking" /\ UNCHANGED <<spent, paid>>
    BY <1>2 DEF Refresh, Capped, Ask, store
  <2> QED
    BY <2>1, <2>2, QuietPaid
<1>3. ASSUME NEW a \in Accounts, NEW r \in Replies, Answer(a, r) PROVE PaidInv'
  BY <1>3, AnswerPaid
<1>4. ASSUME NEW a \in Accounts, Process(a) PROVE PaidInv'
  BY <1>4, ProcessPaid
<1>5. ASSUME (\E f \in Freshness : LastRefresh(f)) \/ UNCHANGED vars PROVE PaidInv'
  BY <1>5 DEF LastRefresh, vars, store, memory, PaidInv
<1>6. CASE Midnight
  BY <1>6 DEF Midnight, PaidInv
<1>7. ~Crash
  BY BoundsAssumption DEF Crash, Reliable, IInv, RestTypes
<1> QED
  BY <1>1, <1>2, <1>3, <1>4, <1>5, <1>6, <1>7 DEF Next, TaskStep

\* With a vendor that answers what it bills, and no restart, what it bills in a
\* day does not pass the cap either.
THEOREM BillWithinCap == Reliable /\ Spec => []PaidWithinCap
<1>1. Init => PaidInv
  BY DEF Init, PaidInv
<1>2. IInv /\ PaidInv => PaidWithinCap
  BY CapAssumption DEF IInv, PaidInv, PaidWithinCap, WithinCap, LockInv, RestTypes
<1>3. CASE Reliable
  <2>1. IInv /\ PaidInv /\ [Next]_vars => PaidInv'
    BY <1>3, StepPaid
  <2> QED
    BY <1>1, <1>2, <2>1, InvHolds, PTL DEF Spec
<1> QED
  BY <1>3
-----------------------------------------------------------------------------
(* Nothing is forgotten *)

\* Every reply is one lookup() has a name for.
Readable == \A r \in Replies : LookupOutcome(r) # "raise"

\* What the page shows of an address, a row or an error, never goes again.
Known == cached \cup errors

\* A run under way still has before it every target the page shows nothing of;
\* a finished one counted those among the ones left for tomorrow.
Accounted(r, known) ==
    /\ r.pc \in Busy => r.targets \ known \subseteq r.left
    /\ r.pc = "finished" /\ ~r.stopped => Cardinality(r.targets \ known) <= r.capped

AccountInv == \A a \in Accounts : Accounted(run[a], Known)

\* What the page comes to show by another account's press counts too.
LEMMA AccountedGrows ==
  ASSUME NEW r \in Run, NEW known, NEW more, known \subseteq more, Accounted(r, known)
  PROVE  Accounted(r, more)
<1>1. r.targets \in SUBSET Ips /\ r.capped \in Nat
  BY DEF Run
<1>2. r.targets \ more \subseteq r.targets \ known /\ r.targets \ known \in SUBSET Ips
  BY <1>1
<1>3. Cardinality(r.targets \ more) <= Cardinality(r.targets \ known)
  BY <1>2, FiniteSubsets, FS_Subset
<1>4. Cardinality(r.targets \ more) \in Nat /\ Cardinality(r.targets \ known) \in Nat
  BY <1>1, <1>2, FiniteSubsets
<1> QED
  BY <1>1, <1>2, <1>3, <1>4 DEF Accounted

LEMMA FinishAccounted ==
  ASSUME RunsInv, NEW a \in Accounts, NEW r \in Run, NEW known, Finish(a, r),
         r.stopped \/ Cardinality(r.targets \ known) <= r.capped
  PROVE  Accounted(run'[a], known)
<1> DEFINE f == [r EXCEPT !.pc = "finished", !.left = {}, !.ip = {},
                          !.fetch = "current", !.processed = FALSE]
<1>1. /\ f.pc = "finished" /\ f.targets = r.targets
      /\ f.capped = r.capped /\ f.stopped = r.stopped
  BY DEF Run
<1>2. run'[a] = f
  BY DEF Finish, RunsInv
<1> QED
  BY <1>1, <1>2 DEF Accounted, Busy

LEMMA NextTargetAccounted ==
  ASSUME RunsInv, NEW a \in Accounts, NEW r \in Run, NEW known,
         NextTarget(a, r), r.targets \ known \subseteq r.left
  PROVE  Accounted(run'[a], known)
<1>1. r.capped \in Nat
  BY DEF Run
<1>2. CASE r.left = {} /\ Finish(a, r)
  <2>1. r.targets \ known = {}
    BY <1>2
  <2>2. Cardinality(r.targets \ known) = 0
    BY <2>1, FS_EmptySet
  <2> QED
    BY <1>1, <1>2, <2>2, FinishAccounted
<1>3. CASE run' = [run EXCEPT ![a] = [r EXCEPT !.pc = "waiting"]]
  <2> DEFINE w == [r EXCEPT !.pc = "waiting"]
  <2>1. w.pc = "waiting" /\ w.left = r.left /\ w.targets = r.targets
    BY DEF Run
  <2>2. run'[a] = w
    BY <1>3 DEF RunsInv
  <2> QED
    BY <2>1, <2>2 DEF Accounted
<1> QED
  BY <1>2, <1>3 DEF NextTarget

\* It is enough to look at the run that steps.
LEMMA OneAccounted ==
  ASSUME IInv, AccountInv, NEW a \in Accounts, Known \subseteq Known',
         \A c \in Accounts \ {a} : run'[c] = run[c],
         Accounted(run'[a], Known')
  PROVE  AccountInv'
<1> SUFFICES ASSUME NEW c \in Accounts PROVE Accounted(run'[c], Known')
  BY DEF AccountInv, Accounted
<1>1. CASE c = a
  BY <1>1
<1>2. CASE c # a
  <2>1. run'[c] = run[c] /\ run[c] \in Run /\ Accounted(run[c], Known)
    BY <1>2 DEF IInv, RunsInv, AccountInv
  <2>2. Accounted(run[c], Known')
    BY <2>1, AccountedGrows
  <2> QED
    BY <2>1, <2>2
<1> QED
  BY <1>1, <1>2

LEMMA PressAccounted ==
  ASSUME IInv, AccountInv, NEW a \in Accounts, NEW ips \in SUBSET Ips, NEW force \in BOOLEAN,
         Press(a, ips, force)
  PROVE  AccountInv'
<1> DEFINE targets == Targets(ips, force)
           new == [NoRun EXCEPT !.targets = targets, !.left = targets]
           r == [new EXCEPT !.pc = "refresh"]
<1>1. RunsInv /\ Known' = Known
  BY DEF IInv, Press, store, Known
<1>2. targets \in SUBSET Ips
  BY DEF Targets
<1>3. /\ new \in Run /\ new.left = targets /\ new.targets = targets
      /\ r.left = targets /\ r.targets = targets /\ r.pc = "refresh"
  BY <1>2 DEF NoRun, Run, Freshness
<1>4. CASE run' = [run EXCEPT ![a] = r]
  <2>1. run'[a] = r
    BY <1>1, <1>4 DEF RunsInv
  <2>2. Accounted(run'[a], Known)
    BY <1>3, <2>1 DEF Accounted
  <2> QED
    BY <1>1, <2>2, OthersKept, OneAccounted
<1>5. CASE NextTarget(a, new)
  <2>1. Accounted(run'[a], Known)
    BY <1>1, <1>3, <1>5, NextTargetAccounted
  <2> QED
    BY <1>1, <2>1, OthersKept, OneAccounted
<1> QED
  BY <1>4, <1>5 DEF Press

LEMMA QuietAccounted ==
  ASSUME Readable, IInv, AccountInv, NEW a \in Accounts, Refresh(a) \/ Capped(a) \/ Ask(a)
  PROVE  AccountInv'
<1>1. /\ RunsInv /\ run[a] \in Run /\ RunInv(run[a]) /\ Known' = Known
      /\ run[a].pc \in {"refresh", "waiting"} /\ Accounted(run[a], Known)
  BY DEF IInv, RunsInv, AccountInv, Refresh, Capped, Ask, store, Known
<1>2. /\ run[a].targets \ Known \subseteq run[a].left /\ Counted(run[a])
      /\ run[a].left \in SUBSET Ips /\ run[a].targets \in SUBSET Ips
      /\ run[a].done \in Nat /\ run[a].capped \in Nat
  BY <1>1 DEF Accounted, RunInv, Busy, Run
<1> SUFFICES Accounted(run'[a], Known)
  BY <1>1, OthersKept, OneAccounted DEF TaskStep
<1>3. CASE Refresh(a)
  <2>1. CASE run[a].left = {} /\ Finish(a, run[a])
    <3>1. run[a].targets \ Known = {}
      BY <1>2, <2>1
    <3>2. Cardinality(run[a].targets \ Known) = 0
      BY <3>1, FS_EmptySet
    <3> QED
      BY <1>1, <1>2, <2>1, <3>2, FinishAccounted
  <2>2. CASE run' = [run EXCEPT ![a].pc = "waiting", ![a].fetch = "current"]
    <3>1. /\ run'[a].pc = "waiting" /\ run'[a].left = run[a].left
          /\ run'[a].targets = run[a].targets
      BY <1>1, <2>2 DEF RunsInv, Run
    <3> QED
      BY <1>2, <3>1 DEF Accounted
  <2> QED
    BY <1>3, <2>1, <2>2 DEF Refresh, Readable
<1>4. CASE Capped(a)
  <2> DEFINE left == Cardinality(run[a].targets) - run[a].done
             r == [run[a] EXCEPT !.capped = left]
  <2>1. left = Cardinality(run[a].left) /\ left \in Nat
    BY <1>2, FiniteSubsets DEF Counted
  <2>2. r \in Run /\ r.capped = left /\ r.targets = run[a].targets
    BY <1>1, <2>1 DEF Run
  <2>3. Cardinality(run[a].targets \ Known) <= Cardinality(run[a].left)
    BY <1>2, FiniteSubsets, FS_Subset
  <2>4. Finish(a, r)
    BY <1>4 DEF Capped
  <2> HIDE DEF r, left
  <2> QED
    BY <1>1, <2>1, <2>2, <2>3, <2>4, FinishAccounted
<1>5. CASE Ask(a)
  <2>1. PICK ip \in run[a].left :
          run' = [run EXCEPT ![a].pc = "asking", ![a].ip = {ip}, ![a].processed = FALSE]
    BY <1>5 DEF Ask
  <2>2. /\ run'[a].pc = "asking" /\ run'[a].left = run[a].left
        /\ run'[a].targets = run[a].targets
    BY <1>1, <2>1 DEF RunsInv, Run
  <2> QED
    BY <1>2, <2>2 DEF Accounted
<1> QED
  BY <1>3, <1>4, <1>5
LEMMA AnswerAccounted ==
  ASSUME Readable, IInv, AccountInv, NEW a \in Accounts, NEW r \in Replies, Answer(a, r)
  PROVE  AccountInv'
<1> DEFINE outcome == LookupOutcome(r)
           one == [run[a] EXCEPT !.left = @ \ run[a].ip, !.ip = {},
                                 !.failed = IF outcome = "success" THEN @ ELSE @ + 1]
           next == [one EXCEPT !.done = @ + 1]
           stop == [one EXCEPT !.stopped = TRUE]
<1>1. RunsInv /\ run[a] \in Run /\ RunInv(run[a]) /\ run[a].pc = "asking"
  BY DEF IInv, RunsInv, Answer
<1>2. PICK ip \in run[a].left : run[a].ip = {ip}
  BY <1>1 DEF RunInv
<1>3. run[a].left \in SUBSET Ips /\ run[a].done \in Nat /\ run[a].failed \in Nat
  BY <1>1 DEF Run
<1>4. next \in Run /\ next.left = run[a].left \ {ip} /\ next.targets = run[a].targets
  <2> DEFINE left == run[a].left \ {ip}
             failed == IF outcome = "success" THEN run[a].failed ELSE run[a].failed + 1
             done == run[a].done + 1
  <2>1. left \in SUBSET Ips /\ failed \in Nat /\ done \in Nat
    BY <1>3
  <2>2. next = [run[a] EXCEPT !.left = left, !.ip = {}, !.failed = failed, !.done = done]
    BY <1>1, <1>2 DEF Run
  <2> HIDE DEF left, failed, done, next
  <2>3. next \in Run /\ next.left = left /\ next.targets = run[a].targets
    BY <1>1, <2>1, <2>2 DEF Run
  <2> QED
    BY <2>3 DEF left
<1>5. stop \in Run /\ stop.stopped
  <2> DEFINE left == run[a].left \ {ip}
             failed == IF outcome = "success" THEN run[a].failed ELSE run[a].failed + 1
  <2>1. left \in SUBSET Ips /\ failed \in Nat
    BY <1>3
  <2>2. stop = [run[a] EXCEPT !.left = left, !.ip = {}, !.failed = failed, !.stopped = TRUE]
    BY <1>1, <1>2 DEF Run
  <2> HIDE DEF left, failed, stop
  <2> QED
    BY <1>1, <2>1, <2>2 DEF Run
<1> HIDE DEF next, stop
<1>6. outcome # "raise"
  BY DEF Readable
<1>7. Save(run[a].ip, outcome)
  BY <1>6 DEF Answer
<1>8. Known \subseteq Known' /\ run[a].ip \subseteq Known'
  BY <1>7 DEF Save, Known
<1>9. next.targets \ Known' \subseteq next.left
  <2>1. run[a].targets \ Known \subseteq run[a].left
    BY <1>1 DEF AccountInv, Accounted, Busy
  <2> QED
    BY <1>2, <1>4, <1>8, <2>1
<1>10. Accounted(run'[a], Known')
  <2>1. CASE NextTarget(a, next)
    BY <1>1, <1>4, <1>9, <2>1, NextTargetAccounted
  <2>2. CASE Finish(a, stop)
    BY <1>1, <1>5, <2>2, FinishAccounted
  <2> QED
    BY <1>6, <2>1, <2>2 DEF Answer, next, stop
<1> QED
  BY <1>8, <1>10, OthersKept, OneAccounted DEF TaskStep

LEMMA ProcessAccounted ==
  ASSUME IInv, AccountInv, NEW a \in Accounts, Process(a)
  PROVE  AccountInv'
<1> SUFFICES ASSUME NEW c \in Accounts PROVE Accounted(run'[c], Known')
  BY DEF AccountInv, Accounted
<1>1. run[c] \in Run /\ Accounted(run[c], Known) /\ Known' = Known
  BY DEF IInv, RunsInv, AccountInv, Process, store, Known
<1>2. run'[c] = [run[c] EXCEPT !.fetch = IF run[c].pc = "refresh" THEN "stale" ELSE @,
                               !.processed = @ \/ c = a]
  BY DEF Process
<1>3. /\ run'[c].pc = run[c].pc /\ run'[c].left = run[c].left
      /\ run'[c].targets = run[c].targets /\ run'[c].capped = run[c].capped
      /\ run'[c].stopped = run[c].stopped
  BY <1>1, <1>2 DEF Run
<1> QED
  BY <1>1, <1>3 DEF Accounted

LEMMA StepAccounted == Readable /\ IInv /\ AccountInv /\ [Next]_vars => AccountInv'
<1> SUFFICES ASSUME Readable, IInv, AccountInv, [Next]_vars PROVE AccountInv'
  OBVIOUS
<1>1. ASSUME NEW a \in Accounts, TaskStep(a) PROVE AccountInv'
  BY <1>1, QuietAccounted, AnswerAccounted DEF TaskStep
<1>2. ASSUME (\E f \in Freshness : LastRefresh(f)) \/ Midnight \/ UNCHANGED vars
      PROVE  AccountInv'
  <2>1. run' = run /\ Known' = Known
    BY <1>2 DEF LastRefresh, Midnight, vars, store, memory, Known
  <2> QED
    BY <2>1 DEF AccountInv, Accounted
<1>3. CASE Crash
  <2>1. \A a \in Accounts : run'[a] = NoRun
    BY <1>3 DEF Crash
  <2>2. NoRun.pc = "none"
    BY DEF NoRun
  <2> QED
    BY <2>1, <2>2 DEF AccountInv, Accounted, Busy
<1> QED
  BY <1>1, <1>2, <1>3, PressAccounted, ProcessAccounted DEF Next

\* A finished run has told of every target: a row, an error, or a place among
\* those left for tomorrow, as long as every reply is one lookup() can read; the
\* presses of other accounts, midnights and restarts included.
THEOREM NothingIsForgotten == Readable /\ Spec => []NothingForgotten
<1>1. Init => AccountInv
  <2>1. NoRun.pc = "none"
    BY DEF NoRun
  <2> QED
    BY <2>1 DEF Init, AccountInv, Accounted, Busy
<1>2. AccountInv => NothingForgotten
  BY DEF AccountInv, Accounted, NothingForgotten, Known
<1>3. CASE Readable
  <2>1. IInv /\ AccountInv /\ [Next]_vars => AccountInv'
    BY <1>3, StepAccounted
  <2> QED
    BY <1>1, <1>2, <2>1, InvHolds, PTL DEF Spec
<1> QED
  BY <1>3

=============================================================================

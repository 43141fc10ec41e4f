-------------------------- MODULE EnrichmentProofs --------------------------
(***************************************************************************)
(* Theorems about Enrichment, for any number of passes, addresses and      *)
(* registries and any interval: types, the spacing of the requests that    *)
(* pass the throttle, and that a pass leaves a row for each address.       *)
(***************************************************************************)
EXTENDS Enrichment, TLAPS

InLookup == {"bootstrap", "lock", "sleep", "request", "pause", "asn"}

\* What a pass may be: in a lookup it has one address, and it pauses after its
\* first attempt only.
WellFormed(q) ==
    /\ q \in Pass
    /\ q.pc \in InLookup => \E ip \in Ips : q.ip = {ip}
    /\ q.pc = "pause" => q.attempt = 1

\* Who sleeps holds the lock of its registry alone, and sleeps long enough.
Throttled ==
    \A p \in Passes, r \in Registries :
      pass[p].pc = "sleep" /\ Base(p, r) =>
        /\ lock[r] = {p}
        /\ pass[p].wait + since[r] >= Interval

\* The addresses a pass is through with have their row.
RecordedBy(q, rows) ==
    /\ \A ip \in q.ips \ q.todo : rows[ip] # "none"
    /\ q.pc = "ended" => q.todo = {}

IInv ==
    /\ TypeOK
    /\ \A p \in Passes : WellFormed(pass[p])
    /\ Throttled
    /\ \A p \in Passes : RecordedBy(pass[p], table)

\* A row is replaced and never removed.
RowsStay == table' \in [Ips -> Row] /\ \A ip \in Ips : table[ip] # "none" => table'[ip] # "none"

\* What every step of one pass has in common, those of the throttle apart: none
\* goes to sleep there, and only a redirect leads to a request, from another.
QuietEffect(p) ==
    /\ \E q : /\ WellFormed(q) /\ q.pc # "sleep"
              /\ q.pc = "request" => pass[p].pc = "request"
              /\ RecordedBy(q, table')
              /\ pass' = [pass EXCEPT ![p] = q]
    /\ RowsStay
    /\ file' \in File /\ services' \in {"none", "good", "old"}
    /\ UNCHANGED <<since, lock, clock>>

-----------------------------------------------------------------------------
LEMMA NoHops == 0 \in 0 .. MaxRedirects
  BY SettingsAssumption

LEMMA RoutedWellFormed ==
  ASSUME NEW q \in Pass, NEW ip \in Ips, q.ip = {ip}
  PROVE  LET s == Routed(q, ip) IN
         WellFormed(s) /\ s.pc \in {"asn", "lock"} /\ s.ips = q.ips /\ s.todo = q.todo
  <1>1. Looked(q, TRUE) \in Pass /\ Looked(q, TRUE).pc = "asn" /\ Looked(q, TRUE).ip = {ip}
        /\ Looked(q, TRUE).ips = q.ips /\ Looked(q, TRUE).todo = q.todo
    BY NoHops DEF Looked, Pass
  <1>2. [q EXCEPT !.pc = "lock"] \in Pass /\ [q EXCEPT !.pc = "lock"].pc = "lock"
        /\ [q EXCEPT !.pc = "lock"].ip = {ip}
        /\ [q EXCEPT !.pc = "lock"].ips = q.ips /\ [q EXCEPT !.pc = "lock"].todo = q.todo
    BY DEF Pass
  <1> QED
    BY <1>1, <1>2 DEF Routed, WellFormed, InLookup

LEMMA LookedWellFormed ==
  ASSUME NEW q \in Pass, NEW ip \in Ips, q.ip = {ip}, NEW error \in BOOLEAN
  PROVE  LET s == Looked(q, error) IN
         WellFormed(s) /\ s.pc = "asn" /\ s.ips = q.ips /\ s.todo = q.todo
  <1>1. Looked(q, error) \in Pass /\ Looked(q, error).pc = "asn" /\ Looked(q, error).ip = {ip}
        /\ Looked(q, error).ips = q.ips /\ Looked(q, error).todo = q.todo
    BY NoHops DEF Looked, Pass
  <1> QED
    BY <1>1 DEF WellFormed, InLookup

LEMMA NoPassWellFormed ==
  WellFormed(NoPass) /\ NoPass.pc = "none" /\ \A rows : RecordedBy(NoPass, rows)
  <1>1. NoPass \in Pass /\ NoPass.pc = "none" /\ NoPass.ips = {} /\ NoPass.todo = {}
    BY NoHops DEF NoPass, Pass
  <1> QED
    BY <1>1 DEF WellFormed, InLookup, RecordedBy

\* A row written by save_ip.
LEMMA SaveKeepsRows ==
  ASSUME table \in [Ips -> Row], NEW ip \in Ips, NEW error \in BOOLEAN, SaveIp(ip, error)
  PROVE  RowsStay /\ table'[ip] # "none"
  BY DEF SaveIp, RowsStay, Row

-----------------------------------------------------------------------------
LEMMA StartIsQuiet ==
  ASSUME IInv, NEW p \in Passes, NEW ips \in SUBSET Ips, Start(p, ips)
  PROVE  QuietEffect(p)
  <1> DEFINE q == [NoPass EXCEPT !.pc = "next", !.ips = ips, !.todo = Missing(ips)]
  <1>1. Missing(ips) \in SUBSET Ips /\ \A ip \in ips \ Missing(ips) : table[ip] # "none"
    BY DEF Missing
  <1>2. q \in Pass /\ q.pc = "next" /\ q.ips = ips /\ q.todo = Missing(ips)
    <2>1. NoPass \in Pass
      BY NoPassWellFormed DEF WellFormed
    <2> QED
      BY <1>1, <2>1 DEF Pass
  <1>3. pass' = [pass EXCEPT ![p] = q] /\ UNCHANGED <<table, file, services, since, lock, clock>>
    BY DEF Start, Step
  <1> HIDE DEF q
  <1>4. WellFormed(q) /\ RecordedBy(q, table')
    BY <1>1, <1>2, <1>3 DEF WellFormed, InLookup, RecordedBy
  <1> QED
    BY <1>2, <1>3, <1>4 DEF QuietEffect, RowsStay, IInv, TypeOK

LEMMA EndIsQuiet ==
  ASSUME IInv, NEW p \in Passes, End(p)
  PROVE  QuietEffect(p)
  <1> DEFINE q == [pass[p] EXCEPT !.pc = "ended"]
  <1>1. pass[p] \in Pass /\ RecordedBy(pass[p], table) /\ pass[p].todo = {}
    BY DEF IInv, TypeOK, End
  <1>2. q \in Pass /\ q.pc = "ended" /\ q.ips = pass[p].ips /\ q.todo = pass[p].todo
    BY <1>1 DEF Pass
  <1>3. pass' = [pass EXCEPT ![p] = q] /\ UNCHANGED <<table, file, services, since, lock, clock>>
    BY DEF End, Step
  <1> HIDE DEF q
  <1>4. WellFormed(q) /\ RecordedBy(q, table')
    BY <1>1, <1>2, <1>3 DEF WellFormed, InLookup, RecordedBy
  <1> QED
    BY <1>2, <1>3, <1>4 DEF QuietEffect, RowsStay, IInv, TypeOK

LEMMA BeginIsQuiet ==
  ASSUME IInv, NEW p \in Passes, NEW ip \in Ips, Begin(p, ip)
  PROVE  QuietEffect(p)
  <1> DEFINE q == [pass[p] EXCEPT !.ip = {ip}]
             b == [q EXCEPT !.pc = "bootstrap"]
  <1>1. pass[p] \in Pass /\ RecordedBy(pass[p], table) /\ pass[p].pc = "next"
    BY DEF IInv, TypeOK, Begin
  <1>2. q \in Pass /\ q.ip = {ip} /\ q.ips = pass[p].ips /\ q.todo = pass[p].todo
    BY <1>1 DEF Pass
  <1>3. /\ pass' \in {[pass EXCEPT ![p] = s] : s \in {Routed(q, ip), Looked(q, TRUE), b}}
        /\ services' \in {"good", services}
        /\ UNCHANGED <<table, file, since, lock, clock>>
    BY DEF Begin, Step
  <1> HIDE DEF q
  <1>4. b \in Pass /\ b.pc = "bootstrap" /\ b.ip = {ip} /\ b.ips = pass[p].ips
        /\ b.todo = pass[p].todo
    BY <1>2 DEF Pass
  <1> HIDE DEF b
  <1>5. PICK s \in {Routed(q, ip), Looked(q, TRUE), b} : pass' = [pass EXCEPT ![p] = s]
    BY <1>3
  <1>6. /\ WellFormed(s) /\ s.pc \in {"asn", "lock", "bootstrap"}
        /\ s.ips = pass[p].ips /\ s.todo = pass[p].todo
    <2>1. CASE s = Routed(q, ip)
      BY <1>2, <2>1, RoutedWellFormed
    <2>2. CASE s = Looked(q, TRUE)
      BY <1>2, <2>2, LookedWellFormed
    <2>3. CASE s = b
      BY <1>4, <2>3 DEF WellFormed, InLookup
    <2> QED
      BY <1>5, <2>1, <2>2, <2>3
  <1>7. RecordedBy(s, table')
    BY <1>1, <1>3, <1>6 DEF RecordedBy
  <1> QED
    BY <1>3, <1>5, <1>6, <1>7 DEF QuietEffect, RowsStay, IInv, TypeOK

LEMMA BeginPrivateIsQuiet ==
  ASSUME IInv, NEW p \in Passes, NEW ip \in Ips, BeginPrivate(p, ip)
  PROVE  QuietEffect(p)
  <1> DEFINE q == [pass[p] EXCEPT !.todo = @ \ {ip}]
  <1>1. pass[p] \in Pass /\ RecordedBy(pass[p], table) /\ pass[p].pc = "next"
    BY DEF IInv, TypeOK, BeginPrivate
  <1>2. q \in Pass /\ q.pc = "next" /\ q.ips = pass[p].ips /\ q.todo = pass[p].todo \ {ip}
    BY <1>1 DEF Pass
  <1>3. /\ pass' = [pass EXCEPT ![p] = q] /\ SaveIp(ip, FALSE)
        /\ UNCHANGED <<file, services, since, lock, clock>>
    BY DEF BeginPrivate, Step
  <1>4. RowsStay /\ table'[ip] # "none"
    BY <1>3, SaveKeepsRows DEF IInv, TypeOK
  <1> HIDE DEF q
  <1>5. WellFormed(q) /\ RecordedBy(q, table')
    <2>1. pass[p].ips \in SUBSET Ips
      BY <1>1 DEF Pass
    <2> QED
      BY <1>1, <1>2, <1>4, <2>1 DEF WellFormed, InLookup, RecordedBy, RowsStay
  <1> QED
    BY <1>2, <1>3, <1>4, <1>5 DEF QuietEffect, IInv, TypeOK

LEMMA BootstrapIsQuiet ==
  ASSUME IInv, NEW p \in Passes, NEW kind \in {"none", "good", "garbled"}, Bootstrap(p, kind)
  PROVE  QuietEffect(p)
  <1>1. pass[p] \in Pass /\ RecordedBy(pass[p], table) /\ WellFormed(pass[p])
        /\ pass[p].pc = "bootstrap"
    BY DEF IInv, TypeOK, Bootstrap
  <1>2. PICK ip \in Ips : pass[p].ip = {ip}
    BY <1>1 DEF WellFormed, InLookup
  <1>3. /\ pass' \in {[pass EXCEPT ![p] = s] : s \in {Routed(pass[p], ip), Looked(pass[p], TRUE)}}
        /\ file' \in {file, [kind |-> kind, old |-> FALSE]}
        /\ services' \in {"good", services}
        /\ UNCHANGED <<table, since, lock, clock>>
    BY <1>2 DEF Bootstrap, Step
  <1>4. PICK s \in {Routed(pass[p], ip), Looked(pass[p], TRUE)} : pass' = [pass EXCEPT ![p] = s]
    BY <1>3
  <1>5. /\ WellFormed(s) /\ s.pc \in {"asn", "lock"}
        /\ s.ips = pass[p].ips /\ s.todo = pass[p].todo
    <2>1. CASE s = Routed(pass[p], ip)
      BY <1>1, <1>2, <2>1, RoutedWellFormed
    <2>2. CASE s = Looked(pass[p], TRUE)
      BY <1>1, <1>2, <2>2, LookedWellFormed
    <2> QED
      BY <1>4, <2>1, <2>2
  <1>6. RecordedBy(s, table')
    BY <1>1, <1>3, <1>5 DEF RecordedBy
  <1>7. file' \in File /\ RowsStay
    <2>1. file \in File /\ [kind |-> kind, old |-> FALSE] \in File
      BY DEF File, IInv, TypeOK
    <2>2. table \in [Ips -> Row]
      BY DEF IInv, TypeOK
    <2> QED
      BY <1>3, <2>1, <2>2 DEF RowsStay
  <1> QED
    BY <1>3, <1>4, <1>5, <1>6, <1>7 DEF QuietEffect, IInv, TypeOK

\* A redirected request is still a request of the same lookup.
LEMMA RedirectIsQuiet ==
  ASSUME IInv, NEW p \in Passes, Redirect(p)
  PROVE  QuietEffect(p)
  <1> DEFINE n == pass[p].hops + 1
             q == [pass[p] EXCEPT !.hops = n]
  <1>1. pass[p] \in Pass /\ RecordedBy(pass[p], table) /\ WellFormed(pass[p])
        /\ pass[p].pc = "request" /\ pass[p].hops < MaxRedirects
    BY DEF IInv, TypeOK, Redirect
  <1>2. n \in 0 .. MaxRedirects
    BY <1>1, SettingsAssumption DEF Pass
  <1>3. pass' = [pass EXCEPT ![p] = q] /\ UNCHANGED <<table, file, services, since, lock, clock>>
    BY DEF Redirect, Step
  <1> HIDE DEF n
  <1>4. q \in Pass /\ q.pc = "request" /\ q.ip = pass[p].ip /\ q.ips = pass[p].ips
        /\ q.todo = pass[p].todo /\ q.attempt = pass[p].attempt
    BY <1>1, <1>2 DEF Pass
  <1> HIDE DEF q
  <1>5. WellFormed(q) /\ RecordedBy(q, table')
    BY <1>1, <1>3, <1>4 DEF WellFormed, InLookup, RecordedBy
  <1> QED
    BY <1>1, <1>3, <1>4, <1>5 DEF QuietEffect, RowsStay, IInv, TypeOK

LEMMA AnswerIsQuiet ==
  ASSUME IInv, NEW p \in Passes, NEW answer \in {"network", "429", "other"}, Answer(p, answer)
  PROVE  QuietEffect(p)
  <1> DEFINE b == [pass[p] EXCEPT !.pc = "pause", !.hops = 0]
  <1>1. pass[p] \in Pass /\ RecordedBy(pass[p], table) /\ WellFormed(pass[p])
        /\ pass[p].pc = "request"
    BY DEF IInv, TypeOK, Answer
  <1>2. PICK ip \in Ips : pass[p].ip = {ip}
    BY <1>1 DEF WellFormed, InLookup
  <1>3. b \in Pass /\ b.pc = "pause" /\ b.ip = {ip} /\ b.ips = pass[p].ips
        /\ b.todo = pass[p].todo /\ b.attempt = pass[p].attempt
    BY <1>1, <1>2, NoHops DEF Pass
  <1>4. /\ \E s \in {Looked(pass[p], FALSE), Looked(pass[p], TRUE), b} :
              /\ pass' = [pass EXCEPT ![p] = s]
              /\ s = b => pass[p].attempt = 1 \/ b \in {Looked(pass[p], FALSE), Looked(pass[p], TRUE)}
        /\ UNCHANGED <<table, file, services, since, lock, clock>>
    <2>1. CASE answer = "network"
      BY <2>1 DEF Answer, Step
    <2>2. CASE answer = "429" /\ Honoured(pass[p])
      BY <2>2 DEF Answer, Step, Honoured
    <2>3. CASE answer # "network" /\ ~(answer = "429" /\ Honoured(pass[p]))
      BY <2>3 DEF Answer, Step
    <2> QED
      BY <2>1, <2>2, <2>3
  <1> HIDE DEF b
  <1>5. PICK s \in {Looked(pass[p], FALSE), Looked(pass[p], TRUE), b} :
               /\ pass' = [pass EXCEPT ![p] = s]
               /\ s = b => pass[p].attempt = 1 \/ b \in {Looked(pass[p], FALSE), Looked(pass[p], TRUE)}
    BY <1>4
  <1>6. /\ WellFormed(s) /\ s.pc \in {"asn", "pause"}
        /\ s.ips = pass[p].ips /\ s.todo = pass[p].todo
    <2>1. CASE s = Looked(pass[p], FALSE)
      BY <1>1, <1>2, <2>1, LookedWellFormed
    <2>2. CASE s = Looked(pass[p], TRUE)
      BY <1>1, <1>2, <2>2, LookedWellFormed
    <2>3. CASE s = b /\ pass[p].attempt = 1
      BY <1>3, <2>3 DEF WellFormed, InLookup
    <2> QED
      BY <1>5, <2>1, <2>2, <2>3
  <1>7. RecordedBy(s, table')
    BY <1>1, <1>4, <1>6 DEF RecordedBy
  <1> QED
    BY <1>4, <1>5, <1>6, <1>7 DEF QuietEffect, RowsStay, IInv, TypeOK

\* 429 is honoured once: a pause is the one after the first attempt.
LEMMA ResumeIsQuiet ==
  ASSUME IInv, NEW p \in Passes, Resume(p)
  PROVE  QuietEffect(p)
  <1> DEFINE q == [pass[p] EXCEPT !.pc = "lock", !.attempt = @ + 1]
  <1>1. pass[p] \in Pass /\ RecordedBy(pass[p], table) /\ WellFormed(pass[p])
        /\ pass[p].pc = "pause"
    BY DEF IInv, TypeOK, Resume
  <1>2. PICK ip \in Ips : pass[p].ip = {ip}
    BY <1>1 DEF WellFormed, InLookup
  <1>3. q \in Pass /\ q.pc = "lock" /\ q.ip = {ip} /\ q.ips = pass[p].ips
        /\ q.todo = pass[p].todo
    <2>1. pass[p].attempt + 1 = 2
      BY <1>1 DEF WellFormed
    <2>2. q = [pass[p] EXCEPT !.pc = "lock", !.attempt = 2]
      BY <2>1
    <2> HIDE DEF q
    <2> QED
      BY <1>1, <1>2, <2>2 DEF Pass
  <1>4. pass' = [pass EXCEPT ![p] = q] /\ UNCHANGED <<table, file, services, since, lock, clock>>
    BY DEF Resume, Step
  <1> HIDE DEF q
  <1>5. WellFormed(q) /\ RecordedBy(q, table')
    BY <1>1, <1>3, <1>4 DEF WellFormed, InLookup, RecordedBy
  <1> QED
    BY <1>3, <1>4, <1>5 DEF QuietEffect, RowsStay, IInv, TypeOK

LEMMA AsnIsQuiet ==
  ASSUME IInv, NEW p \in Passes, NEW answer \in {"answered", "failure"}, Asn(p, answer)
  PROVE  QuietEffect(p)
  <1>1. pass[p] \in Pass /\ RecordedBy(pass[p], table)
    BY DEF IInv, TypeOK
  <1>2. PICK ip \in pass[p].ip :
          /\ SaveIp(ip, pass[p].error \/ answer = "failure")
          /\ pass' = [pass EXCEPT ![p] = [pass[p] EXCEPT !.pc = "next", !.todo = @ \ {ip},
                                                         !.ip = {}, !.error = FALSE]]
    BY DEF Asn, Step
  <1> DEFINE q == [pass[p] EXCEPT !.pc = "next", !.todo = @ \ {ip}, !.ip = {}, !.error = FALSE]
  <1>3. ip \in Ips /\ (pass[p].error \/ answer = "failure") \in BOOLEAN
    BY <1>1 DEF Pass
  <1>4. RowsStay /\ table'[ip] # "none"
    BY <1>2, <1>3, SaveKeepsRows DEF IInv, TypeOK
  <1>5. q \in Pass /\ q.pc = "next" /\ q.ips = pass[p].ips /\ q.todo = pass[p].todo \ {ip}
    BY <1>1 DEF Pass
  <1>6. pass' = [pass EXCEPT ![p] = q] /\ UNCHANGED <<file, services, since, lock, clock>>
    BY <1>2 DEF Asn
  <1> HIDE DEF q
  <1>7. WellFormed(q) /\ RecordedBy(q, table')
    <2>1. pass[p].ips \in SUBSET Ips
      BY <1>1 DEF Pass
    <2> QED
      BY <1>1, <1>4, <1>5, <2>1 DEF WellFormed, InLookup, RecordedBy, RowsStay
  <1> QED
    BY <1>4, <1>5, <1>6, <1>7 DEF QuietEffect, IInv, TypeOK

LEMMA SaveRaisesIsQuiet ==
  ASSUME IInv, NEW p \in Passes, SaveRaises(p)
  PROVE  QuietEffect(p)
  <1>1. pass' = [pass EXCEPT ![p] = NoPass] /\ UNCHANGED <<table, file, services, since, lock, clock>>
    BY DEF SaveRaises, Step
  <1> QED
    BY <1>1, NoPassWellFormed DEF QuietEffect, RowsStay, IInv, TypeOK

-----------------------------------------------------------------------------
(* The steps of the throttle, of time and of the end of a process or a pass *)

LEMMA QuietKeepsInv ==
  ASSUME IInv, NEW p \in Passes, QuietEffect(p)
  PROVE  IInv'
  <1>1. PICK q : /\ WellFormed(q) /\ q.pc # "sleep"
                 /\ RecordedBy(q, table')
                 /\ pass' = [pass EXCEPT ![p] = q]
    BY DEF QuietEffect
  <1>2. \A o \in Passes : pass'[o] = IF o = p THEN q ELSE pass[o]
    BY <1>1 DEF IInv, TypeOK
  <1>3. TypeOK'
    BY <1>1 DEF QuietEffect, RowsStay, IInv, TypeOK, WellFormed, clock
  <1>4. \A o \in Passes : WellFormed(pass'[o])
    BY <1>1, <1>2 DEF IInv
  <1>5. Throttled'
    <2> SUFFICES ASSUME NEW o \in Passes, NEW r \in Registries,
                        pass'[o].pc = "sleep", Base(o, r)'
                 PROVE  lock'[r] = {o} /\ pass'[o].wait + since'[r] >= Interval
      BY DEF Throttled
    <2>1. o # p /\ pass'[o] = pass[o]
      BY <1>1, <1>2
    <2>2. Base(o, r)
      BY <2>1 DEF Base
    <2> QED
      BY <2>1, <2>2 DEF IInv, Throttled, QuietEffect
  <1>6. \A o \in Passes : RecordedBy(pass'[o], table')
    <2> SUFFICES ASSUME NEW o \in Passes, o # p
                 PROVE  RecordedBy(pass'[o], table')
      BY <1>1, <1>2
    <2>1. RecordedBy(pass[o], table) /\ pass[o].ips \in SUBSET Ips
      BY DEF IInv, TypeOK, Pass
    <2> QED
      BY <1>2, <2>1 DEF RecordedBy, QuietEffect, RowsStay
  <1> QED
    BY <1>3, <1>4, <1>5, <1>6 DEF IInv

LEMMA OneBase ==
  ASSUME IInv, NEW p \in Passes, pass[p].pc \in InLookup,
         NEW r \in Registries, NEW s \in Registries, Base(p, r), Base(p, s)
  PROVE  r = s
  BY DEF IInv, WellFormed, Base

LEMMA LockKeepsInv ==
  ASSUME IInv, NEW p \in Passes, NEW r \in Registries, Lock(p, r)
  PROVE  IInv'
  <1> DEFINE q == [pass[p] EXCEPT !.pc = "sleep", !.wait = Interval - since[r]]
  <1>1. pass[p] \in Pass /\ WellFormed(pass[p]) /\ RecordedBy(pass[p], table)
        /\ pass[p].pc = "lock"
    BY DEF IInv, TypeOK, Lock
  <1>2. Interval - since[r] \in Nat
    BY SettingsAssumption DEF IInv, TypeOK
  <1>3. q \in Pass /\ q.pc = "sleep" /\ q.wait = Interval - since[r] /\ q.ip = pass[p].ip
        /\ q.ips = pass[p].ips /\ q.todo = pass[p].todo
    BY <1>1, <1>2 DEF Pass
  <1>4. /\ pass' = [pass EXCEPT ![p] = q] /\ lock[r] = {} /\ Base(p, r)
        /\ lock' = [lock EXCEPT ![r] = @ \cup {p}]
        /\ UNCHANGED <<table, file, services, since, clock>>
    BY DEF Lock, LockFree, Step
  <1> HIDE DEF q
  <1>5. \A o \in Passes : pass'[o] = IF o = p THEN q ELSE pass[o]
    BY <1>4 DEF IInv, TypeOK
  <1>6. lock' = [lock EXCEPT ![r] = {p}] /\ lock' \in [Registries -> SUBSET Passes]
    BY <1>4 DEF IInv, TypeOK
  <1>7. TypeOK'
    BY <1>3, <1>4, <1>6 DEF IInv, TypeOK, clock
  <1>8. \A o \in Passes : WellFormed(pass'[o])
    BY <1>1, <1>3, <1>5 DEF IInv, WellFormed, InLookup
  <1>9. Throttled'
    <2> SUFFICES ASSUME NEW o \in Passes, NEW s \in Registries,
                        pass'[o].pc = "sleep", Base(o, s)'
                 PROVE  lock'[s] = {o} /\ pass'[o].wait + since'[s] >= Interval
      BY DEF Throttled
    <2>1. CASE o = p
      <3>1. Base(p, s)
        BY <1>3, <1>5, <2>1 DEF Base
      <3>2. s = r
        BY <1>1, <1>4, <3>1, OneBase DEF InLookup
      <3>3. since[r] \in Nat /\ since' = since
        BY <1>4 DEF IInv, TypeOK
      <3>4. lock'[r] = {p}
        BY <1>6 DEF IInv, TypeOK
      <3>5. pass'[o].wait = Interval - since[r]
        BY <1>3, <1>5, <2>1
      <3> QED
        BY <2>1, <3>2, <3>3, <3>4, <3>5, SettingsAssumption
    <2>2. CASE o # p
      <3>1. pass'[o] = pass[o] /\ Base(o, s)
        BY <1>5, <2>2 DEF Base
      <3>2. lock[s] = {o} /\ pass[o].wait + since[s] >= Interval
        BY <3>1 DEF IInv, Throttled
      <3>3. s # r
        BY <1>4, <3>2
      <3> QED
        BY <1>4, <1>6, <3>1, <3>2, <3>3 DEF IInv, TypeOK
    <2> QED
      BY <2>1, <2>2
  <1>10. \A o \in Passes : RecordedBy(pass'[o], table')
    BY <1>1, <1>3, <1>4, <1>5 DEF IInv, RecordedBy
  <1> QED
    BY <1>7, <1>8, <1>9, <1>10 DEF IInv

LEMMA SendKeepsInv ==
  ASSUME IInv, NEW p \in Passes, NEW r \in Registries, Send(p, r)
  PROVE  IInv'
  <1> DEFINE q == [pass[p] EXCEPT !.pc = "request"]
  <1>1. pass[p] \in Pass /\ WellFormed(pass[p]) /\ RecordedBy(pass[p], table)
        /\ pass[p].pc = "sleep"
    BY DEF IInv, TypeOK, Send
  <1>2. q \in Pass /\ q.pc = "request" /\ q.ip = pass[p].ip
        /\ q.ips = pass[p].ips /\ q.todo = pass[p].todo
    BY <1>1 DEF Pass
  <1>3. /\ pass' = [pass EXCEPT ![p] = q] /\ Base(p, r)
        /\ lock' = [lock EXCEPT ![r] = @ \ {p}]
        /\ since' = [since EXCEPT ![r] = 0]
        /\ UNCHANGED <<table, file, services, clock>>
    BY DEF Send, Step
  <1> HIDE DEF q
  <1>4. \A o \in Passes : pass'[o] = IF o = p THEN q ELSE pass[o]
    BY <1>3 DEF IInv, TypeOK
  <1>5. lock' \in [Registries -> SUBSET Passes] /\ since' \in [Registries -> 0 .. Interval]
    BY <1>3, SettingsAssumption DEF IInv, TypeOK
  <1>6. TypeOK'
    BY <1>2, <1>3, <1>5 DEF IInv, TypeOK, clock
  <1>7. \A o \in Passes : WellFormed(pass'[o])
    BY <1>1, <1>2, <1>4 DEF IInv, WellFormed, InLookup
  <1>8. lock[r] = {p}
    BY <1>1, <1>3 DEF IInv, Throttled
  <1>9. Throttled'
    <2> SUFFICES ASSUME NEW o \in Passes, NEW s \in Registries,
                        pass'[o].pc = "sleep", Base(o, s)'
                 PROVE  lock'[s] = {o} /\ pass'[o].wait + since'[s] >= Interval
      BY DEF Throttled
    <2>1. o # p /\ pass'[o] = pass[o]
      BY <1>2, <1>4
    <2>2. Base(o, s)
      BY <2>1 DEF Base
    <2>3. lock[s] = {o} /\ pass[o].wait + since[s] >= Interval
      BY <2>1, <2>2 DEF IInv, Throttled
    <2>4. s # r
      BY <1>8, <2>1, <2>3
    <2> QED
      BY <1>3, <2>1, <2>3, <2>4 DEF IInv, TypeOK
  <1>10. \A o \in Passes : RecordedBy(pass'[o], table')
    BY <1>1, <1>2, <1>3, <1>4 DEF IInv, RecordedBy
  <1> QED
    BY <1>6, <1>7, <1>9, <1>10 DEF IInv

\* A purge ends a pass wherever it is; its lock goes with it.
LEMMA CancelKeepsInv ==
  ASSUME IInv, NEW p \in Passes, Cancel(p)
  PROVE  IInv'
  <1>1. /\ pass' = [pass EXCEPT ![p] = NoPass]
        /\ lock' = [r \in Registries |-> lock[r] \ {p}]
        /\ UNCHANGED <<table, file, services, since, clock>>
    BY DEF Cancel, Step, Without
  <1>2. \A o \in Passes : pass'[o] = IF o = p THEN NoPass ELSE pass[o]
    BY <1>1 DEF IInv, TypeOK
  <1>3. TypeOK'
    BY <1>1, NoPassWellFormed DEF IInv, TypeOK, WellFormed, clock
  <1>4. \A o \in Passes : WellFormed(pass'[o]) /\ RecordedBy(pass'[o], table')
    BY <1>1, <1>2, NoPassWellFormed DEF IInv
  <1>5. Throttled'
    <2> SUFFICES ASSUME NEW o \in Passes, NEW s \in Registries,
                        pass'[o].pc = "sleep", Base(o, s)'
                 PROVE  lock'[s] = {o} /\ pass'[o].wait + since'[s] >= Interval
      BY DEF Throttled
    <2>1. o # p /\ pass'[o] = pass[o]
      BY <1>2, NoPassWellFormed
    <2>2. Base(o, s)
      BY <2>1 DEF Base
    <2>3. lock[s] = {o} /\ pass[o].wait + since[s] >= Interval
      BY <2>1, <2>2 DEF IInv, Throttled
    <2> QED
      BY <1>1, <2>1, <2>3
  <1> QED
    BY <1>3, <1>4, <1>5 DEF IInv

\* A tick shortens the wait by no more than it adds to what has gone by.
LEMMA TickKeepsInv ==
  ASSUME IInv, Tick
  PROVE  IInv'
  <1> DEFINE q(o) == [pass[o] EXCEPT !.wait = IF @ > 0 THEN @ - 1 ELSE 0]
  <1>1. /\ pass' = [o \in Passes |-> q(o)]
        /\ since' = [r \in Registries |-> IF since[r] < Interval THEN since[r] + 1 ELSE Interval]
        /\ UNCHANGED <<table, file, services, lock, clock>>
    BY DEF Tick
  <1>2. ASSUME NEW o \in Passes
        PROVE  /\ q(o) \in Pass /\ q(o).pc = pass[o].pc /\ q(o).ip = pass[o].ip
               /\ q(o).ips = pass[o].ips /\ q(o).todo = pass[o].todo
               /\ q(o).attempt = pass[o].attempt
               /\ q(o).wait = IF pass[o].wait > 0 THEN pass[o].wait - 1 ELSE 0
    <2>1. pass[o] \in Pass /\ pass[o].wait \in Nat
      BY DEF IInv, TypeOK, Pass
    <2> DEFINE w == IF pass[o].wait > 0 THEN pass[o].wait - 1 ELSE 0
    <2>2. w \in Nat /\ q(o) = [pass[o] EXCEPT !.wait = w]
      BY <2>1
    <2>3. q(o).wait = w
      BY <2>1, <2>2 DEF Pass
    <2> HIDE DEF w, q
    <2>4. /\ q(o) \in Pass /\ q(o).pc = pass[o].pc /\ q(o).ip = pass[o].ip
          /\ q(o).ips = pass[o].ips /\ q(o).todo = pass[o].todo
          /\ q(o).attempt = pass[o].attempt
      BY <2>1, <2>2 DEF Pass
    <2> QED
      BY <2>3, <2>4 DEF w
  <1>3. \A o \in Passes : pass'[o] = q(o)
    BY <1>1
  <1>4. pass' \in [Passes -> Pass]
    BY <1>1, <1>2
  <1> HIDE DEF q
  <1>5. since' \in [Registries -> 0 .. Interval]
    BY <1>1, SettingsAssumption DEF IInv, TypeOK
  <1>6. TypeOK'
    BY <1>1, <1>4, <1>5 DEF IInv, TypeOK, clock
  <1>7. \A o \in Passes : WellFormed(pass'[o]) /\ RecordedBy(pass'[o], table')
    BY <1>1, <1>2, <1>3 DEF IInv, WellFormed, RecordedBy
  <1>8. Throttled'
    <2> SUFFICES ASSUME NEW o \in Passes, NEW s \in Registries,
                        pass'[o].pc = "sleep", Base(o, s)'
                 PROVE  lock'[s] = {o} /\ pass'[o].wait + since'[s] >= Interval
      BY DEF Throttled
    <2>1. pass[o].pc = "sleep" /\ Base(o, s)
      BY <1>2, <1>3 DEF Base
    <2>2. lock[s] = {o} /\ pass[o].wait + since[s] >= Interval
      BY <2>1 DEF IInv, Throttled
    <2>3. pass[o].wait \in Nat /\ since[s] \in Nat
      BY DEF IInv, TypeOK, Pass
    <2>4. pass'[o].wait = IF pass[o].wait > 0 THEN pass[o].wait - 1 ELSE 0
      BY <1>2, <1>3
    <2>5. since'[s] = IF since[s] < Interval THEN since[s] + 1 ELSE Interval
      BY <1>1
    <2> QED
      BY <1>1, <2>2, <2>3, <2>4, <2>5, SettingsAssumption
  <1> QED
    BY <1>6, <1>7, <1>8 DEF IInv

LEMMA TimeKeepsInv ==
  ASSUME IInv, Hour \/ Week
  PROVE  IInv'
  <1>1. UNCHANGED <<since, lock, pass, crashes>>
    BY DEF Hour, Week, clock
  <1>2. CASE Hour
    <2>1. /\ table' = [ip \in Ips |-> IF table[ip] = "error" THEN "old error" ELSE table[ip]]
          /\ UNCHANGED <<file, services, weeks>>
      BY <1>2 DEF Hour, clock
    <2>2. RowsStay
      BY <2>1 DEF RowsStay, Row, IInv, TypeOK
    <2>3. \A p \in Passes : RecordedBy(pass[p], table')
      <3> SUFFICES ASSUME NEW p \in Passes PROVE RecordedBy(pass[p], table')
        OBVIOUS
      <3>1. RecordedBy(pass[p], table) /\ pass[p].ips \in SUBSET Ips
        BY DEF IInv, TypeOK, Pass
      <3> QED
        BY <2>2, <3>1 DEF RecordedBy, RowsStay
    <2> QED
      BY <1>1, <2>1, <2>2, <2>3 DEF IInv, TypeOK, Throttled, Base, RowsStay
  <1>3. CASE Week
    <2>1. /\ file' = [file EXCEPT !.old = file.kind # "none"]
          /\ services' = IF services = "none" THEN "none" ELSE "old"
          /\ table' = table /\ weeks' = weeks + 1
      BY <1>3 DEF Week
    <2>2. file' \in File
      BY <2>1 DEF File, IInv, TypeOK
    <2> QED
      BY <1>1, <2>1, <2>2 DEF IInv, TypeOK, Throttled, Base
  <1> QED
    BY <1>2, <1>3

LEMMA CrashKeepsInv ==
  ASSUME IInv, Crash
  PROVE  IInv'
  <1>1. /\ crashes' = crashes + 1 /\ services' = "none"
        /\ since' = [r \in Registries |-> Interval]
        /\ lock' = [r \in Registries |-> {}]
        /\ pass' = [p \in Passes |-> NoPass]
        /\ UNCHANGED <<table, file, weeks>>
    BY DEF Crash
  <1>2. \A p \in Passes : pass'[p] = NoPass
    BY <1>1
  <1>3. pass' \in [Passes -> Pass] /\ since' \in [Registries -> 0 .. Interval]
    BY <1>1, NoPassWellFormed, SettingsAssumption DEF WellFormed
  <1>4. TypeOK'
    BY <1>1, <1>3 DEF IInv, TypeOK
  <1> QED
    BY <1>2, <1>4, NoPassWellFormed DEF IInv, Throttled

LEMMA InitInv == Init => IInv
  <1> SUFFICES ASSUME Init PROVE IInv
    OBVIOUS
  <1>1. \A p \in Passes : pass[p] = NoPass
    BY DEF Init
  <1>2. pass \in [Passes -> Pass]
    BY NoPassWellFormed DEF Init, WellFormed
  <1>3. file \in File
    BY DEF Init, NoFile, File
  <1>4. TypeOK
    BY <1>2, <1>3, SettingsAssumption DEF Init, TypeOK, Row
  <1> QED
    BY <1>1, <1>4, NoPassWellFormed DEF IInv, Throttled

\* Every step of the passes is quiet or one of the throttle's.
LEMMA NextSplits ==
  ASSUME IInv, Next
  PROVE  \/ \E p \in Passes : QuietEffect(p) \/ Cancel(p)
         \/ \E p \in Passes, r \in Registries : Lock(p, r) \/ Send(p, r)
         \/ Tick \/ Hour \/ Week \/ Crash
  <1>1. ASSUME NEW p \in Passes, TaskStep(p)
        PROVE  QuietEffect(p) \/ \E r \in Registries : Send(p, r)
    <2>1. CASE End(p) \/ Redirect(p) \/ Resume(p) \/ SaveRaises(p)
      BY <2>1, EndIsQuiet, RedirectIsQuiet, ResumeIsQuiet, SaveRaisesIsQuiet
    <2>2. CASE \E ip \in Ips : Begin(p, ip) \/ BeginPrivate(p, ip)
      BY <2>2, BeginIsQuiet, BeginPrivateIsQuiet
    <2>3. CASE \E kind \in {"none", "good", "garbled"} : Bootstrap(p, kind)
      BY <2>3, BootstrapIsQuiet
    <2>4. CASE \E answer \in {"network", "429", "other"} : Answer(p, answer)
      BY <2>4, AnswerIsQuiet
    <2>5. CASE \E answer \in {"answered", "failure"} : Asn(p, answer)
      BY <2>5, AsnIsQuiet
    <2> QED
      BY <1>1, <2>1, <2>2, <2>3, <2>4, <2>5 DEF TaskStep
  <1>2. CASE \E p \in Passes, ips \in SUBSET Ips \ {{}} : Start(p, ips)
    BY <1>2, StartIsQuiet
  <1>3. CASE \E p \in Passes : TaskStep(p) \/ Throttle(p) \/ Cancel(p)
    BY <1>1, <1>3 DEF Throttle
  <1> QED
    BY <1>2, <1>3 DEF Next

LEMMA StepInv == IInv /\ [Next]_vars => IInv'
  <1> SUFFICES ASSUME IInv, [Next]_vars PROVE IInv'
    OBVIOUS
  <1>1. CASE Next
    BY <1>1, NextSplits, QuietKeepsInv, CancelKeepsInv, LockKeepsInv, SendKeepsInv,
       TickKeepsInv, TimeKeepsInv, CrashKeepsInv
  <1>2. CASE UNCHANGED vars
    BY <1>2 DEF vars, clock, IInv, TypeOK, Throttled, Base
  <1> QED
    BY <1>1, <1>2

-----------------------------------------------------------------------------
\* The types of all variables: enrich/rdap.py repeats a request once at most.
THEOREM TypeCorrect == Spec => []TypeOK
  <1>1. IInv => TypeOK
    BY DEF IInv
  <1> QED
    BY <1>1, InitInv, StepInv, PTL DEF Spec

\* A pass of Enricher.enrich_ips that ended has left a row for each address.
THEOREM EveryIpIsRecorded == Spec => []EveryIpRecorded
  <1>1. IInv => EveryIpRecorded
    BY DEF IInv, RecordedBy, EveryIpRecorded
  <1> QED
    BY <1>1, InitInv, StepInv, PTL DEF Spec

\* The lock of _throttle, held over its sleep, keeps the requests that pass it an
\* interval apart, whichever lookups send them. The requests that redirects lead to
\* do not pass it, so this is not yet one request per interval and registry.
THEOREM SendsAreSpaced == Spec => SpacedSends
  <1>1. ASSUME IInv, [Next]_vars, NEW p \in Passes, NEW r \in Registries, Sends(p, r)
        PROVE  since[r] = Interval
    <2>1. pass[p].pc = "sleep" /\ pass'[p].pc = "request" /\ Base(p, r)
      BY <1>1 DEF Sends
    <2>2. pass \in [Passes -> Pass]
      BY <1>1 DEF IInv, TypeOK
    <2>3. Next
      BY <1>1, <2>1 DEF vars
    <2>4. ASSUME NEW o \in Passes, QuietEffect(o) PROVE FALSE
      BY <2>1, <2>2, <2>4 DEF QuietEffect
    <2>5. ASSUME NEW o \in Passes, Cancel(o) PROVE FALSE
      BY <2>1, <2>2, <2>5, NoPassWellFormed DEF Cancel, Step
    <2>6. ASSUME NEW o \in Passes, NEW s \in Registries, Lock(o, s) PROVE FALSE
      <3>1. pass[o].pc = "lock" /\ pass' = [pass EXCEPT ![o] = [pass[o] EXCEPT
               !.pc = "sleep", !.wait = Interval - since[s]]]
        BY <2>6 DEF Lock, Step
      <3>2. o # p
        BY <2>1, <3>1
      <3> QED
        BY <2>1, <2>2, <3>1, <3>2
    <2>7. ASSUME Tick PROVE FALSE
      <3>1. pass'[p] = [pass[p] EXCEPT !.wait = IF @ > 0 THEN @ - 1 ELSE 0]
        BY <2>7 DEF Tick
      <3> QED
        BY <2>1, <2>2, <3>1 DEF Pass
    <2>8. ASSUME Hour \/ Week \/ Crash PROVE FALSE
      BY <2>1, <2>8, NoPassWellFormed DEF Hour, Week, Crash
    <2>9. PICK o \in Passes, s \in Registries : Send(o, s)
      BY <1>1, <2>3, <2>4, <2>5, <2>6, <2>7, <2>8, NextSplits
    <2>10. o = p
      BY <2>1, <2>2, <2>9 DEF Send, Step
    <2>11. s = r
      BY <1>1, <2>1, <2>9, <2>10, OneBase DEF Send, InLookup
    <2>12. pass[p].wait = 0 /\ pass[p].wait + since[r] >= Interval
      BY <1>1, <2>1, <2>9, <2>10 DEF Send, IInv, Throttled
    <2>13. since[r] \in 0 .. Interval
      BY <1>1 DEF IInv, TypeOK
    <2> QED
      BY <2>12, <2>13, SettingsAssumption
  <1>2. IInv /\ [Next]_vars => [SpacedSend]_vars
    BY <1>1 DEF SpacedSend
  <1> QED
    BY <1>2, InitInv, StepInv, PTL DEF Spec, SpacedSends
=============================================================================

----------------------------- MODULE Enrichment -----------------------------
(***************************************************************************)
(* The automatic enrichment of addresses: the passes of several batches    *)
(* (JobRunner._enrich, Enricher.enrich_ips), the RDAP client they share    *)
(* with its bootstrap file and its throttle (enrich/rdap.py), the ASN      *)
(* lookup (enrich/asn.py) and the table ips (db.py).                       *)
(*                                                                         *)
(* An action is the code from one await to the next, or less: "next" is no *)
(* await, and splitting there only adds interleavings.                     *)
(*                                                                         *)
(* Abstracted: addresses are looked up in any order; of a row only whether *)
(* it has an error, and whether an hour has gone by since; one IP version, *)
(* hence one bootstrap file; the one or two DNS answers of an ASN lookup   *)
(* are one; time is counted in ticks of which an interval has Interval,    *)
(* and only as far back as one interval.  A restart takes longer than an   *)
(* interval.  A redirect is a further request, wherever it leads; those of *)
(* IANA, whose file no throttle guards, are part of the wait for it.       *)
(***************************************************************************)
EXTENDS Naturals, FiniteSets

CONSTANTS
    Passes,        \* the enrichment passes: one per batch
    Ips,           \* the addresses
    Registries,    \* the RIRs
    RegistryOf,    \* what the bootstrap file says of each address
    OddValues,     \* may an answer hold a value the store refuses?
    Interval,      \* settings.rdap_min_interval, in ticks
    MaxRedirects,  \* redirects the HTTP client follows before it raises
    MaxCrashes,    \* bound: restarts of the process
    MaxWeeks       \* bound: weeks that go by

ASSUME RegistriesAssumption ==
    /\ RegistryOf \in [Ips -> Registries \cup {"private", "unlisted"}]
    /\ Registries \cap {"private", "unlisted"} = {}
ASSUME SettingsAssumption ==
    Interval \in Nat /\ MaxRedirects \in Nat /\ OddValues \in BOOLEAN
ASSUME BoundsAssumption == MaxCrashes \in Nat /\ MaxWeeks \in Nat

VARIABLES
    table,     \* ips: the row of each address
    file,      \* kv: the bootstrap file in the store
    services,  \* RdapClient._services
    since,     \* ticks since RdapClient._last of each registry, Interval at most
    lock,      \* RdapClient._locks: the passes that hold each
    pass,      \* the passes and their locals
    crashes,   \* restarts so far
    weeks      \* weeks gone by

vars == <<table, file, services, since, lock, pass, crashes, weeks>>
clock == <<crashes, weeks>>

-----------------------------------------------------------------------------
(* The state *)

Row  == {"none", "good", "error", "old error"}
File == [kind : {"none", "good", "garbled"}, old : BOOLEAN]

\* Awaits: "bootstrap" IANA; "lock" and "sleep" of the throttle, the second with
\* the lock; "request" the registry, or where "hops" redirects led from there;
\* "pause" Retry-After; "asn" DNS.
Pass == [pc : {"none", "next", "bootstrap", "lock", "sleep", "request", "pause", "asn",
               "ended"},
         ips : SUBSET Ips, todo : SUBSET Ips, ip : SUBSET Ips, attempt : {1, 2},
         wait : Nat, hops : 0 .. MaxRedirects, error : BOOLEAN]

TypeOK ==
    /\ table \in [Ips -> Row]
    /\ file \in File
    /\ services \in {"none", "good", "old"}
    /\ since \in [Registries -> 0 .. Interval]
    /\ lock \in [Registries -> SUBSET Passes]
    /\ pass \in [Passes -> Pass]
    /\ crashes \in Nat
    /\ weeks \in Nat

NoFile == [kind |-> "none", old |-> FALSE]
NoPass == [pc |-> "none", ips |-> {}, todo |-> {}, ip |-> {}, attempt |-> 1, wait |-> 0,
           hops |-> 0, error |-> FALSE]

Init ==
    /\ table = [ip \in Ips |-> "none"]
    /\ file = NoFile
    /\ services = "none"
    /\ since = [r \in Registries |-> Interval]
    /\ lock = [r \in Registries |-> {}]
    /\ pass = [p \in Passes |-> NoPass]
    /\ crashes = 0 /\ weeks = 0

Under(p) == pass[p].pc \notin {"none", "ended"}
Base(p, r) == r \in Registries /\ \E ip \in pass[p].ip : RegistryOf[ip] = r

Step(p, q) == pass' = [pass EXCEPT ![p] = q]

\* ips_missing: no row, or an error an hour old.
Missing(ips) == {ip \in ips : table[ip] \in {"none", "old error"}}

\* save_ip replaces the row, whatever it holds.
SaveIpMutant(ip, error) ==                               \* keeps no failure
    table' = IF error THEN table ELSE [table EXCEPT ![ip] = "good"]
SaveIp(ip, error) ==
    table' = [table EXCEPT ![ip] = IF error THEN "error" ELSE "good"]

-----------------------------------------------------------------------------
(* A pass and its loop *)

Start(p, ips) ==
    /\ ~Under(p)
    /\ Step(p, [NoPass EXCEPT !.pc = "next", !.ips = ips, !.todo = Missing(ips)])
    /\ UNCHANGED <<table, file, services, since, lock, clock>>

End(p) ==
    /\ pass[p].pc = "next" /\ pass[p].todo = {}
    /\ Step(p, [pass[p] EXCEPT !.pc = "ended"])
    /\ UNCHANGED <<table, file, services, since, lock, clock>>

\* lookup() is over, for better or worse: its locals are gone.
Looked(q, error) == [q EXCEPT !.pc = "asn", !.attempt = 1, !.hops = 0, !.error = error]

\* What follows once the bootstrap is there: the throttle of the registry, or
\* the error that there is none.
Routed(q, ip) ==
    IF RegistryOf[ip] = "unlisted" THEN Looked(q, TRUE)
    ELSE [q EXCEPT !.pc = "lock"]

\* The next address, as far as the first await. A file in the store that does
\* not parse is an error of each address.
Begin(p, ip) ==
    LET q == [pass[p] EXCEPT !.ip = {ip}] IN
    /\ pass[p].pc = "next" /\ ip \in pass[p].todo
    /\ RegistryOf[ip] # "private"
    /\ \/ /\ services # "none"
          /\ Step(p, Routed(q, ip))
          /\ UNCHANGED services
       \/ /\ services = "none" /\ file.kind = "good" /\ ~file.old
          /\ services' = "good"
          /\ Step(p, Routed(q, ip))
       \/ /\ services = "none" /\ file.kind = "garbled" /\ ~file.old
          /\ Step(p, Looked(q, TRUE))
          /\ UNCHANGED services
       \/ /\ services = "none" /\ (file.kind = "none" \/ file.old)
          /\ Step(p, [q EXCEPT !.pc = "bootstrap"])
          /\ UNCHANGED services
    /\ UNCHANGED <<table, file, since, lock, clock>>

\* A private or reserved address is looked up nowhere.
BeginPrivate(p, ip) ==
    /\ pass[p].pc = "next" /\ ip \in pass[p].todo
    /\ RegistryOf[ip] = "private"
    /\ SaveIp(ip, FALSE)
    /\ Step(p, [pass[p] EXCEPT !.todo = @ \ {ip}])
    /\ UNCHANGED <<file, services, since, lock, clock>>

-----------------------------------------------------------------------------
(* RdapClient *)

\* bootstrap: what came is stored before it is parsed.
Bootstrap(p, kind) ==
    /\ pass[p].pc = "bootstrap"
    /\ file' = IF kind = "none" THEN file ELSE [kind |-> kind, old |-> FALSE]
    /\ services' = IF kind = "good" THEN "good" ELSE services
    /\ \E ip \in pass[p].ip :
         Step(p, IF kind = "good" THEN Routed(pass[p], ip)
                 ELSE Looked(pass[p], TRUE))
    /\ UNCHANGED <<table, since, lock, clock>>

LockFreeMutant(r) == TRUE                                \* no lock at all
LockFree(r) == lock[r] = {}

\* _throttle: the wait is worked out under the lock, and slept under it.
Lock(p, r) ==
    /\ pass[p].pc = "lock" /\ Base(p, r)
    /\ LockFree(r)
    /\ lock' = [lock EXCEPT ![r] = @ \cup {p}]
    /\ Step(p, [pass[p] EXCEPT !.pc = "sleep", !.wait = Interval - since[r]])
    /\ UNCHANGED <<table, file, services, since, clock>>

\* The end of the sleep, on time or later, and the request.
Send(p, r) ==
    /\ pass[p].pc = "sleep" /\ Base(p, r)
    /\ pass[p].wait = 0
    /\ since' = [since EXCEPT ![r] = 0]
    /\ lock' = [lock EXCEPT ![r] = @ \ {p}]
    /\ Step(p, [pass[p] EXCEPT !.pc = "request"])
    /\ UNCHANGED <<table, file, services, clock>>

\* A redirect, back to the registry, to another or elsewhere: the client
\* (follow_redirects) sends a further request at once, and neither the lock nor
\* _last knows of it. One more than MaxRedirects is a failure.
Redirect(p) ==
    /\ pass[p].pc = "request" /\ pass[p].hops < MaxRedirects
    /\ Step(p, [pass[p] EXCEPT !.hops = @ + 1])
    /\ UNCHANGED <<table, file, services, since, lock, clock>>

HonouredMutant(q) == q.attempt \in {1, 2}                \* on every attempt
Honoured(q) == q.attempt = 1

\* 429 is honoured once; anything else that is no network object, a second 429
\* and every failure of the network is an error of the address.
Answer(p, answer) ==
    /\ pass[p].pc = "request"
    /\ Step(p, CASE answer = "network" -> Looked(pass[p], FALSE)
                 [] answer = "429" /\ Honoured(pass[p]) ->
                      [pass[p] EXCEPT !.pc = "pause", !.hops = 0]
                 [] OTHER -> Looked(pass[p], TRUE))
    /\ UNCHANGED <<table, file, services, since, lock, clock>>

Resume(p) ==
    /\ pass[p].pc = "pause"
    /\ Step(p, [pass[p] EXCEPT !.pc = "lock", !.attempt = @ + 1])
    /\ UNCHANGED <<table, file, services, since, lock, clock>>

-----------------------------------------------------------------------------
(* AsnLookup, and the row *)

\* The DNS answer, and the row. A failure adds its error to what RDAP found.
Asn(p, answer) ==
    /\ pass[p].pc = "asn"
    /\ \E ip \in pass[p].ip :
         /\ SaveIp(ip, pass[p].error \/ answer = "failure")
         /\ Step(p, [pass[p] EXCEPT !.pc = "next", !.todo = @ \ {ip}, !.ip = {},
                                         !.error = FALSE])
    /\ UNCHANGED <<file, services, since, lock, clock>>

\* A field of the network object that is no plain value cannot be bound: the
\* exception ends the pass.
SaveRaises(p) ==
    /\ OddValues
    /\ pass[p].pc = "asn" /\ ~pass[p].error
    /\ Step(p, NoPass)
    /\ UNCHANGED <<table, file, services, since, lock, clock>>

-----------------------------------------------------------------------------
(* A purge cancels the pass; time goes by; the process dies *)

WithoutMutant(r, p) == lock[r]                           \* a cancelled sleep keeps it
Without(r, p) == lock[r] \ {p}

Cancel(p) ==
    /\ Under(p) /\ pass[p].pc # "next"
    /\ Step(p, NoPass)
    /\ lock' = [r \in Registries |-> Without(r, p)]
    /\ UNCHANGED <<table, file, services, since, clock>>

Tick ==
    /\ \E r \in Registries : since[r] < Interval
    /\ since' = [r \in Registries |-> IF since[r] < Interval THEN since[r] + 1 ELSE Interval]
    /\ pass' = [p \in Passes |-> [pass[p] EXCEPT !.wait = IF @ > 0 THEN @ - 1 ELSE 0]]
    /\ UNCHANGED <<table, file, services, lock, clock>>

Hour ==
    /\ \E ip \in Ips : table[ip] = "error"
    /\ table' = [ip \in Ips |-> IF table[ip] = "error" THEN "old error" ELSE table[ip]]
    /\ UNCHANGED <<file, services, since, lock, pass, clock>>

Week ==
    /\ weeks < MaxWeeks
    /\ weeks' = weeks + 1
    /\ file' = [file EXCEPT !.old = file.kind # "none"]
    /\ services' = IF services = "none" THEN "none" ELSE "old"
    /\ UNCHANGED <<table, since, lock, pass, crashes>>

Crash ==
    /\ crashes < MaxCrashes
    /\ crashes' = crashes + 1
    /\ services' = "none"
    /\ since' = [r \in Registries |-> Interval]
    /\ lock' = [r \in Registries |-> {}]
    /\ pass' = [p \in Passes |-> NoPass]
    /\ UNCHANGED <<table, file, weeks>>

-----------------------------------------------------------------------------
Throttle(p) == \E r \in Registries : Lock(p, r)

TaskStep(p) ==
    \/ End(p) \/ Redirect(p) \/ Resume(p) \/ SaveRaises(p)
    \/ \E ip \in Ips : Begin(p, ip) \/ BeginPrivate(p, ip)
    \/ \E kind \in {"none", "good", "garbled"} : Bootstrap(p, kind)
    \/ \E r \in Registries : Send(p, r)
    \/ \E answer \in {"network", "429", "other"} : Answer(p, answer)
    \/ \E answer \in {"answered", "failure"} : Asn(p, answer)

Next ==
    \/ \E p \in Passes, ips \in SUBSET Ips \ {{}} : Start(p, ips)
    \/ \E p \in Passes : TaskStep(p) \/ Throttle(p) \/ Cancel(p)
    \/ Tick \/ Hour \/ Week \/ Crash

Spec == Init /\ [][Next]_vars

\* Requests and sleeps end, time goes by, and a lock is handed over in order of
\* arrival.
Fairness ==
    /\ WF_vars(Tick)
    /\ \A p \in Passes : WF_vars(TaskStep(p)) /\ SF_vars(Throttle(p))

FairSpec == Spec /\ Fairness

-----------------------------------------------------------------------------
(* Properties *)

\* The throttle keeps the requests that pass it an interval apart, whichever
\* lookups send them, and also when one is cancelled or told to slow down in
\* between (RdapClient._throttle). It is less than "One request per second per
\* registry" (rdap.py:4): a redirect to a registry that was just asked (Redirect)
\* sends it a request that does not pass the throttle.
Sends(p, r) == pass[p].pc = "sleep" /\ pass'[p].pc = "request" /\ Base(p, r)
SpacedSend  == \A p \in Passes, r \in Registries : Sends(p, r) => since[r] = Interval
SpacedSends == [][SpacedSend]_vars

\* A pass that ended has left a row for every address it was given, if only with
\* an error, whatever the other passes did (enrich/__init__.py:35, "a lookup
\* failure is a per-IP fact, not a crash").
EveryIpRecorded ==
    \A p \in Passes : pass[p].pc = "ended" => \A ip \in pass[p].ips : table[ip] # "none"

\* Only what is not cached is looked up (enrich/__init__.py:19, "each distinct IP
\* not yet cached"): in particular a good row is never replaced by a failure.
GoodRowsStay ==
    [][\A ip \in Ips : table[ip] = "good" => table'[ip] = "good"]_vars

\* Every pass comes to an end: no throttle is left locked by a pass that was
\* cancelled, and 429 is honoured only once.
PassEnds == \A p \in Passes : Under(p) ~> ~Under(p)
=============================================================================

----------------------------- MODULE Guardhouse -----------------------------
(***************************************************************************)
(* What one call to Guardhouse can come back with, and what the client     *)
(* (guardhouse.py) makes of it: a page, or one of the exceptions the batch *)
(* runner tells apart.  Guardhouse itself and the network in between are   *)
(* not this program: an answer is any record of Responses.                 *)
(*                                                                         *)
(* Abstracted: the bytes of a body (body says only what the client finds   *)
(* in it), the text of an error, and the content of the events (a page is  *)
(* known by its number, see BatchRunner).                                  *)
(***************************************************************************)
EXTENDS Integers

\* How the exchange ended on the wire: answered, or an httpx exception.
SlowNet == {"read_timeout", "write_timeout", "pool_timeout"}
LostNet == {"connect_timeout", "connect_error", "reset"}

\* What a 200 body turns out to be. "malformed": a JSON object whose fields
\* have types the client does not expect (events that are no objects, a page
\* that is no number); reading it raises something no handler names.
BodyKind == {"page", "oversized", "garbled", "malformed"}

\* The Retry-After header: a number of seconds, or a date that many seconds
\* from now; missing and unreadable headers carry no time.
HeaderKind == {"absent", "seconds", "date", "garbage"}

Response ==
    [net        : {"ok"} \cup SlowNet \cup LostNet,
     status     : Nat,
     desync     : BOOLEAN,       \* the error code is "source_desync"
     body       : BodyKind,
     events     : BOOLEAN,       \* the page holds at least one event
     more       : BOOLEAN,       \* has_more
     retryAfter : [kind : HeaderKind, seconds : Int]]

-----------------------------------------------------------------------------
\* The exceptions of the client's contract (all are GuardhouseErrors), a page,
\* and "raise": an exception outside that contract.
OutcomeKind ==
    {"page", "NotFound", "AuthError", "InvalidParam", "Desync", "Unavailable",
     "Upstream", "ConnectionLost", "GuardhouseError", "raise"}

OutcomeOf200(body) ==
    CASE body = "page"      -> "page"
      [] body = "malformed" -> "raise"
      [] OTHER              -> "Upstream"

OutcomeOfError(status, desync) ==
    CASE status = 404                -> "NotFound"
      [] status \in {401, 403}       -> "AuthError"
      [] status = 400                -> "InvalidParam"
      [] status \in {429, 503}       -> "Unavailable"
      [] status \in {502, 504}       -> "Upstream"
      [] status = 500 /\ desync      -> "Desync"
      [] OTHER                       -> "GuardhouseError"

\* GuardhouseClient.events_page: the wire decides first, then the status.
Outcome(r) ==
    CASE r.net \in SlowNet -> "Upstream"
      [] r.net \in LostNet -> "ConnectionLost"
      [] r.status = 200    -> OutcomeOf200(r.body)
      [] OTHER             -> OutcomeOfError(r.status, r.desync)

\* GuardhouseClient.ready: every transport error is "not ready".
Ready(r) == r.net = "ok" /\ r.status = 200

\* _retry_after, with the wait the runner falls back on when it returns None.
\* A negative number and a date in the past are both "no wait at all".
WaitMutant(header, default) ==                           \* a missing header is no wait
    IF header.kind \in {"absent", "garbage"} THEN 0 ELSE header.seconds

Wait(header, default) ==
    IF header.kind \in {"absent", "garbage"} THEN default
    ELSE IF header.seconds > 0 THEN header.seconds ELSE 0
=============================================================================

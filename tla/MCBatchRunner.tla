--------------------------- MODULE MCBatchRunner ---------------------------
(***************************************************************************)
(* Instances of BatchRunner for TLC: sets of answers, one per question.    *)
(***************************************************************************)
EXTENDS BatchRunner, TLC

CONSTANTS b1, b2, u1, u2

NoHeader == [kind |-> "absent", seconds |-> 0]
Seconds(n) == [kind |-> "seconds", seconds |-> n]

Answered == [net |-> "ok", status |-> 200, desync |-> FALSE, body |-> "page",
             events |-> TRUE, more |-> FALSE, retryAfter |-> NoHeader]
Page(events, more) == [Answered EXCEPT !.events = events, !.more = more]
Body(kind)         == [Answered EXCEPT !.body = kind]
Status(status)     == [Answered EXCEPT !.status = status]
Throttle(status, header) == [Status(status) EXCEPT !.retryAfter = header]
Net(net)           == [Answered EXCEPT !.net = net]

Pages == {Page(TRUE, TRUE), Page(TRUE, FALSE), Page(FALSE, FALSE), Page(FALSE, TRUE)}
Errors == {Status(404), Status(401), Status(403), Status(400), Status(500),
           [Status(500) EXCEPT !.desync = TRUE]}
Upstreams == {Status(502), Status(504), Body("oversized"), Body("garbled"),
              Net("read_timeout"), Net("write_timeout"), Net("pool_timeout")}
Lost == {Net("connect_timeout"), Net("connect_error"), Net("reset")}
Throttles == {Throttle(429, NoHeader), Throttle(503, Seconds(2)),
              Throttle(429, [kind |-> "date", seconds |-> 1]),
              Throttle(503, [kind |-> "garbage", seconds |-> 0])}

\* One answer of each effect on a batch is enough where several interleave.
SharedResponses ==
    {Page(TRUE, TRUE), Page(TRUE, FALSE), Status(401), Net("connect_error")}
FairResponses == Pages \cup Errors \cup Upstreams \cup Lost \cup Throttles
FaultyResponses == {Page(TRUE, TRUE), Page(TRUE, FALSE), Status(401), Body("malformed")}
NoWaitResponses == {Page(TRUE, FALSE), Throttle(429, Seconds(0))}

Symmetric == Permutations(Batches) \cup Permutations(Uuids)
=============================================================================

------------------------------ MODULE Timeline ------------------------------
(***************************************************************************)
(* Changes of user agent and of network along the events of an account,    *)
(* which timeline.py works out twice: build_account_view for the page of   *)
(* the account, with filters, and batch_flags for the badges of the batch  *)
(* table, in one walk over the events of all its accounts.  With the       *)
(* classification of enrich/ua.py.                                         *)
(*                                                                         *)
(* A step is one turn of both loops, over the next event of an account.    *)
(*                                                                         *)
(* Abstracted: the parser of user agents and the ASN table are functions;  *)
(* of a version its text, the numbers _ver() reads in it, and whether it   *)
(* is a number.  Paths, sessions, days, cards and wording are left out.    *)
(***************************************************************************)
EXTENDS Integers, Sequences, FiniteSets

CONSTANTS
    Ips,          \* ip_address of an event
    Uas,          \* user_agent of an event
    AsnOf,        \* ips: the ASN of each address; 0 where it is unknown
    ParseOf,      \* what parse_ua makes of each user agent; nothing of an empty one
    MaxEvents,    \* bound: events of an account
    MaxAccounts   \* bound: accounts

Version == [text : STRING, nums : Seq(Nat), plain : BOOLEAN]
Parsed  == [families : STRING \X STRING \X STRING, major : Version, version : Version]

\* "parsed" is empty for None.
ASSUME AsnAssumption   == AsnOf \in [Ips -> Nat]
ASSUME ParseAssumption ==
    /\ DOMAIN ParseOf = Uas
    /\ \A ua \in Uas : \A p, q \in ParseOf[ua] : p \in Parsed /\ p = q
ASSUME NumberAssumption ==
    \A ua \in Uas : \A p \in ParseOf[ua] :
      /\ p.major.nums # <<>> /\ p.version.nums # <<>>
      /\ p.major.plain => Len(p.major.nums) = 1
ASSUME BoundsAssumption == MaxEvents \in Nat /\ MaxAccounts \in Nat

VARIABLES
    rows,      \* the rows of the view, oldest first
    view,      \* prev_ip and prev_ua of build_account_view, while there are rows
    flags,     \* out[u] of batch_flags
    walk,      \* prev_ip and prev_ua of batch_flags, and whether cur is this account
    accounts   \* accounts done before

vars == <<rows, view, flags, walk, accounts>>

-----------------------------------------------------------------------------
(* enrich/ua.py *)

\* The order of Python's tuples.
Less(a, b) ==
    \E i \in DOMAIN b :
      /\ \A j \in 1 .. i - 1 : j \in DOMAIN a /\ a[j] = b[j]
      /\ i \in DOMAIN a => a[i] < b[i]

UaChangeMutant(prev, cur) ==                             \* looks at the browser only
    CASE prev = {} \/ cur = {} \/ prev = cur -> "none"
      [] OTHER ->
           LET p == CHOOSE p \in prev : TRUE
               c == CHOOSE c \in cur : TRUE
           IN  IF p.families # c.families THEN "major"
               ELSE IF Less(c.major.nums, p.major.nums) THEN "downgrade" ELSE "minor"
UaLabelMutant(prev, cur) ==                              \* the label instead of the kind
    IF prev = cur THEN "none" ELSE "upgrade"
UaChange(prev, cur) ==
    CASE prev = {} \/ cur = {} \/ prev = cur -> "none"
      [] OTHER ->
           LET p == CHOOSE p \in prev : TRUE
               c == CHOOSE c \in cur : TRUE
           IN  IF p.families # c.families THEN "major"
               ELSE IF Less(c.major.nums, p.major.nums) \/ Less(c.version.nums, p.version.nums)
                    THEN "downgrade" ELSE "minor"

\* cur - prev, where both are numbers of one browser.
NoDelta == [known |-> FALSE, by |-> 0]
MajorDelta(prev, cur) ==
    IF \E p \in prev, c \in cur :
         p.families[1] = c.families[1] /\ p.major.plain /\ c.major.plain
    THEN [known |-> TRUE, by |-> (CHOOSE c \in cur : TRUE).major.nums[1]
                                   - (CHOOSE p \in prev : TRUE).major.nums[1]]
    ELSE NoDelta

Jump(delta) == IF delta.by < 0 THEN -delta.by ELSE delta.by

-----------------------------------------------------------------------------
(* The state *)

Delta == [known : BOOLEAN, by : Int]
Row == [ua : Uas, ipChanged : BOOLEAN, asn : {"changed", "same", "unknown"},
        change : {"none", "minor", "downgrade", "major"}, delta : Delta]
Flags == [downgrade : Nat, other : Nat, asn : Nat, both : Nat, jump : Nat]

TypeOK ==
    /\ rows \in Seq(Row)
    /\ view \in [ip : Ips, ua : Uas]
    /\ flags \in Flags
    /\ walk \in [ip : Ips, ua : Uas, started : BOOLEAN]
    /\ accounts \in Nat

NoFlags == [downgrade |-> 0, other |-> 0, asn |-> 0, both |-> 0, jump |-> 0]

\* What a loop variable holds before the first event is never read.
Init ==
    /\ rows = <<>> /\ flags = NoFlags /\ accounts = 0
    /\ view \in {[ip |-> ip, ua |-> ua] : ip \in Ips, ua \in Uas}
    /\ walk = [ip |-> view.ip, ua |-> view.ua, started |-> FALSE]

-----------------------------------------------------------------------------
(* build_account_view: the markers of the next row *)

FirstRow(ua) == [ua |-> ua, ipChanged |-> FALSE, asn |-> "unknown", change |-> "none",
                 delta |-> NoDelta]

AsnChange(prev, ip) ==
    CASE ip = prev                             -> "same"
      [] ip # prev /\ 0 \in {AsnOf[prev], AsnOf[ip]} -> "unknown"
      [] OTHER -> IF AsnOf[prev] = AsnOf[ip] THEN "same" ELSE "changed"

\* Unparsed but different strings are a real change; a string that parses to the
\* same is none.
ViewChange(prev, ua) ==
    LET change == UaChange(ParseOf[prev], ParseOf[ua]) IN
    IF ua = prev THEN "none"
    ELSE IF change = "none" /\ {} \in {ParseOf[prev], ParseOf[ua]} THEN "major"
    ELSE change

ViewRow(ip, ua) ==
    LET change == ViewChange(view.ua, ua) IN
    [ua |-> ua, ipChanged |-> ip # view.ip, asn |-> AsnChange(view.ip, ip), change |-> change,
     delta |-> IF change \in {"minor", "downgrade"}
               THEN MajorDelta(ParseOf[view.ua], ParseOf[ua]) ELSE NoDelta]

-----------------------------------------------------------------------------
(* batch_flags: the counts after the next event *)

BatchChangeMutant(prev, ua) ==                           \* without the "or major"
    IF ua = prev THEN "none" ELSE UaChange(ParseOf[prev], ParseOf[ua])
BatchChange(prev, ua) ==
    LET change == UaChange(ParseOf[prev], ParseOf[ua]) IN
    IF ua = prev THEN "none" ELSE IF change = "none" THEN "major" ELSE change

BatchThreshold == 2

Counted(ip, ua) ==
    LET change == BatchChange(walk.ua, ua)
        asn    == ip # walk.ip /\ AsnOf[walk.ip] # 0 /\ AsnOf[ip] # 0 /\ AsnOf[walk.ip] # AsnOf[ip]
        jump   == change \in {"minor", "downgrade"}
                    /\ Jump(MajorDelta(ParseOf[walk.ua], ParseOf[ua])) >= BatchThreshold
    IN  [downgrade |-> flags.downgrade + (IF change = "downgrade" THEN 1 ELSE 0),
         other     |-> flags.other + (IF change \in {"minor", "major"} THEN 1 ELSE 0),
         asn       |-> flags.asn + (IF asn THEN 1 ELSE 0),
         both      |-> flags.both + (IF asn /\ change # "none" THEN 1 ELSE 0),
         jump      |-> flags.jump + (IF jump THEN 1 ELSE 0)]

-----------------------------------------------------------------------------
(* The loops *)

\* The next event of this account, in both.
Event(ip, ua) ==
    /\ Len(rows) < MaxEvents
    /\ rows' = Append(rows, IF rows = <<>> THEN FirstRow(ua) ELSE ViewRow(ip, ua))
    /\ view' = [ip |-> ip, ua |-> ua]
    /\ flags' = IF walk.started THEN Counted(ip, ua) ELSE flags
    /\ walk' = [ip |-> ip, ua |-> ua, started |-> TRUE]
    /\ UNCHANGED accounts

StartedMutant == walk.started                            \* goes on from the account before
Started == FALSE

\* Another account: a view of its own, a line of its own, one and the same walk.
NextAccount ==
    /\ accounts < MaxAccounts - 1 /\ rows # <<>>
    /\ rows' = <<>> /\ flags' = NoFlags
    /\ walk' = [walk EXCEPT !.started = Started]
    /\ accounts' = accounts + 1
    /\ UNCHANGED view

Next == NextAccount \/ \E ip \in Ips, ua \in Uas : Event(ip, ua)

Spec == Init /\ [][Next]_vars

-----------------------------------------------------------------------------
(* The Changes section of the account's page *)

AllKinds == {"downgrade", "upgrade", "major", "asn", "asn_unknown"}

IsChange(r) == r.change # "none" \/ r.asn = "changed" \/ (r.ipChanged /\ r.asn = "unknown")

RowKindsMutant(r, minDelta) ==                           \* a jump that is unknown is none
    (IF r.change = "major" THEN {"major"} ELSE {})
      \cup (IF r.change \in {"minor", "downgrade"} /\ r.delta.known /\ Jump(r.delta) >= minDelta
            THEN {IF r.change = "minor" THEN "upgrade" ELSE "downgrade"} ELSE {})
      \cup (IF r.asn = "changed" THEN {"asn"} ELSE {})
      \cup (IF r.ipChanged /\ r.asn = "unknown" THEN {"asn_unknown"} ELSE {})
RowKinds(r, minDelta) ==
    (IF r.change = "major" THEN {"major"} ELSE {})
      \cup (IF /\ r.change \in {"minor", "downgrade"}
               /\ minDelta <= 1 \/ (r.delta.known /\ Jump(r.delta) >= minDelta)
            THEN {IF r.change = "minor" THEN "upgrade" ELSE "downgrade"} ELSE {})
      \cup (IF r.asn = "changed" THEN {"asn"} ELSE {})
      \cup (IF r.ipChanged /\ r.asn = "unknown" THEN {"asn_unknown"} ELSE {})

Matches(r, selected, combine, minDelta) ==
    IF combine THEN selected # {} /\ selected \subseteq RowKinds(r, minDelta)
    ELSE selected \cap RowKinds(r, minDelta) # {}

Shown(selected, combine, minDelta) ==
    {i \in DOMAIN rows : IsChange(rows[i]) /\ Matches(rows[i], selected, combine, minDelta)}

-----------------------------------------------------------------------------
(* Properties *)

\* The two computations agree on what an analyst is to open first: the downgrades,
\* the jumps of two major versions, and the ASN changes of an account number the
\* same in the batch table and on its page, whatever accounts came before.
BadgesAgree ==
    /\ flags.downgrade = Cardinality({i \in DOMAIN rows : rows[i].change = "downgrade"})
    /\ flags.asn = Cardinality({i \in DOMAIN rows : rows[i].asn = "changed"})
    /\ flags.jump = Cardinality(Shown({"upgrade", "downgrade"}, FALSE, BatchThreshold))

\* The table never shows fewer changes than the page: of user agents, and of user
\* agent and ASN at once. (It may show more: a string that differs and parses to
\* the same is a change in the table only.)
BadgesCover ==
    /\ Cardinality({i \in DOMAIN rows : rows[i].change \in {"minor", "major"}}) <= flags.other
    /\ Cardinality({i \in DOMAIN rows : rows[i].change # "none" /\ rows[i].asn = "changed"})
         <= flags.both

\* Without a filter the section lists every change, and narrowing the filter by a
\* higher threshold, or by asking for all kinds at once, never adds one.
FiltersNarrow ==
    /\ Shown(AllKinds, FALSE, 1) = {i \in DOMAIN rows : IsChange(rows[i])}
    /\ \A selected \in SUBSET AllKinds, minDelta \in 1 .. 5 :
         /\ Shown(selected, TRUE, minDelta) \subseteq Shown(selected, FALSE, minDelta)
         /\ Shown(selected, FALSE, minDelta + 1) \subseteq Shown(selected, FALSE, minDelta)

\* A version that went down at some point shows: along rows that report neither a
\* downgrade nor another browser, system or device, no version is lower at the
\* end than at any moment before (ua.py:33, "a spoofing signal an analyst wants
\* to see").
NoSilentReturn ==
    \A i, j \in DOMAIN rows :
      i < j /\ (\A k \in i + 1 .. j : rows[k].change \in {"none", "minor"}) =>
        \A p \in ParseOf[rows[i].ua], c \in ParseOf[rows[j].ua] :
          ~Less(c.major.nums, p.major.nums) /\ ~Less(c.version.nums, p.version.nums)
=============================================================================

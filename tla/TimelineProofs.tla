--------------------------- MODULE TimelineProofs ---------------------------
(***************************************************************************)
(* Theorems about Timeline, for any user agents, addresses and number of   *)
(* events: types, that no version comes back unseen, and that the badges   *)
(* of the batch table agree with the account's page.                       *)
(***************************************************************************)
EXTENDS Timeline, FiniteSetTheorems, WellFoundedInduction, TLAPS

-----------------------------------------------------------------------------
(* The order of versions *)

LEMMA LeastMember ==
  ASSUME NEW T \in SUBSET Nat, T # {}
  PROVE  \E x \in T : \A y \in T : x <= y
<1> DEFINE R == OpToRel(<, Nat)
<1>1. IsWellFoundedOn(R, Nat)
  BY NatLessThanWellFounded
<1>2. \A x, y \in Nat : x < y => <<x, y>> \in R
  BY DEF OpToRel
<1> HIDE DEF R
<1>3. PICK x \in T : \A y \in T : <<y, x>> \notin R
  BY <1>1, WFMin
<1>4. ASSUME NEW y \in T  PROVE x <= y
  <2>1. x \in Nat /\ y \in Nat
    OBVIOUS
  <2>2. ~(y < x)
    BY <2>1, <1>2, <1>3
  <2> QED
    BY <2>1, <2>2
<1> QED
  BY <1>4

\* What is not below something is not below anything under it: at the first place
\* where b differs from a, or else at the place where c does, one of them is below.
LEMMA NotLessTransitive ==
  ASSUME NEW a \in Seq(Nat), NEW b \in Seq(Nat), NEW c \in Seq(Nat),
         ~Less(b, a), ~Less(c, b)
  PROVE  ~Less(c, a)
<1> SUFFICES ASSUME Less(c, a) PROVE FALSE
  OBVIOUS
<1>1. PICK i \in DOMAIN a :
        /\ \A j \in 1 .. i - 1 : j \in DOMAIN c /\ c[j] = a[j]
        /\ i \in DOMAIN c => c[i] < a[i]
  BY DEF Less
<1>2. i \in Nat /\ i >= 1 /\ \A j \in 1 .. i : j \in DOMAIN a
  OBVIOUS
<1> DEFINE Other == {j \in 1 .. i : ~(j \in DOMAIN b /\ b[j] = a[j])}
<1>3. CASE Other = {}
  <2>1. \A j \in 1 .. i : j \in DOMAIN b /\ b[j] = a[j]
    BY <1>3
  <2>2. Less(c, b)
    BY <1>1, <1>2, <2>1 DEF Less
  <2> QED
    BY <2>2
<1>4. CASE Other # {}
  <2>1. Other \in SUBSET Nat
    BY <1>2
  <2>2. PICK j \in Other : \A k \in Other : j <= k
    BY <2>1, <1>4, LeastMember
  <2>3. j \in 1 .. i /\ ~(j \in DOMAIN b /\ b[j] = a[j])
    BY <2>2
  <2>4. \A k \in 1 .. j - 1 : k \in DOMAIN b /\ b[k] = a[k]
    BY <1>2, <2>2, <2>3
  <2> HIDE DEF Other
  <2>5. CASE j \in DOMAIN b => b[j] < a[j]
    <3>1. Less(b, a)
      BY <1>2, <2>3, <2>4, <2>5 DEF Less
    <3> QED
      BY <3>1
  <2>6. CASE j \in DOMAIN b /\ ~(b[j] < a[j])
    <3>1. a[j] \in Nat /\ b[j] \in Nat /\ a[j] < b[j]
      BY <1>2, <2>3, <2>6
    <3>2. \A k \in 1 .. j - 1 : k \in DOMAIN c /\ c[k] = b[k]
      BY <1>1, <1>2, <2>3, <2>4
    <3>3. j \in DOMAIN c => c[j] < b[j]
      <4>1. CASE j = i
        <5>1. j \in DOMAIN c => c[j] \in Nat
          OBVIOUS
        <5> QED
          BY <1>1, <4>1, <3>1, <5>1
      <4>2. CASE j # i
        <5>1. j \in 1 .. i - 1
          BY <1>2, <2>3, <4>2
        <5>2. c[j] = a[j]
          BY <1>1, <5>1
        <5> QED
          BY <3>1, <5>2
      <4> QED
        BY <4>1, <4>2
    <3>4. Less(c, b)
      BY <2>6, <3>2, <3>3 DEF Less
    <3> QED
      BY <3>4
  <2> QED
    BY <2>5, <2>6
<1> QED
  BY <1>3, <1>4
-----------------------------------------------------------------------------
(* Types *)

LEMMA UaChangeType ==
  ASSUME NEW prev, NEW cur
  PROVE  UaChange(prev, cur) \in {"none", "minor", "downgrade", "major"}
BY DEF UaChange

LEMMA ParseFacts ==
  ASSUME NEW ua \in Uas, NEW p \in ParseOf[ua]
  PROVE  /\ p.families \in STRING \X STRING \X STRING
         /\ p.major.nums \in Seq(Nat) /\ p.version.nums \in Seq(Nat)
         /\ p.major.nums[1] \in Int
         /\ p.major.plain \in BOOLEAN
         /\ ParseOf[ua] = {p} /\ (CHOOSE q \in ParseOf[ua] : TRUE) = p
<1>1. p \in Parsed /\ \A q \in ParseOf[ua] : q = p
  BY ParseAssumption
<1>2. p.major \in Version /\ p.version \in Version /\ p.families \in STRING \X STRING \X STRING
  BY <1>1 DEF Parsed
<1>3. p.major.nums \in Seq(Nat) /\ p.version.nums \in Seq(Nat) /\ p.major.plain \in BOOLEAN
  BY <1>2 DEF Version
<1>4. p.major.nums # <<>>
  BY NumberAssumption
<1>5. p.major.nums[1] \in Int
  BY <1>3, <1>4
<1>6. ParseOf[ua] = {p}
  BY <1>1
<1> QED
  BY <1>2, <1>3, <1>5, <1>6

LEMMA MajorDeltaType ==
  ASSUME NEW u \in Uas, NEW v \in Uas
  PROVE  MajorDelta(ParseOf[u], ParseOf[v]) \in Delta
<1>1. CASE \E p \in ParseOf[u], c \in ParseOf[v] :
              p.families[1] = c.families[1] /\ p.major.plain /\ c.major.plain
  <2>1. PICK p \in ParseOf[u], c \in ParseOf[v] : TRUE
    BY <1>1
  <2>2. MajorDelta(ParseOf[u], ParseOf[v]) = [known |-> TRUE, by |-> c.major.nums[1] - p.major.nums[1]]
    BY <1>1, ParseFacts DEF MajorDelta
  <2>3. c.major.nums[1] \in Int /\ p.major.nums[1] \in Int
    BY ParseFacts
  <2> QED
    BY <2>2, <2>3 DEF Delta
<1>2. CASE ~(\E p \in ParseOf[u], c \in ParseOf[v] :
              p.families[1] = c.families[1] /\ p.major.plain /\ c.major.plain)
  <2>1. MajorDelta(ParseOf[u], ParseOf[v]) = NoDelta
    BY <1>2 DEF MajorDelta
  <2> QED
    BY <2>1 DEF NoDelta, Delta
<1> QED
  BY <1>1, <1>2

LEMMA FirstRowType ==
  ASSUME NEW ua \in Uas
  PROVE  FirstRow(ua) \in Row
BY DEF FirstRow, Row, Delta, NoDelta

LEMMA ViewRowType ==
  ASSUME TypeOK, NEW ip \in Ips, NEW ua \in Uas
  PROVE  ViewRow(ip, ua) \in Row
<1>1. view.ua \in Uas /\ view.ip \in Ips
  BY DEF TypeOK
<1>2. ViewChange(view.ua, ua) \in {"none", "minor", "downgrade", "major"}
  BY UaChangeType DEF ViewChange
<1>3. AsnChange(view.ip, ip) \in {"changed", "same", "unknown"}
  BY DEF AsnChange
<1>4. MajorDelta(ParseOf[view.ua], ParseOf[ua]) \in Delta /\ NoDelta \in Delta
  BY <1>1, MajorDeltaType DEF NoDelta, Delta
<1> QED
  BY <1>2, <1>3, <1>4 DEF ViewRow, Row

\* The row the next event appends.
NewRow(ip, ua) == IF rows = <<>> THEN FirstRow(ua) ELSE ViewRow(ip, ua)

LEMMA NewRowType ==
  ASSUME TypeOK, NEW ip \in Ips, NEW ua \in Uas
  PROVE  NewRow(ip, ua) \in Row
BY FirstRowType, ViewRowType DEF NewRow

LEMMA CountedType ==
  ASSUME TypeOK, NEW ip, NEW ua
  PROVE  Counted(ip, ua) \in Flags
<1>1. /\ flags.downgrade \in Nat /\ flags.other \in Nat /\ flags.asn \in Nat
      /\ flags.both \in Nat /\ flags.jump \in Nat
  BY DEF TypeOK, Flags
<1> QED
  BY <1>1 DEF Counted, Flags

LEMMA InitTyped == Init => TypeOK
<1> SUFFICES ASSUME Init PROVE TypeOK
  OBVIOUS
<1>1. PICK ip \in Ips, ua \in Uas : view = [ip |-> ip, ua |-> ua]
  BY DEF Init
<1>2. walk = [ip |-> ip, ua |-> ua, started |-> FALSE]
  BY <1>1 DEF Init
<1> QED
  BY <1>1, <1>2 DEF Init, TypeOK, NoFlags, Flags

LEMMA NextTyped == TypeOK /\ [Next]_vars => TypeOK'
<1> SUFFICES ASSUME TypeOK, [Next]_vars PROVE TypeOK'
  OBVIOUS
<1>1. CASE NextAccount
  <2>1. walk' \in [ip : Ips, ua : Uas, started : BOOLEAN]
    BY <1>1 DEF NextAccount, Started, TypeOK
  <2> QED
    BY <1>1, <2>1 DEF NextAccount, TypeOK, NoFlags, Flags
<1>2. ASSUME NEW ip \in Ips, NEW ua \in Uas, Event(ip, ua) PROVE TypeOK'
  <2>1. rows' = Append(rows, NewRow(ip, ua)) /\ rows \in Seq(Row)
    BY <1>2 DEF Event, NewRow, TypeOK
  <2>2. rows' \in Seq(Row)
    BY <2>1, NewRowType
  <2>3. flags' \in Flags
    BY <1>2, CountedType DEF Event, TypeOK
  <2> QED
    BY <1>2, <2>2, <2>3 DEF Event, TypeOK
<1>3. CASE UNCHANGED vars
  BY <1>3 DEF vars, TypeOK
<1> QED
  BY <1>1, <1>2, <1>3 DEF Next

\* Every variable keeps its type whatever the parser and the lookups said: in
\* particular a jump is a number wherever it is known (major_delta never raises).
THEOREM TypeCorrect == Spec => []TypeOK
<1> QED
  BY InitTyped, NextTyped, PTL DEF Spec

-----------------------------------------------------------------------------
(* No version comes back unseen *)

NotBelow(c, p) == ~Less(c.major.nums, p.major.nums) /\ ~Less(c.version.nums, p.version.nums)

LEMMA LessIrreflexive ==
  ASSUME NEW a \in Seq(Nat)
  PROVE  ~Less(a, a)
BY DEF Less

\* One row that reports no downgrade and no other family is no step down, and its
\* string is not the first that parses.
LEMMA StepUp ==
  ASSUME NEW u \in Uas, NEW v \in Uas, ViewChange(u, v) \in {"none", "minor"},
         NEW c \in ParseOf[v]
  PROVE  /\ \E p \in ParseOf[u] : TRUE
         /\ \A p \in ParseOf[u] : NotBelow(c, p)
<1>1. CASE u = v \/ ParseOf[u] = ParseOf[v]
  <2>1. ParseOf[u] = {c}
    BY <1>1, ParseFacts
  <2>2. c.major.nums \in Seq(Nat) /\ c.version.nums \in Seq(Nat)
    BY ParseFacts
  <2>3. NotBelow(c, c)
    BY <2>2, LessIrreflexive DEF NotBelow
  <2> QED
    BY <2>1, <2>3
<1>2. CASE u # v /\ ParseOf[u] # ParseOf[v]
  <2>1. ParseOf[u] # {}
    BY <1>2 DEF ViewChange, UaChange
  <2>2. PICK p \in ParseOf[u] : TRUE
    BY <2>1
  <2>3. ParseOf[u] = {p} /\ ParseOf[v] = {c}
    BY ParseFacts
  <2>4. (CHOOSE q \in ParseOf[u] : TRUE) = p /\ (CHOOSE q \in ParseOf[v] : TRUE) = c
    BY ParseFacts
  <2>5. UaChange(ParseOf[u], ParseOf[v]) \in {"none", "minor"}
    BY <1>2 DEF ViewChange
  <2>6. NotBelow(c, p)
    BY <1>2, <2>3, <2>4, <2>5 DEF UaChange, NotBelow
  <2> QED
    BY <2>3, <2>6
<1> QED
  BY <1>1, <1>2

NotBelowBetween(i, j) ==
    (\A k \in i + 1 .. j : rows[k].change \in {"none", "minor"}) =>
      \A p \in ParseOf[rows[i].ua], c \in ParseOf[rows[j].ua] : NotBelow(c, p)

\* The view's prev_ua is that of the last row.
LastUa == rows # <<>> => view.ua = rows[Len(rows)].ua

ReturnInv == TypeOK /\ LastUa /\ \A i, j \in DOMAIN rows : i < j => NotBelowBetween(i, j)

LEMMA ReturnStep ==
  ASSUME ReturnInv, NEW ip \in Ips, NEW ua \in Uas, Event(ip, ua),
         NEW i \in DOMAIN rows', NEW j \in DOMAIN rows', i < j
  PROVE  NotBelowBetween(i, j)'
<1> DEFINE n == Len(rows)
<1>1. rows \in Seq(Row) /\ NewRow(ip, ua) \in Row /\ n \in Nat
  BY NewRowType DEF ReturnInv, TypeOK
<1>2. rows' = Append(rows, NewRow(ip, ua))
  BY DEF Event, NewRow
<1>3. /\ Len(rows') = n + 1 /\ rows'[n + 1] = NewRow(ip, ua)
      /\ \A k \in 1 .. n : rows'[k] = rows[k]
      /\ DOMAIN rows' = 1 .. n + 1 /\ DOMAIN rows = 1 .. n
  BY <1>1, <1>2
<1> HIDE DEF n
<1>4. i \in 1 .. n /\ j \in 1 .. n + 1
  BY <1>1, <1>3
<1> SUFFICES ASSUME \A k \in i + 1 .. j : rows'[k].change \in {"none", "minor"},
                    NEW p \in ParseOf[rows'[i].ua], NEW c \in ParseOf[rows'[j].ua]
             PROVE  NotBelow(c, p)
  BY DEF NotBelowBetween, NotBelow
<1>5. p \in ParseOf[rows[i].ua]
  BY <1>3, <1>4
<1>6. CASE j \in 1 .. n
  <2>1. \A k \in i + 1 .. j : k \in 1 .. n
    BY <1>1, <1>4, <1>6
  <2>2. \A k \in i + 1 .. j : rows[k].change \in {"none", "minor"}
    BY <2>1, <1>3
  <2>3. c \in ParseOf[rows[j].ua]
    BY <1>3, <1>6
  <2> QED
    BY <1>3, <1>4, <1>5, <1>6, <2>2, <2>3 DEF ReturnInv, NotBelowBetween
<1>7. CASE j = n + 1
  <2>1. rows # <<>> /\ n \in 1 .. n /\ rows[n] \in Row
    BY <1>1, <1>3, <1>4 DEF n
  <2>2. view.ua = rows[n].ua /\ view.ua \in Uas
    BY <2>1 DEF ReturnInv, LastUa, TypeOK, n
  <2>3. rows'[j] = ViewRow(ip, ua)
    BY <1>3, <1>7, <2>1 DEF NewRow
  <2>4. rows'[j].ua = ua /\ rows'[j].change = ViewChange(view.ua, ua)
    BY <2>3 DEF ViewRow
  <2>5. j \in i + 1 .. j
    BY <1>1, <1>4, <1>7
  <2>6. ViewChange(view.ua, ua) \in {"none", "minor"} /\ c \in ParseOf[ua]
    BY <2>4, <2>5
  <2>7. PICK m \in ParseOf[rows[n].ua] : NotBelow(c, m)
    BY <2>2, <2>6, StepUp
  <2>8. CASE i = n
    <3>1. \A q \in ParseOf[rows[n].ua] : NotBelow(c, q)
      BY <2>2, <2>6, StepUp
    <3> QED
      BY <3>1, <1>5, <2>8
  <2>9. CASE i # n
    <3>1. i < n
      BY <1>1, <1>4, <2>9
    <3>2. \A k \in i + 1 .. n : k \in 1 .. n /\ k \in i + 1 .. j
      BY <1>1, <1>4, <1>7
    <3>3. \A k \in i + 1 .. n : rows[k].change \in {"none", "minor"}
      BY <3>2, <1>3
    <3>4. NotBelow(m, p)
      <4>1. NotBelowBetween(i, n)
        BY <1>3, <1>4, <2>1, <3>1 DEF ReturnInv
      <4> QED
        BY <4>1, <1>5, <2>7, <3>3 DEF NotBelowBetween
    <3>5. rows[i].ua \in Uas /\ rows[n].ua \in Uas
      <4>1. rows[i] \in Row
        BY <1>1, <1>3, <1>4
      <4> QED
        BY <4>1, <2>1 DEF Row
    <3>6. /\ p.major.nums \in Seq(Nat) /\ p.version.nums \in Seq(Nat)
          /\ m.major.nums \in Seq(Nat) /\ m.version.nums \in Seq(Nat)
          /\ c.major.nums \in Seq(Nat) /\ c.version.nums \in Seq(Nat)
      BY <1>5, <2>6, <2>7, <3>5, ParseFacts
    <3>7. ~Less(c.major.nums, p.major.nums)
      BY <2>7, <3>4, <3>6, NotLessTransitive DEF NotBelow
    <3>8. ~Less(c.version.nums, p.version.nums)
      BY <2>7, <3>4, <3>6, NotLessTransitive DEF NotBelow
    <3> QED
      BY <3>7, <3>8 DEF NotBelow
  <2> QED
    BY <2>8, <2>9
<1> QED
  BY <1>1, <1>4, <1>6, <1>7

LEMMA LastUaStep ==
  ASSUME TypeOK, NEW ip \in Ips, NEW ua \in Uas, Event(ip, ua)
  PROVE  LastUa'
<1>1. rows \in Seq(Row) /\ NewRow(ip, ua) \in Row
  BY NewRowType DEF TypeOK
<1>2. rows' = Append(rows, NewRow(ip, ua)) /\ view' = [ip |-> ip, ua |-> ua]
  BY DEF Event, NewRow
<1>3. rows'[Len(rows')] = NewRow(ip, ua)
  BY <1>1, <1>2
<1>4. NewRow(ip, ua).ua = ua
  BY DEF NewRow, FirstRow, ViewRow
<1> QED
  BY <1>2, <1>3, <1>4 DEF LastUa

LEMMA ReturnNext == ReturnInv /\ [Next]_vars => ReturnInv'
<1> SUFFICES ASSUME ReturnInv, [Next]_vars PROVE ReturnInv'
  OBVIOUS
<1>1. TypeOK /\ TypeOK'
  BY NextTyped DEF ReturnInv
<1>2. CASE NextAccount
  <2>1. rows' = <<>>
    BY <1>2 DEF NextAccount
  <2>2. DOMAIN rows' = {}
    BY <2>1
  <2> QED
    BY <1>1, <2>1, <2>2 DEF ReturnInv, LastUa
<1>3. ASSUME NEW ip \in Ips, NEW ua \in Uas, Event(ip, ua) PROVE ReturnInv'
  <2>1. LastUa'
    BY <1>1, <1>3, LastUaStep
  <2>2. \A i, j \in DOMAIN rows' : i < j => NotBelowBetween(i, j)'
    BY <1>3, ReturnStep
  <2> QED
    BY <1>1, <2>1, <2>2 DEF ReturnInv
<1>4. CASE UNCHANGED vars
  BY <1>1, <1>4 DEF vars, ReturnInv, LastUa, NotBelowBetween
<1> QED
  BY <1>2, <1>3, <1>4 DEF Next

\* A version that went up and came back shows on the account's page: along rows
\* without a downgrade or a change of family none ends below where it has been, for
\* any strings, parser and number of events (ua_change compares neighbours only).
THEOREM ReturnsShow == Spec => []NoSilentReturn
<1>1. Init => ReturnInv
  <2> SUFFICES ASSUME Init PROVE ReturnInv
    OBVIOUS
  <2>1. rows = <<>> /\ DOMAIN rows = {}
    BY DEF Init
  <2> QED
    BY <2>1, InitTyped DEF ReturnInv, LastUa
<1>2. ReturnInv => NoSilentReturn
  BY DEF ReturnInv, NoSilentReturn, NotBelowBetween, NotBelow
<1> QED
  BY <1>1, <1>2, ReturnNext, PTL DEF Spec

-----------------------------------------------------------------------------
(* The badges and the page agree *)

Down(rs)    == {i \in DOMAIN rs : rs[i].change = "downgrade"}
AsnMoved(rs) == {i \in DOMAIN rs : rs[i].asn = "changed"}
Jumped(r)   == r.change \in {"minor", "downgrade"} /\ r.delta.known /\ Jump(r.delta) >= BatchThreshold
Jumps(rs)   == {i \in DOMAIN rs : Jumped(rs[i])}

LEMMA CountOneMore ==
  ASSUME NEW n \in Nat, NEW S \in SUBSET (1 .. n)
  PROVE  Cardinality(S) \in Nat /\ Cardinality(S \cup {n + 1}) = Cardinality(S) + 1
<1>1. IsFiniteSet(1 .. n)
  BY FS_Interval
<1>2. IsFiniteSet(S)
  BY <1>1, FS_Subset
<1>3. n + 1 \notin S
  OBVIOUS
<1> QED
  BY <1>2, <1>3, FS_AddElement, FS_CardinalityType

LEMMA Appended ==
  ASSUME NEW rs \in Seq(Row), NEW r \in Row
  PROVE  LET n == Len(rs)
             more == Append(rs, r)
         IN  /\ Down(rs) \in SUBSET (1 .. n) /\ AsnMoved(rs) \in SUBSET (1 .. n)
             /\ Jumps(rs) \in SUBSET (1 .. n)
             /\ Down(more) = IF r.change = "downgrade" THEN Down(rs) \cup {n + 1} ELSE Down(rs)
             /\ AsnMoved(more) = IF r.asn = "changed" THEN AsnMoved(rs) \cup {n + 1} ELSE AsnMoved(rs)
             /\ Jumps(more) = IF Jumped(r) THEN Jumps(rs) \cup {n + 1} ELSE Jumps(rs)
<1> DEFINE n == Len(rs)
           more == Append(rs, r)
<1>1. /\ n \in Nat /\ DOMAIN rs = 1 .. n /\ DOMAIN more = 1 .. n + 1
      /\ more[n + 1] = r /\ \A i \in 1 .. n : more[i] = rs[i]
  OBVIOUS
<1> HIDE DEF n, more
<1>2. 1 .. n + 1 = (1 .. n) \cup {n + 1}
  BY <1>1
<1>3. Down(more) = IF r.change = "downgrade" THEN Down(rs) \cup {n + 1} ELSE Down(rs)
  BY <1>1, <1>2 DEF Down
<1>4. AsnMoved(more) = IF r.asn = "changed" THEN AsnMoved(rs) \cup {n + 1} ELSE AsnMoved(rs)
  BY <1>1, <1>2 DEF AsnMoved
<1>5. Jumps(more) = IF Jumped(r) THEN Jumps(rs) \cup {n + 1} ELSE Jumps(rs)
  BY <1>1, <1>2 DEF Jumps
<1>6. /\ Down(rs) \in SUBSET (1 .. n) /\ AsnMoved(rs) \in SUBSET (1 .. n)
      /\ Jumps(rs) \in SUBSET (1 .. n)
  BY <1>1 DEF Down, AsnMoved, Jumps
<1> QED
  BY <1>3, <1>4, <1>5, <1>6 DEF n, more

\* At the table's threshold the filter for upgrades and downgrades shows the jumps.
LEMMA ShownIsJumps ==
  ASSUME rows \in Seq(Row)
  PROVE  Shown({"upgrade", "downgrade"}, FALSE, BatchThreshold) = Jumps(rows)
<1>1. ASSUME NEW r \in Row
      PROVE  IsChange(r) /\ Matches(r, {"upgrade", "downgrade"}, FALSE, BatchThreshold) <=> Jumped(r)
  <2> DEFINE Kinds == RowKinds(r, BatchThreshold)
  <2>1. "upgrade" \in Kinds <=> r.change = "minor" /\ Jumped(r)
    BY DEF RowKinds, Jumped, BatchThreshold
  <2>2. "downgrade" \in Kinds <=> r.change = "downgrade" /\ Jumped(r)
    BY DEF RowKinds, Jumped, BatchThreshold
  <2>3. Matches(r, {"upgrade", "downgrade"}, FALSE, BatchThreshold)
          <=> "upgrade" \in Kinds \/ "downgrade" \in Kinds
    BY DEF Matches
  <2>4. Jumped(r) => r.change \in {"minor", "downgrade"} /\ IsChange(r)
    BY DEF Jumped, IsChange
  <2> QED
    BY <2>1, <2>2, <2>3, <2>4
<1>2. \A i \in DOMAIN rows : rows[i] \in Row
  OBVIOUS
<1> QED
  BY <1>1, <1>2 DEF Shown, Jumps

\* The walk stands where the view stands.
Walking ==
    IF rows = <<>> THEN ~walk.started
    ELSE walk.started /\ walk.ip = view.ip /\ walk.ua = view.ua

BadgesInv ==
    /\ TypeOK /\ Walking
    /\ flags.downgrade = Cardinality(Down(rows))
    /\ flags.asn = Cardinality(AsnMoved(rows))
    /\ flags.jump = Cardinality(Jumps(rows))

LEMMA SameVerdicts ==
  ASSUME NEW ip \in Ips, NEW ua \in Uas, BadgesInv, rows # <<>>
  PROVE  /\ Counted(ip, ua).downgrade
               = flags.downgrade + (IF ViewRow(ip, ua).change = "downgrade" THEN 1 ELSE 0)
         /\ Counted(ip, ua).asn = flags.asn + (IF ViewRow(ip, ua).asn = "changed" THEN 1 ELSE 0)
         /\ Counted(ip, ua).jump = flags.jump + (IF Jumped(ViewRow(ip, ua)) THEN 1 ELSE 0)
<1> DEFINE r == ViewRow(ip, ua)
           delta == MajorDelta(ParseOf[view.ua], ParseOf[ua])
<1>1. walk.ip = view.ip /\ walk.ua = view.ua /\ view.ip \in Ips /\ view.ua \in Uas
  BY DEF BadgesInv, Walking, TypeOK
<1>2. r.change = ViewChange(view.ua, ua) /\ r.asn = AsnChange(view.ip, ip)
  BY DEF ViewRow
<1>3. r.change \in {"minor", "downgrade"} => r.delta = delta
  BY DEF ViewRow
<1>4. /\ BatchChange(walk.ua, ua) = "minor" <=> r.change = "minor"
      /\ BatchChange(walk.ua, ua) = "downgrade" <=> r.change = "downgrade"
  BY <1>1, <1>2, UaChangeType DEF BatchChange, ViewChange
<1>5. r.asn = "changed" <=>
        ip # walk.ip /\ AsnOf[walk.ip] # 0 /\ AsnOf[ip] # 0 /\ AsnOf[walk.ip] # AsnOf[ip]
  BY <1>1, <1>2 DEF AsnChange
<1>6. Jump(delta) >= BatchThreshold => delta.known
  BY DEF MajorDelta, NoDelta, Jump, BatchThreshold
<1>7. Jumped(r) <=> /\ BatchChange(walk.ua, ua) \in {"minor", "downgrade"}
                    /\ Jump(delta) >= BatchThreshold
  <2> HIDE DEF r, delta
  <2> QED
    BY <1>3, <1>4, <1>6 DEF Jumped
<1>8. Counted(ip, ua).downgrade
        = flags.downgrade + (IF BatchChange(walk.ua, ua) = "downgrade" THEN 1 ELSE 0)
  BY DEF Counted
<1>9. Counted(ip, ua).asn
        = flags.asn + (IF ip # walk.ip /\ AsnOf[walk.ip] # 0 /\ AsnOf[ip] # 0
                            /\ AsnOf[walk.ip] # AsnOf[ip] THEN 1 ELSE 0)
  BY DEF Counted
<1>10. Counted(ip, ua).jump
         = flags.jump + (IF /\ BatchChange(walk.ua, ua) \in {"minor", "downgrade"}
                            /\ Jump(MajorDelta(ParseOf[walk.ua], ParseOf[ua])) >= BatchThreshold
                         THEN 1 ELSE 0)
  BY DEF Counted
<1> QED
  BY <1>1, <1>4, <1>5, <1>7, <1>8, <1>9, <1>10

LEMMA BadgesStep ==
  ASSUME BadgesInv, NEW ip \in Ips, NEW ua \in Uas, Event(ip, ua), TypeOK'
  PROVE  BadgesInv'
<1> DEFINE r == NewRow(ip, ua)
           n == Len(rows)
<1>1. rows \in Seq(Row) /\ r \in Row /\ n \in Nat
  BY NewRowType DEF BadgesInv, TypeOK
<1>2. /\ rows' = Append(rows, r) /\ view' = [ip |-> ip, ua |-> ua]
      /\ walk' = [ip |-> ip, ua |-> ua, started |-> TRUE]
      /\ flags' = IF walk.started THEN Counted(ip, ua) ELSE flags
  BY DEF Event, NewRow
<1>3. /\ flags'.downgrade = flags.downgrade + (IF r.change = "downgrade" THEN 1 ELSE 0)
      /\ flags'.asn = flags.asn + (IF r.asn = "changed" THEN 1 ELSE 0)
      /\ flags'.jump = flags.jump + (IF Jumped(r) THEN 1 ELSE 0)
  <2>1. CASE rows = <<>>
    <3>1. flags' = flags
      BY <1>2, <2>1 DEF BadgesInv, Walking
    <3>2. r.change = "none" /\ r.asn = "unknown"
      BY <2>1 DEF NewRow, FirstRow
    <3>3. flags.downgrade \in Nat /\ flags.asn \in Nat /\ flags.jump \in Nat
      BY DEF BadgesInv, TypeOK, Flags
    <3> HIDE DEF r
    <3> QED
      BY <3>1, <3>2, <3>3 DEF Jumped
  <2>2. CASE rows # <<>>
    <3>1. flags' = Counted(ip, ua) /\ r = ViewRow(ip, ua)
      BY <1>2, <2>2 DEF BadgesInv, Walking, NewRow
    <3> QED
      BY <3>1, <2>2, SameVerdicts
  <2> QED
    BY <2>1, <2>2
<1> HIDE DEF r
<1>4. /\ Down(rows) \in SUBSET (1 .. n) /\ AsnMoved(rows) \in SUBSET (1 .. n)
      /\ Jumps(rows) \in SUBSET (1 .. n)
      /\ Down(rows') = IF r.change = "downgrade" THEN Down(rows) \cup {n + 1} ELSE Down(rows)
      /\ AsnMoved(rows') = IF r.asn = "changed" THEN AsnMoved(rows) \cup {n + 1} ELSE AsnMoved(rows)
      /\ Jumps(rows') = IF Jumped(r) THEN Jumps(rows) \cup {n + 1} ELSE Jumps(rows)
  BY <1>1, <1>2, Appended
<1> HIDE DEF n
<1>5. flags.downgrade = Cardinality(Down(rows)) /\ flags.asn = Cardinality(AsnMoved(rows))
        /\ flags.jump = Cardinality(Jumps(rows))
  BY DEF BadgesInv
<1>6. flags'.downgrade = Cardinality(Down(rows'))
  <2>1. /\ Cardinality(Down(rows)) \in Nat
        /\ Cardinality(Down(rows) \cup {n + 1}) = Cardinality(Down(rows)) + 1
    BY <1>1, <1>4, CountOneMore
  <2> QED
    BY <1>3, <1>4, <1>5, <2>1
<1>7. flags'.asn = Cardinality(AsnMoved(rows'))
  <2>1. /\ Cardinality(AsnMoved(rows)) \in Nat
        /\ Cardinality(AsnMoved(rows) \cup {n + 1}) = Cardinality(AsnMoved(rows)) + 1
    BY <1>1, <1>4, CountOneMore
  <2> QED
    BY <1>3, <1>4, <1>5, <2>1
<1>8. flags'.jump = Cardinality(Jumps(rows'))
  <2>1. /\ Cardinality(Jumps(rows)) \in Nat
        /\ Cardinality(Jumps(rows) \cup {n + 1}) = Cardinality(Jumps(rows)) + 1
    BY <1>1, <1>4, CountOneMore
  <2> QED
    BY <1>3, <1>4, <1>5, <2>1
<1>9. Walking'
  <2>1. rows' # <<>>
    BY <1>1, <1>2
  <2> QED
    BY <1>2, <2>1 DEF Walking
<1> QED
  BY <1>6, <1>7, <1>8, <1>9 DEF BadgesInv

LEMMA NoRowsNoBadges ==
  ASSUME NEW rs, rs = <<>>
  PROVE  Cardinality(Down(rs)) = 0 /\ Cardinality(AsnMoved(rs)) = 0 /\ Cardinality(Jumps(rs)) = 0
<1>1. Down(rs) = {} /\ AsnMoved(rs) = {} /\ Jumps(rs) = {}
  BY DEF Down, AsnMoved, Jumps
<1> QED
  BY <1>1, FS_EmptySet

LEMMA BadgesNext == BadgesInv /\ [Next]_vars => BadgesInv'
<1> SUFFICES ASSUME BadgesInv, [Next]_vars PROVE BadgesInv'
  OBVIOUS
<1>1. TypeOK /\ TypeOK'
  BY NextTyped DEF BadgesInv
<1>2. CASE NextAccount
  <2>1. rows' = <<>> /\ flags' = NoFlags /\ walk'.started = FALSE
    BY <1>1, <1>2 DEF NextAccount, Started, TypeOK
  <2> QED
    BY <1>1, <2>1, NoRowsNoBadges DEF BadgesInv, Walking, NoFlags
<1>3. ASSUME NEW ip \in Ips, NEW ua \in Uas, Event(ip, ua) PROVE BadgesInv'
  BY <1>1, <1>3, BadgesStep
<1>4. CASE UNCHANGED vars
  BY <1>1, <1>4 DEF vars, BadgesInv, Walking
<1> QED
  BY <1>2, <1>3, <1>4 DEF Next

\* The batch table and the account's page, worked out by two loops, agree on the
\* downgrades, the ASN changes and the jumps of every account, whatever the accounts
\* that the table's walk met before.
THEOREM BadgesDoAgree == Spec => []BadgesAgree
<1>1. Init => BadgesInv
  <2> SUFFICES ASSUME Init PROVE BadgesInv
    OBVIOUS
  <2>1. rows = <<>> /\ flags = NoFlags /\ walk.started = FALSE
    BY DEF Init
  <2> QED
    BY <2>1, InitTyped, NoRowsNoBadges DEF BadgesInv, Walking, NoFlags
<1>2. BadgesInv => BadgesAgree
  BY ShownIsJumps DEF BadgesInv, BadgesAgree, TypeOK, Down, AsnMoved
<1> QED
  BY <1>1, <1>2, BadgesNext, PTL DEF Spec
-----------------------------------------------------------------------------
(* The badges cover the page *)

UaMoved(rs)   == {i \in DOMAIN rs : rs[i].change \in {"minor", "major"}}
BothMoved(rs) == {i \in DOMAIN rs : rs[i].change # "none" /\ rs[i].asn = "changed"}

CoverInv ==
    /\ BadgesInv
    /\ Cardinality(UaMoved(rows)) <= flags.other
    /\ Cardinality(BothMoved(rows)) <= flags.both

LEMMA MovedAppended ==
  ASSUME NEW rs \in Seq(Row), NEW r \in Row
  PROVE  LET n == Len(rs)
             more == Append(rs, r)
         IN  /\ UaMoved(rs) \in SUBSET (1 .. n) /\ BothMoved(rs) \in SUBSET (1 .. n)
             /\ UaMoved(more) = IF r.change \in {"minor", "major"}
                                THEN UaMoved(rs) \cup {n + 1} ELSE UaMoved(rs)
             /\ BothMoved(more) = IF r.change # "none" /\ r.asn = "changed"
                                  THEN BothMoved(rs) \cup {n + 1} ELSE BothMoved(rs)
<1> DEFINE n == Len(rs)
           more == Append(rs, r)
<1>1. /\ n \in Nat /\ DOMAIN rs = 1 .. n /\ DOMAIN more = 1 .. n + 1
      /\ more[n + 1] = r /\ \A i \in 1 .. n : more[i] = rs[i]
  OBVIOUS
<1> HIDE DEF n, more
<1>2. 1 .. n + 1 = (1 .. n) \cup {n + 1}
  BY <1>1
<1>3. UaMoved(more) = IF r.change \in {"minor", "major"}
                      THEN UaMoved(rs) \cup {n + 1} ELSE UaMoved(rs)
  BY <1>1, <1>2 DEF UaMoved
<1>4. BothMoved(more) = IF r.change # "none" /\ r.asn = "changed"
                        THEN BothMoved(rs) \cup {n + 1} ELSE BothMoved(rs)
  BY <1>1, <1>2 DEF BothMoved
<1>5. UaMoved(rs) \in SUBSET (1 .. n) /\ BothMoved(rs) \in SUBSET (1 .. n)
  BY <1>1 DEF UaMoved, BothMoved
<1> QED
  BY <1>3, <1>4, <1>5 DEF n, more

\* Whatever the page takes for a change of user agent, or of that and the ASN at
\* once, the table counts.
LEMMA VerdictsCovered ==
  ASSUME NEW ip \in Ips, NEW ua \in Uas, BadgesInv, rows # <<>>
  PROVE  /\ Counted(ip, ua).other
               >= flags.other + (IF ViewRow(ip, ua).change \in {"minor", "major"} THEN 1 ELSE 0)
         /\ Counted(ip, ua).both
               >= flags.both + (IF /\ ViewRow(ip, ua).change # "none"
                                   /\ ViewRow(ip, ua).asn = "changed" THEN 1 ELSE 0)
<1> DEFINE r == ViewRow(ip, ua)
           change == BatchChange(walk.ua, ua)
           asn == ip # walk.ip /\ AsnOf[walk.ip] # 0 /\ AsnOf[ip] # 0 /\ AsnOf[walk.ip] # AsnOf[ip]
<1>1. /\ walk.ip = view.ip /\ walk.ua = view.ua /\ view.ip \in Ips /\ view.ua \in Uas
      /\ flags.other \in Nat /\ flags.both \in Nat
  BY DEF BadgesInv, Walking, TypeOK, Flags
<1>2. r.change = ViewChange(view.ua, ua) /\ r.asn = AsnChange(view.ip, ip)
  BY DEF ViewRow
<1>3. /\ r.change \in {"minor", "major"} => change \in {"minor", "major"}
      /\ r.change # "none" => change # "none"
  BY <1>1, <1>2, UaChangeType DEF BatchChange, ViewChange
<1>4. r.asn = "changed" <=> asn
  BY <1>1, <1>2 DEF AsnChange
<1>5. /\ Counted(ip, ua).other = flags.other + (IF change \in {"minor", "major"} THEN 1 ELSE 0)
      /\ Counted(ip, ua).both = flags.both + (IF asn /\ change # "none" THEN 1 ELSE 0)
  BY DEF Counted
<1> HIDE DEF r, change, asn
<1>6. /\ Counted(ip, ua).other >= flags.other + (IF r.change \in {"minor", "major"} THEN 1 ELSE 0)
      /\ Counted(ip, ua).both
           >= flags.both + (IF r.change # "none" /\ r.asn = "changed" THEN 1 ELSE 0)
  BY <1>1, <1>3, <1>4, <1>5
<1> QED
  BY <1>6 DEF r

LEMMA CoverStep ==
  ASSUME CoverInv, NEW ip \in Ips, NEW ua \in Uas, Event(ip, ua), TypeOK'
  PROVE  CoverInv'
<1> DEFINE r == NewRow(ip, ua)
           n == Len(rows)
<1>1. rows \in Seq(Row) /\ r \in Row /\ n \in Nat /\ flags.other \in Nat /\ flags.both \in Nat
  BY NewRowType DEF CoverInv, BadgesInv, TypeOK, Flags
<1>2. rows' = Append(rows, r) /\ flags' = IF walk.started THEN Counted(ip, ua) ELSE flags
  BY DEF Event, NewRow
<1>3. flags'.other \in Nat /\ flags'.both \in Nat
  BY DEF TypeOK, Flags
<1>4. /\ flags'.other >= flags.other + (IF r.change \in {"minor", "major"} THEN 1 ELSE 0)
      /\ flags'.both >= flags.both + (IF r.change # "none" /\ r.asn = "changed" THEN 1 ELSE 0)
  <2>1. CASE rows = <<>>
    <3>1. flags' = flags
      BY <1>2, <2>1 DEF CoverInv, BadgesInv, Walking
    <3>2. r.change = "none"
      BY <2>1 DEF NewRow, FirstRow
    <3> HIDE DEF r
    <3> QED
      BY <1>1, <3>1, <3>2
  <2>2. CASE rows # <<>>
    <3>1. flags' = Counted(ip, ua) /\ r = ViewRow(ip, ua)
      BY <1>2, <2>2 DEF CoverInv, BadgesInv, Walking, NewRow
    <3> QED
      BY <3>1, <2>2, VerdictsCovered DEF CoverInv
  <2> QED
    BY <2>1, <2>2
<1> HIDE DEF r
<1>5. /\ UaMoved(rows) \in SUBSET (1 .. n) /\ BothMoved(rows) \in SUBSET (1 .. n)
      /\ UaMoved(rows') = IF r.change \in {"minor", "major"}
                          THEN UaMoved(rows) \cup {n + 1} ELSE UaMoved(rows)
      /\ BothMoved(rows') = IF r.change # "none" /\ r.asn = "changed"
                            THEN BothMoved(rows) \cup {n + 1} ELSE BothMoved(rows)
  BY <1>1, <1>2, MovedAppended
<1> HIDE DEF n
<1>6. Cardinality(UaMoved(rows')) <= flags'.other
  <2>1. /\ Cardinality(UaMoved(rows)) \in Nat
        /\ Cardinality(UaMoved(rows) \cup {n + 1}) = Cardinality(UaMoved(rows)) + 1
    BY <1>1, <1>5, CountOneMore
  <2> QED
    BY <1>1, <1>3, <1>4, <1>5, <2>1 DEF CoverInv
<1>7. Cardinality(BothMoved(rows')) <= flags'.both
  <2>1. /\ Cardinality(BothMoved(rows)) \in Nat
        /\ Cardinality(BothMoved(rows) \cup {n + 1}) = Cardinality(BothMoved(rows)) + 1
    BY <1>1, <1>5, CountOneMore
  <2> QED
    BY <1>1, <1>3, <1>4, <1>5, <2>1 DEF CoverInv
<1>8. BadgesInv'
  BY BadgesStep DEF CoverInv
<1> QED
  BY <1>6, <1>7, <1>8 DEF CoverInv

LEMMA NothingMoved ==
  ASSUME NEW rs, rs = <<>>
  PROVE  Cardinality(UaMoved(rs)) = 0 /\ Cardinality(BothMoved(rs)) = 0
<1>1. UaMoved(rs) = {} /\ BothMoved(rs) = {}
  BY DEF UaMoved, BothMoved
<1> QED
  BY <1>1, FS_EmptySet

LEMMA CoverNext == CoverInv /\ [Next]_vars => CoverInv'
<1> SUFFICES ASSUME CoverInv, [Next]_vars PROVE CoverInv'
  OBVIOUS
<1>1. BadgesInv /\ BadgesInv' /\ TypeOK'
  BY BadgesNext DEF CoverInv, BadgesInv
<1>2. CASE NextAccount
  <2>1. rows' = <<>> /\ flags' = NoFlags
    BY <1>2 DEF NextAccount
  <2> QED
    BY <1>1, <2>1, NothingMoved DEF CoverInv, NoFlags
<1>3. ASSUME NEW ip \in Ips, NEW ua \in Uas, Event(ip, ua) PROVE CoverInv'
  BY <1>1, <1>3, CoverStep
<1>4. CASE UNCHANGED vars
  BY <1>1, <1>4 DEF vars, CoverInv
<1> QED
  BY <1>2, <1>3, <1>4 DEF Next

\* The table never shows fewer changes than the page, of user agents and of user
\* agent and network at once: the two loops differ in one place, a string that
\* differs and parses to the same, and there the table counts more.
THEOREM BadgesDoCover == Spec => []BadgesCover
<1>1. Init => CoverInv
  <2> SUFFICES ASSUME Init PROVE CoverInv
    OBVIOUS
  <2>1. rows = <<>> /\ flags = NoFlags /\ walk.started = FALSE
    BY DEF Init
  <2>2. BadgesInv
    BY <2>1, InitTyped, NoRowsNoBadges DEF BadgesInv, Walking, NoFlags
  <2> QED
    BY <2>1, <2>2, NothingMoved DEF CoverInv, NoFlags
<1>2. CoverInv => BadgesCover
  BY DEF CoverInv, BadgesCover, UaMoved, BothMoved
<1> QED
  BY <1>1, <1>2, CoverNext, PTL DEF Spec

-----------------------------------------------------------------------------
(* The filters of the Changes section *)

\* A higher threshold leaves fewer kinds of a row.
LEMMA FewerKinds ==
  ASSUME NEW r \in Row, NEW m \in 1 .. 5
  PROVE  RowKinds(r, m + 1) \subseteq RowKinds(r, m)
<1>1. r.delta.by \in Int
  BY DEF Row, Delta
<1>2. Jump(r.delta) \in Int
  BY <1>1 DEF Jump
<1>3. Jump(r.delta) >= m + 1 => Jump(r.delta) >= m
  BY <1>2
<1>4. ~(m + 1 <= 1)
  OBVIOUS
<1> QED
  BY <1>3, <1>4 DEF RowKinds

\* Unfiltered, every row that is a change has a kind.
LEMMA EveryChangeHasKind ==
  ASSUME NEW r \in Row
  PROVE  IsChange(r) => Matches(r, AllKinds, FALSE, 1)
<1>1. r.change \in {"none", "minor", "downgrade", "major"}
  BY DEF Row
<1>2. IsChange(r) => \E kind \in AllKinds : kind \in RowKinds(r, 1)
  BY <1>1 DEF IsChange, RowKinds, AllKinds
<1> QED
  BY <1>2 DEF Matches

\* Without a filter the section of the page lists every change, and no narrower
\* filter adds one, whatever the events: the threshold that hides small jumps
\* never hides an unknown one at its lowest setting.
THEOREM FiltersDoNarrow == Spec => []FiltersNarrow
<1>1. TypeOK => FiltersNarrow
  <2> SUFFICES ASSUME TypeOK PROVE FiltersNarrow
    OBVIOUS
  <2>1. \A i \in DOMAIN rows : rows[i] \in Row
    BY DEF TypeOK
  <2>2. Shown(AllKinds, FALSE, 1) = {i \in DOMAIN rows : IsChange(rows[i])}
    BY <2>1, EveryChangeHasKind DEF Shown
  <2>3. ASSUME NEW selected \in SUBSET AllKinds, NEW minDelta \in 1 .. 5
        PROVE  /\ Shown(selected, TRUE, minDelta) \subseteq Shown(selected, FALSE, minDelta)
               /\ Shown(selected, FALSE, minDelta + 1) \subseteq Shown(selected, FALSE, minDelta)
    <3>1. Shown(selected, TRUE, minDelta) \subseteq Shown(selected, FALSE, minDelta)
      BY DEF Shown, Matches
    <3>2. Shown(selected, FALSE, minDelta + 1) \subseteq Shown(selected, FALSE, minDelta)
      BY <2>1, FewerKinds DEF Shown, Matches
    <3> QED
      BY <3>1, <3>2
  <2> QED
    BY <2>2, <2>3 DEF FiltersNarrow
<1> QED
  BY <1>1, TypeCorrect, PTL

=============================================================================

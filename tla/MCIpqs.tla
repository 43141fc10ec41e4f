------------------------------ MODULE MCIpqs ------------------------------
(***************************************************************************)
(* Instances of Ipqs for TLC.                                              *)
(***************************************************************************)
EXTENDS Ipqs, TLC

CONSTANTS a1, a2, i1, i2

Success == [net |-> TRUE, status |-> 200, body |-> "object", success |-> TRUE, words |-> {}]
Refusal(words) == [Success EXCEPT !.success = FALSE, !.words = words]
Lost == [Success EXCEPT !.net = FALSE]

\* One reply of each outcome, and two more ways to be uncharged.
AllReplies ==
    {Success, Refusal({}), Refusal({"key", "unauthorized"}), Refusal({"insufficient", "credit"}),
     Lost, [Success EXCEPT !.body = "text"]}
RaisingReplies == {Success, Refusal({}), Lost, [Success EXCEPT !.body = "other"]}

Symmetric == Permutations(Accounts) \cup Permutations(Ips)
=============================================================================

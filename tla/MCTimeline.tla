----------------------------- MODULE MCTimeline -----------------------------
(***************************************************************************)
(* An instance of Timeline for TLC: user agents that differ in each of the *)
(* ways the classification tells apart.                                    *)
(***************************************************************************)
EXTENDS Timeline, TLC

CONSTANTS i1, i2, i3, u1, u2, u3, u4, u5, u6, u7, u8

Number(n) == [text |-> ToString(n), nums |-> <<n>>, plain |-> TRUE]
Dotted(n, m) == [text |-> ToString(<<n, m>>), nums |-> <<n, m>>, plain |-> FALSE]
Odd(text) == [text |-> text, nums |-> <<0>>, plain |-> FALSE]

Chrome(major, version) ==
    [families |-> <<"Chrome", "Windows", "Other">>, major |-> major, version |-> version]

\* Two addresses of different networks, one of none known.
Asns == i1 :> 64500 @@ i2 :> 64501 @@ i3 :> 0

\* u2 differs from u1 as a string only; u8 is empty.
Parses ==
       u1 :> {Chrome(Number(144), Number(10))}
    @@ u2 :> {Chrome(Number(144), Number(10))}
    @@ u3 :> {Chrome(Number(145), Number(10))}
    @@ u4 :> {Chrome(Number(150), Dotted(10, 1))}
    @@ u5 :> {Chrome(Number(150), Odd("XP"))}
    @@ u6 :> {Chrome(Odd(""), Number(10))}
    @@ u7 :> {[Chrome(Number(144), Number(10)) EXCEPT !.families[2] = "Mac OS X"]}
    @@ u8 :> {}
=============================================================================

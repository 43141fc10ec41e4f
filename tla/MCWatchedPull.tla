--------------------------- MODULE MCWatchedPull ---------------------------
(***************************************************************************)
(* Instances of WatchedPull for TLC.                                       *)
(***************************************************************************)
EXTENDS WatchedPull

ThreeEvents == 1 .. 3
FirstEvent  == {1}
SecondEvent == {2}
=============================================================================

---------------------------- MODULE MCEnrichment ----------------------------
(***************************************************************************)
(* Instances of Enrichment for TLC.                                        *)
(***************************************************************************)
EXTENDS Enrichment, TLC

CONSTANTS p1, p2, i1, i2, r1

\* An address of a registry, and one that no registry has, or a private one.
Unlisted    == [ip \in Ips |-> IF ip = i1 THEN r1 ELSE "unlisted"]
Private     == [ip \in Ips |-> IF ip = i1 THEN r1 ELSE "private"]
=============================================================================

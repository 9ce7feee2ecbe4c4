-------------------------- MODULE MCContentAnalysis --------------------------
(***************************************************************************)
(* Instances of ContentAnalysis for TLC.                                   *)
(***************************************************************************)
EXTENDS ContentAnalysis, FiniteSets, TLC

CONSTANTS s1, s2, u1, u2, r1, r2

\* All submissions belong to one account: withdrawing removes them together.
SharedOwner == [s \in Submissions |-> u1]

Symmetry == Permutations(Submissions)
==============================================================================

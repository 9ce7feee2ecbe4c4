--------------------------- MODULE MCIncidentIndex ---------------------------
(***************************************************************************)
(* Instances of IncidentIndex for TLC.                                     *)
(***************************************************************************)
EXTENDS IncidentIndex, TLC

IndexSymmetry == Permutations(Articles) \cup Permutations(Titles)
==============================================================================

--------------------------- MODULE MCAuthSessions ---------------------------
(***************************************************************************)
(* Instances of AuthSessions for TLC.                                      *)
(***************************************************************************)
EXTENDS AuthSessions, FiniteSets, TLC

Symmetry == Permutations(Requests) \cup Permutations(Passwords)
==============================================================================

--------------------------- MODULE MCContentStorage ---------------------------
(***************************************************************************)
(* ContentStorage on small instances.                                      *)
(***************************************************************************)
EXTENDS ContentStorage

CONSTANTS a, b, w1, w2
===============================================================================

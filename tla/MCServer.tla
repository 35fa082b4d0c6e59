----------------------------- MODULE MCServer -----------------------------
(* Small instances of Server for TLC.  No action or property tells one     *)
(* request from another.                                                   *)
EXTENDS Server, TLC

Symmetry == Permutations(Requests)
=============================================================================

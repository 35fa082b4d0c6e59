----------------------------- MODULE MCSession -----------------------------
(* Small instances of Session for TLC. *)
EXTENDS Session

CONSTANTS MaxOut, MaxErr

MCMaxUnits == [stdout |-> MaxOut, stderr |-> MaxErr]
=============================================================================

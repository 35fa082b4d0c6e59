------------------------------ MODULE Descent ------------------------------
(***************************************************************************)
(* The principle that a natural number cannot fall for ever.  The theorems *)
(* about liveness have it as a premise for the measures they use: it holds *)
(* of every measure, but takes an induction over behaviours, which is      *)
(* beyond the prover.                                                      *)
(***************************************************************************)
EXTENDS Naturals

(* A measure that never grows from some point on stops falling. *)
Descends(m) ==
  [](m \in Nat) => ~(<>[][m' <= m]_m /\ []<><<m' < m>>_m)
=============================================================================

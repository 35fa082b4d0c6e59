----------------------------- MODULE ForkSlots -----------------------------
(***************************************************************************)
(* What --maxforks promises, without how: at most MaxForks requests hold a *)
(* slot at a time, a request is turned away only while every slot is held, *)
(* and a slot is given back by the request that holds it, once.            *)
(***************************************************************************)
EXTENDS Naturals, FiniteSets

CONSTANTS
  Requests,  \* the requests a server sees
  MaxForks   \* the limit; zero means unlimited

VARIABLES
  holders,  \* the requests that hold a slot
  refused   \* the requests turned away

vars == <<holders, refused>>

Full == MaxForks > 0 /\ Cardinality(holders) >= MaxForks

Init == holders = {} /\ refused = {}

Grant(r) ==
  /\ r \notin holders
  /\ ~Full
  /\ holders' = holders \cup {r}
  /\ UNCHANGED refused

Refuse(r) ==
  /\ r \notin holders
  /\ Full
  /\ refused' = refused \cup {r}
  /\ UNCHANGED holders

GiveBack(r) ==
  /\ r \in holders
  /\ holders' = holders \ {r}
  /\ UNCHANGED refused

Next == \E r \in Requests : Grant(r) \/ Refuse(r) \/ GiveBack(r)

Spec == Init /\ [][Next]_vars

=============================================================================

------------------------------- MODULE Server -------------------------------
(***************************************************************************)
(* The requests of one server, which all its listeners share, and the fork *)
(* slots they compete for: serveWebSocket, serveCGI and noteForkCreated /  *)
(* noteForkCompleted (libwebsocketd/http.go), and the launch and the end   *)
(* of a session in accept (handler.go).                                    *)
(*                                                                         *)
(* Each request runs in a goroutine of its own.  What a request is and how *)
(* its checks turn out is chosen freely; Session.tla has the inside of a   *)
(* session, of which this module uses what NothingLeftRunning says of its  *)
(* end: the program has exited or has been sent SIGKILL.                   *)
(***************************************************************************)
EXTENDS Naturals, FiniteSets

CONSTANTS
  Requests,  \* the requests the server sees
  MaxForks   \* --maxforks; zero means unlimited

ASSUME MaxForksOK == MaxForks \in Nat

VARIABLES
  kind,    \* what ServeHTTP finds each request to be
  pc,      \* how far its handler is
  answer,  \* the response it was given
  forks,   \* how many tokens the channel of slots holds
  program  \* the program started for it

vars == <<kind, pc, answer, forks, program>>

(* An upgrade where a command is configured, a path that resolves to a     *)
(* script of --cgidir, or neither: such a request uses no slot.            *)
Kinds == {"upgrade", "script", "other"}

(* Where a handler is between its noteForkCreated and noteForkCompleted. *)
Holding == {"handler", "upgrade", "launch", "session", "cgi", "completed"}

Holders == {r \in Requests : pc[r] \in Holding}

TypeOK ==
  /\ kind \in [Requests -> Kinds]
  /\ pc \in [Requests -> {"mux", "done"} \cup Holding]
  /\ answer \in [Requests -> {"none", "101", "403", "404", "429", "500", "cgi", "other"}]
  /\ forks \in 0..MaxForks
  /\ program \in [Requests -> {"none", "running", "killed", "gone"}]

(* A request that has not come yet is one whose handler has not run yet. *)
Init ==
  /\ kind \in [Requests -> Kinds]
  /\ pc = [r \in Requests |-> "mux"]
  /\ answer = [r \in Requests |-> "none"]
  /\ forks = 0
  /\ program = [r \in Requests |-> "none"]

Goto(r, place) == pc' = [pc EXCEPT ![r] = place]
Reply(r, what) == answer' = [answer EXCEPT ![r] = what]

-----------------------------------------------------------------------------
(* The slots: a buffered channel of MaxForks tokens, or none at all.       *)

SlotFree == MaxForks = 0 \/ forks < MaxForks

NoteForkCreated == forks' = IF MaxForks = 0 THEN forks ELSE forks + 1

(* The default case of the select only logs: it "should never happen". *)
NoteForkCompleted == forks' = IF forks = 0 THEN forks ELSE forks - 1

-----------------------------------------------------------------------------
(* A definition marked "Fault" is not part of the specification: it is the *)
(* definition after it with a mistake the code could have made.            *)

(* Fault: the slot is counted without a look at the limit. *)
TakeSlotUnchecked(r) ==
  /\ pc[r] = "mux"
  /\ NoteForkCreated
  /\ \/ kind[r] = "upgrade" /\ Goto(r, "handler")
     \/ kind[r] = "script" /\ Goto(r, "cgi")
  /\ UNCHANGED <<kind, answer, program>>

TakeSlot(r) ==
  /\ pc[r] = "mux"
  /\ SlotFree
  /\ NoteForkCreated
  /\ \/ kind[r] = "upgrade" /\ Goto(r, "handler")
     \/ kind[r] = "script" /\ Goto(r, "cgi")
  /\ UNCHANGED <<kind, answer, program>>

TurnAway(r) ==
  /\ pc[r] = "mux"
  /\ kind[r] # "other"
  /\ ~SlotFree
  /\ Reply(r, "429")
  /\ Goto(r, "done")
  /\ UNCHANGED <<kind, forks, program>>

ServeOther(r) ==
  /\ pc[r] = "mux"
  /\ kind[r] = "other"
  /\ Reply(r, "other")
  /\ Goto(r, "done")
  /\ UNCHANGED <<kind, forks, program>>

(* Fault: the error path gives the slot back itself, before the defer. *)
ResolveReleases(r) ==
  /\ pc[r] = "handler"
  /\ \/ Goto(r, "upgrade") /\ UNCHANGED <<answer, forks>>
     \/ \E e \in {"404", "500"} : Reply(r, e) /\ Goto(r, "completed") /\ NoteForkCompleted
  /\ UNCHANGED <<kind, program>>

(* NewWebsocketdHandler resolves the client and the script. *)
Resolve(r) ==
  /\ pc[r] = "handler"
  /\ \/ Goto(r, "upgrade") /\ UNCHANGED answer
     \/ \E e \in {"404", "500"} : Reply(r, e) /\ Goto(r, "completed")
  /\ UNCHANGED <<kind, forks, program>>

(* Fault: a refused handshake returns without giving the slot back. *)
UpgradeLeaks(r) ==
  /\ pc[r] = "upgrade"
  /\ \/ Reply(r, "101") /\ Goto(r, "launch")
     \/ Reply(r, "403") /\ Goto(r, "done")
  /\ UNCHANGED <<kind, forks, program>>

(* Upgrade answers for itself when it refuses the origin or the handshake. *)
Upgrade(r) ==
  /\ pc[r] = "upgrade"
  /\ \/ Reply(r, "101") /\ Goto(r, "launch")
     \/ Reply(r, "403") /\ Goto(r, "completed")
  /\ UNCHANGED <<kind, forks, program>>

Launch(r) ==
  /\ pc[r] = "launch"
  /\ \/ Goto(r, "session") /\ program' = [program EXCEPT ![r] = "running"]
     \/ Goto(r, "completed") /\ UNCHANGED program
  /\ UNCHANGED <<kind, answer, forks>>

(* PipeEndpoints has returned. *)
SessionEnds(r) ==
  /\ pc[r] = "session"
  /\ program' = [program EXCEPT ![r] = IF @ = "running" THEN "killed" ELSE @]
  /\ Goto(r, "completed")
  /\ UNCHANGED <<kind, answer, forks>>

(* cgi.Handler starts the script, or fails to ... *)
RunScript(r) ==
  /\ pc[r] = "cgi"
  /\ program[r] = "none"
  /\ program' = [program EXCEPT ![r] = "running"]
  /\ UNCHANGED <<kind, pc, answer, forks>>

(* ... and returns when it has collected it. *)
ScriptEnds(r) ==
  /\ pc[r] = "cgi"
  /\ program[r] \in {"none", "gone"}
  /\ Reply(r, "cgi")
  /\ Goto(r, "completed")
  /\ UNCHANGED <<kind, forks, program>>

(* The deferred noteForkCompleted, on every way out. *)
ReleaseSlot(r) ==
  /\ pc[r] = "completed"
  /\ NoteForkCompleted
  /\ Goto(r, "done")
  /\ UNCHANGED <<kind, answer, program>>

(* A program exits, or a killed one is gone at last. *)
ProgramExits(r) ==
  /\ program[r] \in {"running", "killed"}
  /\ program' = [program EXCEPT ![r] = "gone"]
  /\ UNCHANGED <<kind, pc, answer, forks>>

HandlerStep(r) ==
  \/ TakeSlot(r) \/ TurnAway(r) \/ ServeOther(r)
  \/ Resolve(r) \/ Upgrade(r) \/ Launch(r) \/ SessionEnds(r)
  \/ RunScript(r) \/ ScriptEnds(r)
  \/ ReleaseSlot(r)

Next == \E r \in Requests : HandlerStep(r) \/ ProgramExits(r)

Spec == Init /\ [][Next]_vars

-----------------------------------------------------------------------------
(* Properties.                                                             *)

(* The channel holds one token for each handler between its noteFork-      *)
(* Created and its noteForkCompleted: none leaks on an early return, none  *)
(* is given back twice, and the case that "should never happen" does not.  *)
SlotsMatchHolders == forks = IF MaxForks = 0 THEN 0 ELSE Cardinality(Holders)

(* However requests of both kinds come, fail and end, no more than         *)
(* MaxForks of their programs run that were not sent SIGKILL: the slot of  *)
(* a session is given back after PipeEndpoints, not before.                *)
ProgramsBounded ==
  MaxForks > 0 => Cardinality({r \in Requests : program[r] = "running"}) <= MaxForks

(* What the server promises of --maxforks: a request gets 429 only while   *)
(* every slot is held, and never once it holds one (noteForkCreated).      *)
F == INSTANCE ForkSlots WITH
  holders <- Holders,
  refused <- {r \in Requests : answer[r] = "429"}

ImplementsForkSlots == F!Spec

=============================================================================

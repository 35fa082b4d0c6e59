----------------------------- MODULE UnixSocket -----------------------------
(***************************************************************************)
(* Servers started with the same --unixsocket path, and the file at that   *)
(* path: serveUnixSocket and the Unix side of serve (main.go).  A server   *)
(* is one process; a restart after a crash is another server.  Each action *)
(* is one system call, as the file may change between any two.             *)
(***************************************************************************)
EXTENDS Naturals

CONSTANTS
  Servers,  \* the websocketd processes that are started
  Overlap   \* whether one may be started while another still starts

(* What may be at the path beside the socket of one of the servers: a      *)
(* socket some earlier server left behind is "stale".                      *)
Others == {"none", "file", "stale"}

ASSUME UnixSocketConstantsOK == Servers \cap Others = {} /\ Overlap \in BOOLEAN

VARIABLES
  path,  \* what is at the path: a socket is named for the server that bound it
  pc     \* the next system call of each server

vars == <<path, pc>>

Starting == {"stat", "dial", "remove", "bind", "listen", "chmod"}

TypeOK ==
  /\ path \in Servers \cup Others
  /\ pc \in [Servers -> {"off", "serving", "exited", "crashed"} \cup Starting]

Init ==
  /\ path \in Others
  /\ pc = [p \in Servers |-> "off"]

Goto(p, place) == pc' = [pc EXCEPT ![p] = place]

(* The kernel accepts connections for a socket from listen(2) on. *)
Listening(p) == pc[p] \in {"chmod", "serving"}

Start(p) ==
  /\ pc[p] = "off"
  /\ Overlap \/ \A q \in Servers : pc[q] \notin Starting
  /\ Goto(p, "stat")
  /\ UNCHANGED path

-----------------------------------------------------------------------------
(* A definition marked "Fault" is not part of the specification: it is the *)
(* definition after it with a mistake the code could have made.            *)

(* Fault: whatever is there is taken for a socket. *)
StatAnyFile(p) ==
  /\ pc[p] = "stat"
  /\ Goto(p, IF path = "none" THEN "bind" ELSE "dial")
  /\ UNCHANGED path

Stat(p) ==
  /\ pc[p] = "stat"
  /\ Goto(p, IF path \in {"none", "file"} THEN "bind" ELSE "dial")
  /\ UNCHANGED path

(* Fault: a socket is removed without asking who listens on it. *)
DialNobody(p) ==
  /\ pc[p] = "dial"
  /\ Goto(p, "remove")
  /\ UNCHANGED path

(* Fault: a probe that fails is an error like any other. *)
DialMustSucceed(p) ==
  /\ pc[p] = "dial"
  /\ Goto(p, "exited")
  /\ UNCHANGED path

(* The probe succeeds if a server listens on what is at the path now, and  *)
(* is refused otherwise.  Every error counts as a refusal.                 *)
Dial(p) ==
  /\ pc[p] = "dial"
  /\ Goto(p, IF path \in Servers /\ Listening(path) THEN "exited" ELSE "remove")
  /\ UNCHANGED path

(* The remove takes whatever is at the path by then. *)
Remove(p) ==
  /\ pc[p] = "remove"
  /\ Goto(p, IF path = "none" THEN "exited" ELSE "bind")
  /\ path' = "none"

(* net.Listen binds, which fails if anything is at the path ... *)
Bind(p) ==
  /\ pc[p] = "bind"
  /\ Goto(p, IF path = "none" THEN "listen" ELSE "exited")
  /\ path' = IF path = "none" THEN p ELSE path

(* ... and then listens. *)
Listen(p) ==
  /\ pc[p] = "listen"
  /\ Goto(p, "chmod")
  /\ UNCHANGED path

(* --socketmode.  If it cannot be applied the listener is closed, and the  *)
(* Close of a Unix listener removes what is at its path.                   *)
Chmod(p) ==
  /\ pc[p] = "chmod"
  /\ \/ Goto(p, "serving") /\ UNCHANGED path
     \/ Goto(p, "exited") /\ path' = "none"

(* A signal, a crash, or main's exit when another listener fails: nothing  *)
(* removes the file.                                                       *)
Crash(p) ==
  /\ pc[p] \in Starting \cup {"serving"}
  /\ Goto(p, "crashed")
  /\ UNCHANGED path

Step(p) ==
  \/ Start(p) \/ Stat(p) \/ Dial(p) \/ Remove(p)
  \/ Bind(p) \/ Listen(p) \/ Chmod(p) \/ Crash(p)

Next == \E p \in Servers : Step(p)

Spec == Init /\ [][Next]_vars

-----------------------------------------------------------------------------
(* Properties.                                                             *)

(* No server is left "running but permanently unreachable" (comment of     *)
(* serveUnixSocket): the socket of one that serves is the one at the path. *)
ServingIsReachable == \A p \in Servers : pc[p] = "serving" => path = p

(* A path that is not a socket is never removed, whoever starts, fails and *)
(* crashes there.                                                          *)
FileSurvives == [][path = "file" => path' = "file"]_vars

(* A server refuses to start only if another one listens there, if what is *)
(* there is no socket, or if the mode cannot be set: what a crash leaves   *)
(* behind never stands in the way of the next start.                       *)
RefusalsJustified ==
  [][\A p \in Servers :
       pc[p] # "exited" /\ pc'[p] = "exited" =>
         \/ path = "file"
         \/ pc[p] = "chmod"
         \/ \E q \in Servers \ {p} : Listening(q)]_vars

=============================================================================

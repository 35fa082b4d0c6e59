-------------------------- MODULE UnixSocketProofs --------------------------
(***************************************************************************)
(* Proofs about UnixSocket: as long as no server is started while another  *)
(* one still starts, any number of servers may start, crash and start      *)
(* again at one path, and none of them is ever left unreachable.  The run  *)
(* unix_socket_overlap shows that the condition is needed.  That a plain   *)
(* file is never removed needs no condition.                               *)
(***************************************************************************)
EXTENDS UnixSocket, TLAPS

(* One server starts at a time. *)
OneStarts ==
  \A p, q \in Servers : pc[p] \in Starting /\ pc[q] \in Starting => p = q

(* What a server bound is at the path for as long as it listens there or   *)
(* is about to.                                                            *)
BoundIsThere ==
  \A p \in Servers : pc[p] \in {"listen", "chmod", "serving"} => path = p

(* A server that is past the probe has nobody to take the path from, and   *)
(* what it found at the path is still there.                               *)
NobodyServes ==
  \A p \in Servers :
    pc[p] \in {"remove", "bind"} => \A q \in Servers : pc[q] # "serving"

PathAsFound ==
  \A p \in Servers :
    /\ pc[p] \in {"dial", "remove"} => path \notin {"none", "file"}
    /\ pc[p] = "bind" => path \in {"none", "file"}

Inv ==
  /\ TypeOK
  /\ OneStarts
  /\ BoundIsThere
  /\ NobodyServes
  /\ PathAsFound

LEMMA InitInv == Init => Inv
BY DEF Init, Inv, TypeOK, OneStarts, BoundIsThere, NobodyServes, PathAsFound, Starting

(* Each step keeps the types. *)
LEMMA StepType ==
  ASSUME TypeOK, NEW p \in Servers, Step(p)
  PROVE  TypeOK'
<1> USE DEF TypeOK, Goto, Starting, Others
<1>1. CASE Start(p)
  BY <1>1 DEF Start
<1>2. CASE Stat(p)
  BY <1>2 DEF Stat
<1>3. CASE Dial(p)
  BY <1>3 DEF Dial
<1>4. CASE Remove(p)
  BY <1>4 DEF Remove
<1>5. CASE Bind(p)
  BY <1>5 DEF Bind
<1>6. CASE Listen(p)
  BY <1>6 DEF Listen
<1>7. CASE Chmod(p)
  BY <1>7 DEF Chmod
<1>8. CASE Crash(p)
  BY <1>8 DEF Crash
<1> QED
  BY <1>1, <1>2, <1>3, <1>4, <1>5, <1>6, <1>7, <1>8 DEF Step

(* Each step keeps what the servers know of each other. *)
LEMMA StepInv ==
  ASSUME ~Overlap, Inv, NEW p \in Servers, Step(p)
  PROVE  Inv'
<1>1. TypeOK'
  BY StepType DEF Inv
<1>2. OneStarts' /\ BoundIsThere' /\ NobodyServes' /\ PathAsFound'
  <2> USE UnixSocketConstantsOK
      DEF Inv, TypeOK, OneStarts, BoundIsThere, NobodyServes, PathAsFound, Goto, Starting, Others
  <2>1. CASE Start(p)
    BY <2>1 DEF Start
  <2>2. CASE Stat(p)
    BY <2>2 DEF Stat
  <2>3. CASE Dial(p)
    BY <2>3 DEF Dial, Listening
  <2>4. CASE Remove(p)
    BY <2>4 DEF Remove
  <2>5. CASE Bind(p)
    BY <2>5 DEF Bind
  <2>6. CASE Listen(p)
    BY <2>6 DEF Listen
  <2>7. CASE Chmod(p)
    BY <2>7 DEF Chmod
  <2>8. CASE Crash(p)
    BY <2>8 DEF Crash
  <2> QED
    BY <2>1, <2>2, <2>3, <2>4, <2>5, <2>6, <2>7, <2>8 DEF Step
<1> QED
  BY <1>1, <1>2 DEF Inv

LEMMA NextInv == ~Overlap /\ Inv /\ [Next]_vars => Inv'
<1> SUFFICES ASSUME ~Overlap, Inv, [Next]_vars PROVE Inv'
  OBVIOUS
<1>1. CASE UNCHANGED vars
  BY <1>1 DEF vars, Inv, TypeOK, OneStarts, BoundIsThere, NobodyServes, PathAsFound
<1>2. CASE Next
  BY <1>2, StepInv DEF Next
<1> QED
  BY <1>1, <1>2

LEMMA SpecInv == ASSUME ~Overlap PROVE Spec => []Inv
<1>1. Inv /\ [Next]_vars => Inv'
  BY NextInv
<1> QED
  BY <1>1, InitInv, PTL DEF Spec

-----------------------------------------------------------------------------
(* Theorems.                                                               *)

(* No server is left running at a path that leads elsewhere. *)
THEOREM ServersStayReachable ==
  ASSUME ~Overlap PROVE Spec => []ServingIsReachable
<1>1. Inv => ServingIsReachable
  BY DEF Inv, BoundIsThere, ServingIsReachable
<1> QED
  BY <1>1, SpecInv, PTL

(* Where a file is at the path no server gets past its bind: each has seen *)
(* it there before it could have thought of a probe or a removal.          *)
FileStops ==
  path = "file" => \A p \in Servers : pc[p] \notin {"dial", "remove", "listen", "chmod"}

LEMMA FileStopsInductive == TypeOK /\ FileStops /\ [Next]_vars => FileStops' /\ TypeOK'
<1> SUFFICES ASSUME TypeOK, FileStops, [Next]_vars PROVE FileStops' /\ TypeOK'
  OBVIOUS
<1>1. CASE UNCHANGED vars
  BY <1>1 DEF vars, TypeOK, FileStops
<1>2. ASSUME NEW p \in Servers, Step(p) PROVE FileStops'
  BY <1>2, UnixSocketConstantsOK
  DEF Step, Start, Stat, Dial, Remove, Bind, Listen, Chmod, Crash, Goto, TypeOK,
      FileStops, Starting, Others
<1> QED
  BY <1>1, <1>2, StepType DEF Next

(* A file that is not a socket survives every start, also of servers that  *)
(* start at the same time.                                                 *)
THEOREM FilesSurvive == Spec => FileSurvives
<1>1. Init => TypeOK /\ FileStops
  BY InitInv DEF Init, Inv, FileStops
<1>2. TypeOK /\ FileStops /\ [Next]_vars => (path = "file" => path' = "file")
  <2> SUFFICES ASSUME TypeOK, FileStops, path = "file", NEW p \in Servers, Step(p)
               PROVE  path' = "file"
    BY DEF Next, vars
  <2> QED
    BY DEF Step, Start, Stat, Dial, Remove, Bind, Listen, Chmod, Crash, Goto, FileStops
<1> QED
  BY <1>1, <1>2, FileStopsInductive, PTL DEF Spec, FileSurvives

(* A start is refused only because of a server that listens, a file that   *)
(* is no socket, or a mode that cannot be set.                             *)
THEOREM OnlyJustRefusals == ASSUME ~Overlap PROVE Spec => RefusalsJustified
<1> DEFINE Just(p) ==
      pc[p] # "exited" /\ pc'[p] = "exited" =>
        \/ path = "file"
        \/ pc[p] = "chmod"
        \/ \E q \in Servers \ {p} : Listening(q)
<1>1. Inv /\ [Next]_vars => \A p \in Servers : Just(p)
  <2>1. CASE UNCHANGED vars
    BY <2>1 DEF vars
  <2>2. ASSUME Inv, NEW q \in Servers, Step(q), NEW p \in Servers
        PROVE  Just(p)
    <3>1. CASE p # q
      <4>1. pc'[p] = pc[p]
        BY <2>2, <3>1 DEF Step, Start, Stat, Dial, Remove, Bind, Listen, Chmod, Crash,
                          Goto, Inv, TypeOK
      <4> QED
        BY <4>1
    <3>2. CASE p = q /\ Dial(p)
      BY <2>2, <3>2 DEF Dial, Listening, Goto, Inv, TypeOK
    <3>3. CASE p = q /\ (Remove(p) \/ Bind(p))
      BY <2>2, <3>3, UnixSocketConstantsOK
      DEF Remove, Bind, Goto, Inv, TypeOK, NobodyServes, PathAsFound, BoundIsThere, Listening,
          Starting, Others
    <3>4. CASE p = q /\ (Start(p) \/ Stat(p) \/ Listen(p) \/ Chmod(p) \/ Crash(p))
      BY <2>2, <3>4 DEF Start, Stat, Listen, Chmod, Crash, Goto, Inv, TypeOK
    <3> QED
      BY <2>2, <3>1, <3>2, <3>3, <3>4 DEF Step
  <2> QED
    BY <2>1, <2>2 DEF Next
<1> QED
  BY <1>1, SpecInv, PTL DEF Spec, RefusalsJustified

=============================================================================

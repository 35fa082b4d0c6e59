---------------------------- MODULE SessionProofs ----------------------------
(***************************************************************************)
(* Proofs about Session: it uses both endpoints as their specifications    *)
(* allow, so that what is proved of each alone carries over; both          *)
(* directions keep their order; and nothing is left when it returns.       *)
(***************************************************************************)
EXTENDS Session, Integers, TLAPS

PP == INSTANCE ProcessEndpointProofs
WW == INSTANCE WebSocketEndpointProofs

-----------------------------------------------------------------------------
(* The endpoints' own theorems are about the same specifications.          *)

LEMMA SameConstants == PP!ConstantsOK /\ WW!ConstantsOK
BY EndpointConstantsOK
   DEF P!ConstantsOK, PP!ConstantsOK, P!Streams, PP!Streams, P!Fds, PP!Fds,
       W!ConstantsOK, WW!ConstantsOK

LEMMA SameProcessVars == P!vars = PP!vars /\ (P!vars)' = (PP!vars)'
BY DEF P!vars, PP!vars, P!progVars, PP!progVars, P!outVars, PP!outVars,
       P!inVars, PP!inVars, P!endVars, PP!endVars

LEMMA SameProcessInit == P!Init <=> PP!Init
BY DEF P!Init, PP!Init, P!Procs, PP!Procs, P!Fds, PP!Fds, P!Streams, PP!Streams

LEMMA SameProcessSteps ==
  /\ P!ProgramStep <=> PP!ProgramStep
  /\ P!ReaderStep <=> PP!ReaderStep
  /\ P!TerminateStep <=> PP!TerminateStep
  /\ P!CallerStep <=> PP!CallerStep
BY DEF P!ProgramStep, PP!ProgramStep, P!ReaderStep, PP!ReaderStep,
       P!TerminateStep, PP!TerminateStep, P!CallerStep, PP!CallerStep,
       P!WriteOut, PP!WriteOut, P!ReadIn, PP!ReadIn, P!CloseFd, PP!CloseFd,
       P!Spawn, PP!Spawn, P!Die, PP!Die, P!Running, PP!Running,
       P!Read, PP!Read, P!ReadFails, PP!ReadFails, P!Abandon, PP!Abandon,
       P!CloseOutput, PP!CloseOutput, P!Feeders, PP!Feeders, P!Holders, PP!Holders,
       P!Done, PP!Done, P!CloseStdin, PP!CloseStdin, P!Escalate, PP!Escalate,
       P!NextRung, PP!NextRung, P!Terminated, PP!Terminated, P!GiveUp, PP!GiveUp,
       P!Reap, PP!Reap, P!WaitReturns, PP!WaitReturns, P!Sweep, PP!Sweep,
       P!Deliver, PP!Deliver, P!Send, PP!Send, P!TerminateBegin, PP!TerminateBegin,
       P!progVars, PP!progVars, P!outVars, PP!outVars, P!inVars, PP!inVars,
       P!endVars, PP!endVars, P!Procs, PP!Procs, P!Fds, PP!Fds, P!Streams, PP!Streams,
       P!Rungs, PP!Rungs, P!Signals, PP!Signals

LEMMA SameProcessNext == P!Next <=> PP!Next
BY SameProcessSteps DEF P!Next, PP!Next

LEMMA SameConnectionVars == W!vars = WW!vars /\ (W!vars)' = (WW!vars)'
BY DEF W!vars, WW!vars, W!clientVars, WW!clientVars, W!readVars, WW!readVars,
       W!sendVars, WW!sendVars, W!endVars, WW!endVars

LEMMA SameConnectionInit == W!Init <=> WW!Init
BY DEF W!Init, WW!Init

LEMMA SameConnectionNext == W!Next <=> WW!Next
BY DEF W!Next, WW!Next, W!ClientStep, WW!ClientStep, W!ReadStep, WW!ReadStep,
       W!CallerStep, WW!CallerStep, W!ClientSend, WW!ClientSend,
       W!ClientReceive, WW!ClientReceive, W!ClientLeave, WW!ClientLeave,
       W!ClientHang, WW!ClientHang, W!ReadFrame, WW!ReadFrame, W!ReadFails, WW!ReadFails,
       W!ReadStops, WW!ReadStops, W!DeadlinePasses, WW!DeadlinePasses,
       W!Abandon, WW!Abandon, W!CloseOutput, WW!CloseOutput, W!Deliver, WW!Deliver,
       W!Send, WW!Send, W!Terminate, WW!Terminate,
       W!clientVars, WW!clientVars, W!readVars, WW!readVars,
       W!sendVars, WW!sendVars, W!endVars, WW!endVars

-----------------------------------------------------------------------------
(* A relay between two sequences: what was received from one side is what  *)
(* the other side has read, what is on its way there, and what the relay   *)
(* holds.                                                                  *)

Prefixed(front, back, all) ==
  /\ Len(front) + Len(back) <= Len(all)
  /\ \A i \in 1..Len(front) : front[i] = all[i]
  /\ \A i \in 1..Len(back) : back[i] = all[Len(front) + i]

Exact(front, back, last, all) ==
  /\ Len(all) = Len(front) + Len(back) + Len(last)
  /\ Len(last) = 1 => last[1] = all[Len(all)]

LEMMA SingleIsElement ==
  ASSUME NEW S, NEW m \in Seq(S), Len(m) = 1
  PROVE  m[1] \in S /\ m = <<m[1]>>
OBVIOUS

LEMMA ElementIsSingle ==
  ASSUME NEW S, NEW x \in S, NEW s, s = <<x>>
  PROVE  s \in Seq(S)
OBVIOUS

(* The relay receives. *)
LEMMA RelayTakes ==
  ASSUME NEW S, NEW f \in Seq(S), NEW b \in Seq(S), NEW l, NEW a \in Seq(S), NEW m \in Seq(S),
         Len(m) = 1, NEW l2, l2 = m, NEW a2, a2 = a \o m, Len(l) = 0,
         Prefixed(f, b, a)
  PROVE  /\ a2 \in Seq(S)
         /\ Prefixed(f, b, a2)
         /\ Exact(f, b, l, a) => Exact(f, b, l2, a2)
<1>1. /\ a2 \in Seq(S) /\ Len(a2) = Len(a) + 1 /\ a2[Len(a) + 1] = m[1]
      /\ \A i \in 1..Len(a) : a2[i] = a[i]
      /\ Len(a) \in Nat /\ Len(f) \in Nat /\ Len(b) \in Nat
  <2>1. m[1] \in S /\ m = <<m[1]>>
    BY SingleIsElement
  <2> DEFINE e == m[1]
  <2>2. /\ a \o <<e>> \in Seq(S) /\ Len(a \o <<e>>) = Len(a) + 1 /\ (a \o <<e>>)[Len(a) + 1] = e
        /\ \A i \in 1..Len(a) : (a \o <<e>>)[i] = a[i]
    BY <2>1, PP!AppendFacts
  <2>3. a \o m = a \o <<e>>
    BY <2>1
  <2> QED
    BY <2>2, <2>3
<1>2. Prefixed(f, b, a2)
  <2>1. /\ Len(f) + Len(b) <= Len(a)
        /\ \A i \in 1..Len(f) : f[i] = a[i]
        /\ \A i \in 1..Len(b) : b[i] = a[Len(f) + i]
    BY DEF Prefixed
  <2>2. Len(f) + Len(b) <= Len(a2)
    BY <1>1, <2>1
  <2>3. ASSUME NEW i \in 1..Len(f)
        PROVE  f[i] = a2[i]
    <3>1. i \in 1..Len(a)
      BY <1>1, <2>1
    <3> QED
      BY <1>1, <2>1, <3>1
  <2>4. ASSUME NEW i \in 1..Len(b)
        PROVE  b[i] = a2[Len(f) + i]
    <3>1. Len(f) + i \in 1..Len(a)
      BY <1>1, <2>1
    <3> QED
      BY <1>1, <2>1, <3>1
  <2> QED
    BY <2>2, <2>3, <2>4 DEF Prefixed
<1>3. Exact(f, b, l, a) => Exact(f, b, l2, a2)
  BY <1>1 DEF Exact
<1> QED
  BY <1>1, <1>2, <1>3

(* The relay passes on what it holds. *)
LEMMA RelaySends ==
  ASSUME NEW S, NEW f \in Seq(S), NEW b \in Seq(S), NEW l \in Seq(S), NEW a \in Seq(S),
         Len(l) = 1, NEW l2, l2 = <<>>, NEW b2, b2 = Append(b, l[1]),
         Prefixed(f, b, a), Exact(f, b, l, a)
  PROVE  Prefixed(f, b2, a) /\ Exact(f, b2, l2, a)
<1>1. /\ Len(b2) = Len(b) + 1 /\ b2[Len(b) + 1] = l[1] /\ \A i \in 1..Len(b) : b2[i] = b[i]
      /\ Len(a) \in Nat /\ Len(f) \in Nat /\ Len(b) \in Nat /\ Len(l2) = 0
  <2>1. l[1] \in S
    BY SingleIsElement
  <2>2. Len(l2) = 0
    OBVIOUS
  <2> QED
    BY <2>1, <2>2, WW!Appended
<1>2. Prefixed(f, b2, a)
  <2> DEFINE k == Len(b) + 1
  <2>1. /\ Len(a) = Len(f) + k /\ l[1] = a[Len(a)]
        /\ \A i \in 1..Len(f) : f[i] = a[i]
        /\ \A i \in 1..Len(b) : b[i] = a[Len(f) + i]
    BY <1>1 DEF Prefixed, Exact
  <2>2. b2[k] = a[Len(f) + k]
    BY <1>1, <2>1
  <2>3. \A i \in 1..k : b2[i] = a[Len(f) + i]
    <3> SUFFICES ASSUME NEW i \in 1..k, i # k
                 PROVE  b2[i] = a[Len(f) + i]
      BY <2>2
    <3>1. i \in 1..Len(b)
      BY <1>1
    <3> QED
      BY <3>1, <1>1, <2>1
  <2> QED
    BY <1>1, <2>1, <2>3 DEF Prefixed
<1>3. Exact(f, b2, l2, a)
  BY <1>1 DEF Exact
<1> QED
  BY <1>2, <1>3

(* The far side reads. *)
LEMMA FarSideReads ==
  ASSUME NEW S, NEW f \in Seq(S), NEW b \in Seq(S), NEW l, NEW a \in Seq(S), b # <<>>,
         NEW f2, f2 = Append(f, Head(b)), NEW b2, b2 = Tail(b),
         Len(l) \in Nat, Prefixed(f, b, a)
  PROVE  /\ Prefixed(f2, b2, a)
         /\ Exact(f, b, l, a) => Exact(f2, b2, l, a)
<1>1. /\ Len(f2) = Len(f) + 1 /\ f2[Len(f) + 1] = b[1] /\ \A i \in 1..Len(f) : f2[i] = f[i]
      /\ Len(b) \in Nat \ {0} /\ Len(b2) = Len(b) - 1 /\ \A i \in 1..Len(b2) : b2[i] = b[i + 1]
      /\ Len(a) \in Nat /\ Len(f) \in Nat
  OBVIOUS
<1>2. Prefixed(f2, b2, a)
  BY <1>1 DEF Prefixed
<1>3. Exact(f, b, l, a) => Exact(f2, b2, l, a)
  BY <1>1 DEF Exact
<1> QED
  BY <1>2, <1>3

-----------------------------------------------------------------------------
(* The invariant: what is known of each endpoint alone, what the relays    *)
(* hold, what each direction has in it, and how far PipeEndpoints is.      *)

RelayInv ==
  /\ \A s \in P!Streams : wrote[s] <= MaxUnits[s]
  /\ toClient \in {"recv", "send", "done"}
  /\ unit \in Seq(OutMsgs) /\ taken \in Seq(OutMsgs)
  /\ IF toClient = "send" THEN Len(unit) = 1 ELSE unit = <<>>
  /\ toProgram \in {"recv", "send", "done"}
  /\ msg \in Seq(InMsgs) /\ received \in Seq(InMsgs)
  /\ IF toProgram = "send" THEN Len(msg) = 1 ELSE msg = <<>>

(* A client that is gone swallows what is written to it. *)
ClientInv ==
  /\ Prefixed(seen, outbound, taken)
  /\ client # "gone" /\ toClient # "done" => Exact(seen, outbound, unit, taken)

ProgramInv ==
  /\ Prefixed(consumed, inPipe, received)
  /\ toProgram # "done" => Exact(consumed, inPipe, msg, received)

Stopped(relay) == IF relay = "done" THEN 1 ELSE 0

(* How many relays PipeEndpoints has waited for. *)
Waited == IF main = "relaying" THEN 0 ELSE IF main = "returned" THEN 2 ELSE 1

MainInv ==
  /\ main \in {"relaying", "ending process", "ending connection", "waiting", "returned"}
  /\ finished \in Nat
  /\ finished + Waited = Stopped(toClient) + Stopped(toProgram)
  /\ main \notin {"relaying", "ending process"} => ladder = "returned"
  /\ main \in {"waiting", "returned"} => conn = "closed"

EndpointsInv ==
  /\ PP!TypeOK /\ PP!LadderInv /\ PP!NoSendOnClosedOutput /\ PP!OutputInv
  /\ WW!Inv

SInv == EndpointsInv /\ RelayInv /\ ClientInv /\ ProgramInv /\ MainInv

-----------------------------------------------------------------------------
(* Every step of a session is, for each endpoint, one of its own or none.  *)

LEMMA UnitIsMessage ==
  ASSUME RelayInv, toClient = "send"
  PROVE  unit[1] \in OutMsgs /\ unit = <<unit[1]>>
BY SingleIsElement DEF RelayInv

LEMMA MsgIsMessage ==
  ASSUME RelayInv, toProgram = "send"
  PROVE  msg[1] \in InMsgs /\ msg = <<msg[1]>>
BY SingleIsElement DEF RelayInv

LEMMA ProcessStep ==
  ASSUME RelayInv, [Next]_vars
  PROVE  [P!Next]_(P!vars)
<1>1. pVars' = pVars => P!vars' = P!vars
  BY DEF pVars, P!vars, P!progVars, P!outVars, P!inVars, P!endVars
<1>2. CASE RelayToClient
  BY <1>1, <1>2 DEF RelayToClient, TakeUnit, SendUnit, StopToClient, P!Next, P!CallerStep
<1>3. CASE RelayToProgram
  <2>1. CASE SendMessage
    BY <2>1, MsgIsMessage DEF SendMessage, P!Next, P!CallerStep
  <2> QED
    BY <1>1, <1>3, <2>1 DEF RelayToProgram, TakeMessage, StopToProgram
<1>4. CASE PipeEndpoints
  BY <1>1, <1>4 DEF PipeEndpoints, EndProcess, ProcessEnded, EndConnection, Return,
     P!Next, P!CallerStep
<1>5. CASE ProcessSideStep
  BY <1>5 DEF ProcessSideStep, P!Next
<1>6. CASE ClientSideStep
  BY <1>1, <1>6 DEF ClientSideStep
<1>7. CASE UNCHANGED vars
  BY <1>1, <1>7 DEF vars
<1> QED
  BY <1>2, <1>3, <1>4, <1>5, <1>6, <1>7 DEF Next

LEMMA ConnectionStep ==
  ASSUME RelayInv, [Next]_vars
  PROVE  [W!Next]_(W!vars)
<1>1. wVars' = wVars => W!vars' = W!vars
  BY DEF wVars, W!vars, W!clientVars, W!readVars, W!sendVars, W!endVars
<1>2. CASE RelayToClient
  <2>1. CASE SendUnit
    BY <2>1, UnitIsMessage DEF SendUnit, W!Next, W!CallerStep
  <2> QED
    BY <1>1, <1>2, <2>1 DEF RelayToClient, TakeUnit, StopToClient
<1>3. CASE RelayToProgram
  BY <1>1, <1>3 DEF RelayToProgram, TakeMessage, SendMessage, StopToProgram,
     W!Next, W!CallerStep
<1>4. CASE PipeEndpoints
  BY <1>1, <1>4 DEF PipeEndpoints, EndProcess, ProcessEnded, EndConnection, Return,
     W!Next, W!CallerStep
<1>5. CASE ProcessSideStep
  BY <1>1, <1>5 DEF ProcessSideStep
<1>6. CASE ClientSideStep
  BY <1>6 DEF ClientSideStep, W!Next
<1>7. CASE UNCHANGED vars
  BY <1>1, <1>7 DEF vars
<1> QED
  BY <1>2, <1>3, <1>4, <1>5, <1>6, <1>7 DEF Next

LEMMA EndpointsKeep ==
  ASSUME EndpointsInv, RelayInv, [Next]_vars
  PROVE  EndpointsInv'
<1>1. [PP!Next]_(PP!vars)
  BY ProcessStep, SameProcessNext, SameProcessVars
<1>2. [WW!Next]_(WW!vars)
  BY ConnectionStep, SameConnectionNext, SameConnectionVars
<1>3. PP!TypeOK'
  BY <1>1, SameConstants, PP!TypeInductive DEF EndpointsInv
<1>4. PP!LadderInv'
  BY <1>1, SameConstants, PP!LadderInductive DEF EndpointsInv
<1>5. PP!OutputInv' /\ PP!NoSendOnClosedOutput'
  BY <1>1, SameConstants, PP!OutputInductive, PP!ChannelInductive DEF EndpointsInv
<1>6. WW!Inv'
  BY <1>2, SameConstants, WW!InvNext DEF EndpointsInv
<1> QED
  BY <1>3, <1>4, <1>5, <1>6 DEF EndpointsInv

-----------------------------------------------------------------------------
(* What the relays hold.                                                   *)

(* A unit on the output channel is one that was written to its stream.     *)
LEMMA HeldIsUnit ==
  ASSUME EndpointsInv, RelayInv, NEW s \in P!Streams, reader[s] = "send"
  PROVE  held[s] \in Seq(OutMsgs) /\ Len(held[s]) = 1
<1> DEFINE k == wrote[s] - Len(pipe[s])
           u == [src |-> s, n |-> k]
<1>1. /\ s \in PP!Streams /\ s \in {"stdout", "stderr"}
  BY DEF P!Streams, PP!Streams
<1>2. held[s] = <<u>> /\ Len(pipe[s]) < wrote[s]
  BY <1>1 DEF EndpointsInv, PP!OutputInv, PP!PipeInv, PP!UnitAt
<1>3. Len(pipe[s]) \in Nat /\ wrote[s] \in Nat
  BY <1>1 DEF EndpointsInv, PP!TypeOK
<1>4. wrote[s] <= MaxUnits[s] /\ MaxUnits["stdout"] \in Nat /\ MaxUnits["stderr"] \in Nat
  BY EndpointConstantsOK DEF RelayInv, P!ConstantsOK, P!Streams
<1>5. k \in 1..(MaxUnits["stdout"] + MaxUnits["stderr"])
  BY <1>1, <1>2, <1>3, <1>4
<1>6. u \in OutMsgs
  BY <1>5 DEF OutMsgs
<1> HIDE DEF u
<1> QED
  BY <1>2, <1>6

(* So is a message of readFrames one of the client's. *)
LEMMA RheldIsMessage ==
  ASSUME EndpointsInv, rf = "send"
  PROVE  rheld \in Seq(InMsgs) /\ Len(rheld) = 1
<1>1. /\ rheld \in Seq(Nat \ {0}) /\ rheld # <<>> /\ Len(rheld) <= 1
      /\ posted \in Seq(Nat \ {0}) /\ received \in Seq(Nat \ {0})
      /\ nframes \in Nat /\ MaxFrames \in Nat
  BY SameConstants DEF EndpointsInv, WW!Inv, WW!TypeOK, WW!HeldInv, WW!ConstantsOK
<1>2. Len(rheld) = 1
  <2> DEFINE n == Len(rheld)
  <2>1. n \in Nat \ {0} /\ n <= 1
    BY <1>1, WW!HeadTail
  <2> HIDE DEF n
  <2>2. n = 1
    BY <2>1
  <2> QED
    BY <2>2 DEF n
<1>3. rheld[1] \in InMsgs
  <2> DEFINE k == Len(received) + Len(rheld)
  <2>1. k \in 1..Len(posted) /\ rheld[1] = posted[k]
    BY <1>1, <1>2 DEF EndpointsInv, WW!Inv, WW!PassedInv, WW!Passed
  <2>2. posted[k] \in 1..nframes /\ nframes <= MaxFrames
    BY <2>1 DEF EndpointsInv, WW!Inv, WW!FlightInv
  <2> QED
    BY <1>1, <2>1, <2>2 DEF InMsgs
<1>4. rheld = <<rheld[1]>>
  BY <1>1, <1>2, SingleIsElement
<1> QED
  BY <1>2, <1>3, <1>4, ElementIsSingle

(* Only the program's own writes count towards its bound. *)
LEMMA WroteBounded ==
  ASSUME RelayInv, EndpointsInv, [Next]_vars
  PROVE  \A s \in P!Streams : wrote'[s] <= MaxUnits[s]
<1>1. wrote' = wrote \/ \E p \in P!Procs, s \in P!Streams : P!WriteOut(p, s)
  BY DEF Next, vars, pVars, RelayToClient, TakeUnit, SendUnit, StopToClient, P!Deliver,
     RelayToProgram, TakeMessage, SendMessage, StopToProgram, P!Send,
     PipeEndpoints, EndProcess, ProcessEnded, EndConnection, Return, P!TerminateBegin,
     ClientSideStep, ProcessSideStep, P!ProgramStep, P!ReadIn, P!CloseFd, P!Spawn, P!Die,
     P!ReaderStep, P!Read, P!ReadFails, P!Abandon, P!CloseOutput, P!TerminateStep,
     P!CloseStdin, P!Escalate, P!Terminated, P!GiveUp, P!Sweep, P!Reap, P!WaitReturns,
     P!outVars
<1>2. wrote \in [P!Streams -> Nat] /\ MaxUnits \in [P!Streams -> Nat]
  BY EndpointConstantsOK DEF EndpointsInv, PP!TypeOK, P!Streams, PP!Streams, P!ConstantsOK
<1>3. ASSUME NEW p \in P!Procs, NEW s \in P!Streams, P!WriteOut(p, s)
      PROVE  \A r \in P!Streams : wrote'[r] <= MaxUnits[r]
  <2>1. wrote' = [wrote EXCEPT ![s] = wrote[s] + 1] /\ wrote[s] < MaxUnits[s]
    BY <1>3 DEF P!WriteOut
  <2> QED
    BY <1>2, <2>1 DEF RelayInv
<1> QED
  BY <1>1, <1>3 DEF RelayInv

LEMMA RelayKeeps ==
  ASSUME EndpointsInv, RelayInv, [Next]_vars
  PROVE  RelayInv'
<1>1. \A s \in P!Streams : wrote'[s] <= MaxUnits[s]
  BY WroteBounded
<1>2. ASSUME NEW s \in P!Streams, TakeUnit(s)
      PROVE  RelayInv'
  <2>1. /\ unit' = held[s] /\ taken' = taken \o held[s] /\ toClient' = "send"
        /\ UNCHANGED <<toProgram, msg, received>>
    BY <1>2 DEF TakeUnit, P!Deliver, wVars
  <2>2. held[s] \in Seq(OutMsgs) /\ Len(held[s]) = 1
    BY <1>2, HeldIsUnit DEF TakeUnit, P!Deliver
  <2>3. taken' \in Seq(OutMsgs)
    BY <2>1, <2>2 DEF RelayInv
  <2> QED
    BY <1>1, <2>1, <2>2, <2>3 DEF RelayInv
<1>3. CASE SendUnit \/ StopToClient
  <2>1. /\ unit' = <<>> /\ toClient' \in {"recv", "done"}
        /\ UNCHANGED <<taken, toProgram, msg, received>>
    BY <1>3 DEF SendUnit, StopToClient, pVars, wVars, W!Send, W!readVars
  <2> QED
    BY <1>1, <2>1 DEF RelayInv
<1>4. CASE TakeMessage
  <2>1. /\ msg' = rheld /\ received' = received \o rheld /\ toProgram' = "send"
        /\ UNCHANGED <<toClient, unit, taken>>
    BY <1>4 DEF TakeMessage, W!Deliver, pVars
  <2>2. rheld \in Seq(InMsgs) /\ Len(rheld) = 1
    BY <1>4, RheldIsMessage DEF TakeMessage, W!Deliver
  <2>3. received' \in Seq(InMsgs)
    BY <2>1, <2>2 DEF RelayInv
  <2> QED
    BY <1>1, <2>1, <2>2, <2>3 DEF RelayInv
<1>5. CASE SendMessage \/ StopToProgram
  <2>1. /\ msg' = <<>> /\ toProgram' \in {"recv", "done"}
        /\ UNCHANGED <<toClient, unit, taken, received>>
    BY <1>5 DEF SendMessage, StopToProgram, pVars, wVars, P!Send, P!outVars
  <2> QED
    BY <1>1, <2>1 DEF RelayInv
<1>6. CASE UNCHANGED <<toClient, unit, taken, toProgram, msg, received>>
  BY <1>1, <1>6 DEF RelayInv
<1>7. CASE PipeEndpoints \/ ProcessSideStep \/ ClientSideStep \/ UNCHANGED vars
  BY <1>6, <1>7
     DEF vars, relayVars, pVars, wVars, PipeEndpoints, EndProcess, ProcessEnded,
         EndConnection, Return, P!TerminateBegin, W!Terminate, W!readVars,
         ProcessSideStep, P!ProgramStep, P!WriteOut, P!ReadIn, P!CloseFd, P!Spawn, P!Die,
         P!ReaderStep, P!Read, P!ReadFails, P!Abandon, P!CloseOutput, P!TerminateStep,
         P!CloseStdin, P!Escalate, P!Terminated, P!GiveUp, P!Sweep, P!Reap,
         P!WaitReturns, P!outVars,
         ClientSideStep, W!ClientStep, W!ClientSend, W!ClientReceive, W!ClientLeave,
         W!ClientHang, W!ReadStep, W!ReadFrame, W!ReadFails, W!ReadStops,
         W!DeadlinePasses, W!Abandon, W!CloseOutput
<1> QED
  BY <1>2, <1>3, <1>4, <1>5, <1>7 DEF Next, RelayToClient, RelayToProgram

-----------------------------------------------------------------------------
(* Program output on its way to the client.                                *)

LEMMA ClientKeeps ==
  ASSUME EndpointsInv, RelayInv, ClientInv, [Next]_vars
  PROVE  ClientInv'
<1>1. /\ seen \in Seq(OutMsgs) /\ outbound \in Seq(OutMsgs)
      /\ taken \in Seq(OutMsgs) /\ unit \in Seq(OutMsgs)
  BY DEF EndpointsInv, WW!Inv, WW!TypeOK, RelayInv
<1>2. ASSUME NEW s \in P!Streams, TakeUnit(s)
      PROVE  ClientInv'
  <2>1. /\ toClient = "recv" /\ toClient' = "send"
        /\ unit' = held[s] /\ taken' = taken \o held[s]
        /\ UNCHANGED <<client, seen, outbound>>
    BY <1>2 DEF TakeUnit, P!Deliver, wVars
  <2>2. held[s] \in Seq(OutMsgs) /\ Len(held[s]) = 1
    BY <1>2, HeldIsUnit DEF TakeUnit, P!Deliver
  <2>3. Len(unit) = 0
    BY <2>1 DEF RelayInv
  <2>4. /\ Prefixed(seen, outbound, taken')
        /\ Exact(seen, outbound, unit, taken) => Exact(seen, outbound, unit', taken')
    BY <1>1, <2>1, <2>2, <2>3, RelayTakes DEF ClientInv
  <2> QED
    BY <2>1, <2>4 DEF ClientInv
<1>3. CASE SendUnit
  <2>1. /\ toClient = "send" /\ toClient' = "recv" /\ unit' = <<>>
        /\ UNCHANGED <<client, seen, taken>>
        /\ IF client = "gone" THEN outbound' = outbound
                              ELSE outbound' = Append(outbound, unit[1])
    BY <1>3 DEF SendUnit, W!Send, W!clientVars, pVars
  <2>2. CASE client = "gone"
    BY <2>1, <2>2 DEF ClientInv
  <2>3. CASE client # "gone"
    <3>1. Len(unit) = 1
      BY <2>1 DEF RelayInv
    <3>2. Prefixed(seen, outbound', taken) /\ Exact(seen, outbound', unit', taken)
      BY <1>1, <2>1, <2>3, <3>1, RelaySends DEF ClientInv
    <3> QED
      BY <2>1, <3>2 DEF ClientInv
  <2> QED
    BY <2>2, <2>3
<1>4. CASE StopToClient
  BY <1>4 DEF StopToClient, pVars, wVars, ClientInv
<1>5. CASE W!ClientReceive /\ UNCHANGED <<toClient, unit, taken>>
  <2>1. /\ outbound # <<>> /\ seen' = Append(seen, Head(outbound)) /\ outbound' = Tail(outbound)
        /\ UNCHANGED <<client, toClient, unit, taken>>
    BY <1>5 DEF W!ClientReceive, W!clientVars
  <2>2. Len(unit) \in Nat
    BY <1>1
  <2>3. /\ Prefixed(seen', outbound', taken)
        /\ Exact(seen, outbound, unit, taken) => Exact(seen', outbound', unit, taken)
    BY <1>1, <2>1, <2>2, FarSideReads DEF ClientInv
  <2> QED
    BY <2>1, <2>3 DEF ClientInv
<1>6. CASE UNCHANGED <<seen, outbound, toClient, unit, taken>> /\ (client = "gone" => client' = "gone")
  BY <1>6 DEF ClientInv
<1>7. CASE RelayToProgram
  BY <1>6, <1>7
     DEF RelayToProgram, TakeMessage, SendMessage, StopToProgram, P!Send, P!outVars,
         W!Deliver, W!sendVars, W!clientVars, pVars, wVars
<1>8. CASE PipeEndpoints \/ ProcessSideStep \/ UNCHANGED vars
  BY <1>6, <1>8
     DEF vars, relayVars, pVars, wVars, PipeEndpoints, EndProcess, ProcessEnded,
         EndConnection, Return, P!TerminateBegin, W!Terminate, W!sendVars, W!clientVars,
         ProcessSideStep, P!ProgramStep, P!WriteOut, P!ReadIn, P!CloseFd, P!Spawn, P!Die,
         P!ReaderStep, P!Read, P!ReadFails, P!Abandon, P!CloseOutput, P!TerminateStep,
         P!CloseStdin, P!Escalate, P!Terminated, P!GiveUp, P!Sweep, P!Reap,
         P!WaitReturns, P!outVars
<1>9. CASE ClientSideStep
  <2>1. CASE W!ClientReceive
    BY <1>5, <1>9, <2>1 DEF ClientSideStep, pVars, relayVars
  <2> QED
    BY <1>6, <1>9, <2>1
       DEF ClientSideStep, pVars, relayVars, W!ClientStep, W!ClientSend, W!ClientLeave,
           W!ClientHang, W!ReadStep, W!ReadFrame, W!ReadFails, W!ReadStops,
           W!DeadlinePasses, W!Abandon, W!CloseOutput, W!sendVars, W!clientVars
<1> QED
  BY <1>2, <1>3, <1>4, <1>7, <1>8, <1>9 DEF Next, RelayToClient

-----------------------------------------------------------------------------
(* The client's messages on their way to the program.                      *)

LEMMA ProgramKeeps ==
  ASSUME EndpointsInv, RelayInv, ProgramInv, [Next]_vars
  PROVE  ProgramInv'
<1>1. /\ consumed \in Seq(InMsgs) /\ inPipe \in Seq(InMsgs)
      /\ received \in Seq(InMsgs) /\ msg \in Seq(InMsgs)
  BY DEF EndpointsInv, PP!TypeOK, RelayInv
<1>2. CASE TakeMessage
  <2>1. /\ toProgram = "recv" /\ toProgram' = "send"
        /\ msg' = rheld /\ received' = received \o rheld
        /\ UNCHANGED <<consumed, inPipe>>
    BY <1>2 DEF TakeMessage, W!Deliver, pVars
  <2>2. rheld \in Seq(InMsgs) /\ Len(rheld) = 1
    BY <1>2, RheldIsMessage DEF TakeMessage, W!Deliver
  <2>3. Len(msg) = 0
    BY <2>1 DEF RelayInv
  <2>4. /\ Prefixed(consumed, inPipe, received')
        /\ Exact(consumed, inPipe, msg, received) => Exact(consumed, inPipe, msg', received')
    BY <1>1, <2>1, <2>2, <2>3, RelayTakes DEF ProgramInv
  <2> QED
    BY <2>1, <2>4 DEF ProgramInv
<1>3. CASE SendMessage
  <2>1. /\ toProgram = "send" /\ toProgram' = "recv" /\ msg' = <<>>
        /\ inPipe' = Append(inPipe, msg[1])
        /\ UNCHANGED <<consumed, received>>
    BY <1>3 DEF SendMessage, P!Send, wVars
  <2>2. Len(msg) = 1
    BY <2>1 DEF RelayInv
  <2>3. Prefixed(consumed, inPipe', received) /\ Exact(consumed, inPipe', msg', received)
    BY ZenonT(60), <1>1, <2>1, <2>2, RelaySends DEF ProgramInv
  <2> QED
    BY <2>1, <2>3 DEF ProgramInv
<1>4. CASE StopToProgram
  BY <1>4 DEF StopToProgram, pVars, wVars, ProgramInv
<1>5. ASSUME NEW p \in P!Procs, P!ReadIn(p), UNCHANGED <<toProgram, msg, received>>
      PROVE  ProgramInv'
  <2>1. /\ inPipe # <<>> /\ consumed' = Append(consumed, Head(inPipe)) /\ inPipe' = Tail(inPipe)
        /\ UNCHANGED <<toProgram, msg, received>>
    BY <1>5 DEF P!ReadIn
  <2>2. Len(msg) \in Nat
    BY <1>1
  <2>3. /\ Prefixed(consumed', inPipe', received)
        /\ Exact(consumed, inPipe, msg, received) => Exact(consumed', inPipe', msg, received)
    BY <1>1, <2>1, <2>2, FarSideReads DEF ProgramInv
  <2> QED
    BY <2>1, <2>3 DEF ProgramInv
<1>6. CASE UNCHANGED <<consumed, inPipe, toProgram, msg, received>>
  BY <1>6 DEF ProgramInv
<1>7. CASE RelayToClient
  BY <1>6, <1>7
     DEF RelayToClient, TakeUnit, SendUnit, StopToClient, P!Deliver, P!inVars,
         W!Send, W!readVars, pVars, wVars
<1>8. CASE PipeEndpoints \/ ClientSideStep \/ UNCHANGED vars
  BY <1>6, <1>8
     DEF vars, relayVars, pVars, wVars, PipeEndpoints, EndProcess, ProcessEnded,
         EndConnection, Return, P!TerminateBegin, P!inVars, W!Terminate, W!readVars,
         ClientSideStep, W!ClientStep, W!ClientSend, W!ClientReceive, W!ClientLeave,
         W!ClientHang, W!ReadStep, W!ReadFrame, W!ReadFails, W!ReadStops,
         W!DeadlinePasses, W!Abandon, W!CloseOutput
<1>9. CASE ProcessSideStep
  <2>1. CASE \E p \in P!Procs : P!ReadIn(p)
    BY <1>5, <1>9, <2>1 DEF ProcessSideStep, wVars, relayVars
  <2> QED
    BY <1>6, <1>9, <2>1
       DEF ProcessSideStep, wVars, relayVars, P!ProgramStep, P!WriteOut, P!CloseFd,
           P!Spawn, P!Die, P!ReaderStep, P!Read, P!ReadFails, P!Abandon, P!CloseOutput,
           P!TerminateStep, P!CloseStdin, P!Escalate, P!Terminated, P!GiveUp, P!Sweep,
           P!Reap, P!WaitReturns, P!inVars
<1> QED
  BY <1>2, <1>3, <1>4, <1>7, <1>8, <1>9 DEF Next, RelayToProgram

-----------------------------------------------------------------------------
(* PipeEndpoints.                                                          *)

LEMMA MainKeeps ==
  ASSUME EndpointsInv, RelayInv, MainInv, [Next]_vars
  PROVE  MainInv'
<1>0. /\ finished \in Nat /\ Waited \in 0..2
      /\ Stopped(toClient) \in 0..1 /\ Stopped(toProgram) \in 0..1
      /\ finished + Waited = Stopped(toClient) + Stopped(toProgram)
  <2>1. finished \in Nat /\ finished + Waited = Stopped(toClient) + Stopped(toProgram)
    BY DEF MainInv
  <2>2. Waited \in 0..2
    BY DEF Waited
  <2>3. Stopped(toClient) \in 0..1 /\ Stopped(toProgram) \in 0..1
    BY DEF Stopped
  <2> QED
    BY <2>1, <2>2, <2>3
<1>1. CASE StopToClient \/ StopToProgram
  <2>1. /\ finished' = finished + 1 /\ UNCHANGED <<main, ladder, conn>>
        /\ \/ toClient # "done" /\ toClient' = "done" /\ toProgram' = toProgram
           \/ toProgram # "done" /\ toProgram' = "done" /\ toClient' = toClient
    BY <1>1 DEF StopToClient, StopToProgram, pVars, wVars
  <2>2. finished' \in Nat
    BY <1>0, <2>1
  <2>3. Waited' = Waited
    BY <2>1 DEF Waited
  <2>4. Stopped(toClient') + Stopped(toProgram') = Stopped(toClient) + Stopped(toProgram) + 1
    BY <2>1 DEF Stopped
  <2>5. finished' + Waited' = Stopped(toClient') + Stopped(toProgram')
    BY <1>0, <2>1, <2>3, <2>4
  <2> QED
    BY <2>1, <2>2, <2>5 DEF MainInv
<1>2. CASE EndProcess
  <2>1. /\ main = "relaying" /\ main' = "ending process"
        /\ UNCHANGED <<toClient, toProgram>>
    BY <1>2 DEF EndProcess
  <2>2. finished > 0 /\ finished' = finished - 1
    BY <1>2 DEF EndProcess
  <2>3. finished' \in Nat
    BY <1>0, <2>2
  <2>4. Waited = 0 /\ Waited' = 1
    BY <2>1 DEF Waited
  <2>5. Stopped(toClient') = Stopped(toClient) /\ Stopped(toProgram') = Stopped(toProgram)
    BY <2>1 DEF Stopped
  <2>6. finished' + Waited' = Stopped(toClient') + Stopped(toProgram')
    BY <1>0, <2>2, <2>4, <2>5
  <2> QED
    BY <2>1, <2>3, <2>6 DEF MainInv
<1> USE DEF MainInv, Stopped, Waited
<1>3. CASE ProcessEnded
  BY <1>3 DEF ProcessEnded, pVars, wVars
<1>4. CASE EndConnection
  BY <1>4 DEF EndConnection, W!Terminate, pVars
<1>5. CASE Return
  <2>1. /\ main = "waiting" /\ main' = "returned" /\ finished > 0
        /\ finished' = finished - 1 /\ UNCHANGED <<toClient, toProgram, ladder, conn>>
    BY <1>5 DEF Return, pVars, wVars
  <2> QED
    BY <2>1
<1>6. CASE /\ finished' = finished /\ main' = main /\ conn' = conn
           /\ ladder = "returned" => ladder' = "returned"
           /\ toClient = "done" <=> toClient' = "done"
           /\ toProgram = "done" <=> toProgram' = "done"
  BY <1>6
<1>7. CASE (\E s \in P!Streams : TakeUnit(s)) \/ SendUnit \/ TakeMessage \/ SendMessage
  <2>1. /\ UNCHANGED <<finished, main, conn, ladder>>
        /\ toClient = "done" <=> toClient' = "done"
        /\ toProgram = "done" <=> toProgram' = "done"
    BY <1>7 DEF TakeUnit, SendUnit, TakeMessage, SendMessage, P!Deliver, P!Send, P!endVars,
       W!Deliver, W!Send, W!endVars, pVars, wVars
  <2> QED
    BY <1>6, <2>1
<1>8. CASE ProcessSideStep
  <2>1. UNCHANGED <<finished, main, conn, toClient, toProgram>>
    BY <1>8 DEF ProcessSideStep, wVars, relayVars
  <2>2. CASE P!TerminateStep
    <3>1. DOMAIN P!NextRung = {"stdin", "SIGINT", "SIGTERM"}
      BY DEF P!NextRung
    <3>2. ladder = "returned" => ladder' = "returned"
      BY <2>2, <3>1 DEF P!TerminateStep, P!CloseStdin, P!Escalate, P!Terminated, P!GiveUp,
         P!Sweep, P!Reap, P!WaitReturns
    <3> QED
      BY <1>6, <2>1, <3>2
  <2>3. CASE P!ProgramStep \/ P!ReaderStep
    <3>1. ladder' = ladder
      BY <2>3 DEF P!ProgramStep, P!WriteOut, P!ReadIn, P!CloseFd, P!Spawn, P!Die,
         P!ReaderStep, P!Read, P!ReadFails, P!Abandon, P!CloseOutput, P!endVars
    <3> QED
      BY <1>6, <2>1, <3>1
  <2> QED
    BY <1>8, <2>2, <2>3 DEF ProcessSideStep
<1>9. CASE ClientSideStep \/ UNCHANGED vars
  <2>1. UNCHANGED <<finished, main, conn, ladder, toClient, toProgram>>
    BY <1>9 DEF ClientSideStep, vars, pVars, wVars, relayVars,
       W!ClientStep, W!ClientSend, W!ClientReceive, W!ClientLeave,
       W!ClientHang, W!ReadStep, W!ReadFrame, W!ReadFails, W!ReadStops,
       W!DeadlinePasses, W!Abandon, W!CloseOutput, W!endVars
  <2> QED
    BY <1>6, <2>1
<1> QED
  BY <1>1, <1>2, <1>3, <1>4, <1>5, <1>7, <1>8, <1>9
     DEF Next, RelayToClient, RelayToProgram, PipeEndpoints

-----------------------------------------------------------------------------
(* The session. *)

LEMMA SInvInit == Init => SInv
<1> SUFFICES ASSUME Init
             PROVE  SInv
  OBVIOUS
<1>1. PP!Init /\ WW!Init
  BY SameProcessInit, SameConnectionInit DEF Init
<1>2. EndpointsInv
  <2>1. PP!NoSendOnClosedOutput
    BY <1>1 DEF PP!Init, PP!NoSendOnClosedOutput
  <2> QED
    BY <1>1, <2>1, SameConstants, PP!TypeInit, PP!LadderInit, PP!OutputInit, WW!InvInit
       DEF EndpointsInv
<1>3. RelayInv
  <2>1. \A s \in P!Streams : wrote[s] = 0 /\ MaxUnits[s] \in Nat
    BY EndpointConstantsOK DEF Init, P!Init, P!ConstantsOK
  <2> QED
    BY <2>1 DEF Init, P!Init, W!Init, RelayInv
<1>4. /\ seen = <<>> /\ outbound = <<>> /\ taken = <<>> /\ unit = <<>>
      /\ consumed = <<>> /\ inPipe = <<>> /\ received = <<>> /\ msg = <<>>
  BY DEF Init, P!Init, W!Init
<1>5. Prefixed(<<>>, <<>>, <<>>) /\ Exact(<<>>, <<>>, <<>>, <<>>)
  BY DEF Prefixed, Exact
<1>6. ClientInv /\ ProgramInv
  BY <1>4, <1>5 DEF ClientInv, ProgramInv
<1>7. MainInv
  BY DEF Init, MainInv, Waited, Stopped
<1> QED
  BY <1>2, <1>3, <1>6, <1>7 DEF SInv

LEMMA SInvNext == SInv /\ [Next]_vars => SInv'
BY EndpointsKeep, RelayKeeps, ClientKeeps, ProgramKeeps, MainKeeps DEF SInv

LEMMA AlwaysSInv == Spec => []SInv
BY SInvInit, SInvNext, PTL DEF Spec

(* A session uses the process endpoint only as ProcessEndpoint allows: it  *)
(* delivers, sends and terminates, and never again once it has.            *)
THEOREM SessionUsesProcessEndpoint == Spec => UsesProcessEndpoint
<1>1. Init => P!Init
  BY DEF Init
<1>2. SInv /\ [Next]_vars => [P!Next]_(P!vars)
  BY ProcessStep DEF SInv
<1> QED
  BY <1>1, <1>2, AlwaysSInv, PTL DEF Spec, UsesProcessEndpoint, P!Spec

(* And the WebSocket endpoint only as WebSocketEndpoint allows.            *)
THEOREM SessionUsesWebSocketEndpoint == Spec => UsesWebSocketEndpoint
<1>1. Init => W!Init
  BY DEF Init
<1>2. SInv /\ [Next]_vars => [W!Next]_(W!vars)
  BY ConnectionStep DEF SInv
<1> QED
  BY <1>1, <1>2, AlwaysSInv, PTL DEF Spec, UsesWebSocketEndpoint, W!Spec

LEMMA PrefixByElement ==
  ASSUME NEW S, NEW T, NEW s \in Seq(S), NEW t \in Seq(T), Len(s) <= Len(t),
         \A i \in 1..Len(s) : s[i] = t[i]
  PROVE  IsPrefix(s, t)
BY DEF IsPrefix

(* The client sees, in order and without a gap, what left the process      *)
(* endpoint, however the session ends.                                     *)
THEOREM OutputArrivesInOrder == Spec => []ClientSeesPrefix
<1>1. SInv => ClientSeesPrefix
  <2> SUFFICES ASSUME SInv
               PROVE  IsPrefix(seen, taken)
    BY DEF ClientSeesPrefix
  <2>1. /\ seen \in Seq(OutMsgs) /\ taken \in Seq(OutMsgs) /\ outbound \in Seq(OutMsgs)
    BY DEF SInv, EndpointsInv, WW!Inv, WW!TypeOK, RelayInv
  <2>2. Len(seen) <= Len(taken) /\ \A i \in 1..Len(seen) : seen[i] = taken[i]
    BY <2>1 DEF SInv, ClientInv, Prefixed
  <2> QED
    BY <2>1, <2>2, PrefixByElement
<1> QED
  BY <1>1, AlwaysSInv, PTL

(* What readFrames hands to the relay are the client's messages, in order  *)
(* and without a gap.                                                      *)
THEOREM SessionReadsInOrder == Spec => []MessagesInOrder
<1>1. SInv => MessagesInOrder
  BY WW!OrderFromInv
     DEF SInv, EndpointsInv, MessagesInOrder, W!MessagesInOrder, WW!MessagesInOrder,
         W!IsPrefix, WW!IsPrefix
<1> QED
  BY <1>1, AlwaysSInv, PTL

(* The program reads the client's messages in the order they were sent,    *)
(* none lost between two others.                                           *)
THEOREM InputArrivesInOrder == Spec => []ProgramReadsPrefix
<1>1. SInv => ProgramReadsPrefix
  <2> SUFFICES ASSUME SInv
               PROVE  IsPrefix(consumed, posted)
    BY DEF ProgramReadsPrefix
  <2>1. /\ consumed \in Seq(InMsgs) /\ received \in Seq(InMsgs) /\ inPipe \in Seq(InMsgs)
        /\ posted \in Seq(Nat \ {0}) /\ rheld \in Seq(Nat \ {0})
    BY DEF SInv, EndpointsInv, PP!TypeOK, WW!Inv, WW!TypeOK, RelayInv
  <2>2. Len(consumed) <= Len(received) /\ \A i \in 1..Len(consumed) : consumed[i] = received[i]
    BY <2>1 DEF SInv, ProgramInv, Prefixed
  <2>3. Len(received) <= Len(posted) /\ \A i \in 1..Len(received) : received[i] = posted[i]
    BY <2>1 DEF SInv, EndpointsInv, WW!Inv, WW!PassedInv, WW!Passed
  <2>4. Len(consumed) <= Len(posted) /\ \A i \in 1..Len(consumed) : consumed[i] = posted[i]
    BY <2>1, <2>2, <2>3
  <2> QED
    BY <2>1, <2>4, PrefixByElement
<1> QED
  BY <1>1, AlwaysSInv, PTL

(* When PipeEndpoints returns, both relays have ended, the connection is   *)
(* closed and SIGKILL has reached whatever is left of the group.           *)
THEOREM SessionLeavesNothing == Spec => []NothingLeftRunning
<1>1. SInv => NothingLeftRunning
  <2> SUFFICES ASSUME SInv, main = "returned"
               PROVE  /\ toClient = "done" /\ toProgram = "done"
                      /\ conn = "closed" /\ alive \subseteq killed
    BY DEF NothingLeftRunning
  <2>1. conn = "closed" /\ ladder = "returned"
    BY DEF SInv, MainInv
  <2>2. alive \subseteq killed
    BY <2>1 DEF SInv, EndpointsInv, PP!LadderInv
  <2>3. Stopped(toClient) + Stopped(toProgram) = finished + 2 /\ finished \in Nat
    BY DEF SInv, MainInv, Waited
  <2>4. Stopped(toClient) = 1 /\ Stopped(toProgram) = 1
    <3>1. Stopped(toClient) \in 0..1 /\ Stopped(toProgram) \in 0..1
      BY DEF Stopped
    <3> HIDE DEF Stopped
    <3> QED
      BY <2>3, <3>1
  <2> QED
    BY <2>1, <2>2, <2>4 DEF Stopped
<1> QED
  BY <1>1, AlwaysSInv, PTL

-----------------------------------------------------------------------------
(* A client that stays and sends nothing but messages: only the end of the *)
(* output, or a message that could not be written, ends its session.       *)

Talking == ~Pings /\ client = "here" /\ nframes = Len(posted)

Arrived(s, k) ==
  \E i \in DOMAIN (seen \o outbound) : (seen \o outbound)[i] = [src |-> s, n |-> k]

AllSent ==
  \A s \in PP!Feeders :
    /\ PP!Holders(s) = {}
    /\ \A k \in 1..wrote[s] : Arrived(s, k)

SentAll == toClient = "done" /\ AllSent

(* The relay stopped with a message in its hands. *)
LostMessage == toProgram = "done" /\ Len(consumed) + Len(inPipe) < Len(received)

ReaderWaits == rf # "exit" /\ wsOutput = "open" /\ ~wsDone

HeardInv ==
  /\ Len(posted) <= nframes
  /\ Talking =>
       /\ \A i \in 1..Len(inbound) : inbound[i].kind = "msg"
       /\ conn = "open" => ReaderWaits
       /\ conn = "open" /\ toProgram = "done" => LostMessage
       /\ main = "relaying" => conn = "open" /\ ladder = "idle"
       /\ main = "relaying" /\ toClient = "done" => AllSent
       /\ main # "relaying" => SentAll \/ LostMessage

LEMMA Joined ==
  ASSUME NEW S, NEW f \in Seq(S), NEW b \in Seq(S), NEW a \in Seq(S),
         Len(a) = Len(f) + Len(b),
         \A i \in 1..Len(f) : f[i] = a[i],
         \A i \in 1..Len(b) : b[i] = a[Len(f) + i]
  PROVE  Len(f \o b) = Len(a) /\ \A i \in 1..Len(a) : (f \o b)[i] = a[i]
<1>1. Len(f \o b) = Len(f) + Len(b) /\ Len(f) \in Nat /\ Len(b) \in Nat
  OBVIOUS
<1>2. ASSUME NEW i \in 1..Len(a)
      PROVE  (f \o b)[i] = a[i]
  <2>1. CASE i <= Len(f)
    BY <1>1, <2>1
  <2>2. CASE i > Len(f)
    <3> DEFINE j == i - Len(f)
    <3>1. j \in 1..Len(b) /\ Len(f) + j = i
      BY <1>1, <2>2
    <3>2. (f \o b)[i] = b[j]
      BY <1>1, <2>2, <3>1
    <3> QED
      BY <3>1, <3>2
  <2> QED
    BY <1>1, <2>1, <2>2
<1> QED
  BY <1>1, <1>2

(* Once the output channel is closed in a session nobody ends, what the    *)
(* relay has sent is all that was written.                                 *)
LEMMA DrainedIsSent ==
  ASSUME SInv, client = "here", toClient = "recv", output = "closed", ladder = "idle"
  PROVE  AllSent
<1>1. /\ seen \in Seq(OutMsgs) /\ outbound \in Seq(OutMsgs) /\ taken \in Seq(OutMsgs)
  BY DEF SInv, EndpointsInv, WW!Inv, WW!TypeOK, RelayInv
<1>2. /\ Len(taken) = Len(seen) + Len(outbound)
      /\ \A i \in 1..Len(seen) : seen[i] = taken[i]
      /\ \A i \in 1..Len(outbound) : outbound[i] = taken[Len(seen) + i]
  <2>1. Len(unit) = 0
    BY DEF SInv, RelayInv
  <2> QED
    BY <1>1, <2>1 DEF SInv, ClientInv, Prefixed, Exact
<1>3. Len(seen \o outbound) = Len(taken) /\ \A i \in 1..Len(taken) : (seen \o outbound)[i] = taken[i]
  BY <1>1, <1>2, Joined
<1>4. DOMAIN (seen \o outbound) = DOMAIN taken
  BY <1>1, <1>3
<1>5. ASSUME NEW s \in PP!Feeders
      PROVE  /\ PP!Holders(s) = {}
             /\ \A k \in 1..wrote[s] : PP!Received(s, k)
  <2>1. s \in PP!Streams /\ reader[s] = "exit" /\ ~PP!Done
    BY <1>5, SameConstants, PP!FeedersAreStreams DEF SInv, EndpointsInv, PP!NoSendOnClosedOutput, PP!Done
  <2> QED
    BY <1>5, <2>1 DEF SInv, EndpointsInv, PP!OutputInv, PP!DrainInv
<1>6. ASSUME NEW s, NEW k, PP!Received(s, k)
      PROVE  Arrived(s, k)
  <2>1. PICK i \in DOMAIN taken : taken[i] = [src |-> s, n |-> k]
    BY <1>6 DEF PP!Received, PP!UnitAt
  <2>2. i \in DOMAIN (seen \o outbound) /\ (seen \o outbound)[i] = [src |-> s, n |-> k]
    BY <1>1, <1>3, <1>4, <2>1
  <2> QED
    BY <2>2 DEF Arrived
<1> QED
  BY <1>5, <1>6 DEF AllSent

(* What was sent stays sent, and nothing more is written. *)
LEMMA AllSentStays ==
  ASSUME SInv, [Next]_vars, AllSent, toClient = "done"
  PROVE  AllSent'
<1>1. PP!TypeOK /\ [PP!Next]_(PP!vars) /\ PP!Feeders \subseteq PP!Streams
  BY ProcessStep, SameProcessNext, SameProcessVars, SameConstants, PP!FeedersAreStreams DEF SInv, EndpointsInv
<1>2. seen' \o outbound' = seen \o outbound
  <2>1. seen \in Seq(OutMsgs) /\ outbound \in Seq(OutMsgs)
    BY DEF SInv, EndpointsInv, WW!Inv, WW!TypeOK
  <2>2. CASE W!ClientReceive
    BY <2>1, <2>2 DEF W!ClientReceive
  <2>3. CASE UNCHANGED <<seen, outbound>>
    BY <2>3
  <2> QED
    BY <2>2, <2>3
       DEF Next, vars, wVars, RelayToClient, TakeUnit, SendUnit, StopToClient,
           RelayToProgram, TakeMessage, SendMessage, StopToProgram, W!Deliver, W!sendVars,
           PipeEndpoints, EndProcess, ProcessEnded, EndConnection, Return, W!Terminate,
           ProcessSideStep, ClientSideStep, W!ClientStep, W!ClientSend, W!ClientLeave,
           W!ClientHang, W!ReadStep, W!ReadFrame, W!ReadFails, W!ReadStops,
           W!DeadlinePasses, W!Abandon, W!CloseOutput
<1>3. \A s \in PP!Feeders : PP!Holders(s)' = {} /\ wrote'[s] = wrote[s]
  BY <1>1, SameConstants, PP!HoldersOnlyShrink, PP!NoWriterNoWrite DEF AllSent
<1> QED
  BY <1>2, <1>3 DEF AllSent, Arrived, PP!Feeders

(* A message that was lost stays lost: its relay has stopped. *)
LEMMA LostStays ==
  ASSUME SInv, [Next]_vars, LostMessage
  PROVE  LostMessage'
<1>1. /\ consumed \in Seq(InMsgs) /\ inPipe \in Seq(InMsgs)
      /\ Len(consumed) \in Nat /\ Len(inPipe) \in Nat /\ Len(received) \in Nat
  BY DEF SInv, EndpointsInv, PP!TypeOK, RelayInv
<1>2. toProgram' = "done" /\ received' = received
  BY DEF LostMessage, Next, vars, wVars, relayVars, RelayToClient, TakeUnit, SendUnit,
     StopToClient, W!Send, W!readVars, RelayToProgram, TakeMessage, SendMessage,
     StopToProgram, PipeEndpoints, EndProcess, ProcessEnded, EndConnection, Return,
     W!Terminate, ProcessSideStep, ClientSideStep, W!ClientStep, W!ClientSend,
     W!ClientReceive, W!ClientLeave, W!ClientHang, W!ReadStep, W!ReadFrame, W!ReadFails,
     W!ReadStops, W!DeadlinePasses, W!Abandon, W!CloseOutput
<1>3. CASE \E p \in P!Procs : P!ReadIn(p)
  <2>1. inPipe # <<>> /\ inPipe' = Tail(inPipe) /\ consumed' = Append(consumed, Head(inPipe))
    BY <1>3 DEF P!ReadIn
  <2>2. Len(inPipe') = Len(inPipe) - 1 /\ Len(consumed') = Len(consumed) + 1
    BY <1>1, <2>1
  <2> QED
    BY <1>1, <1>2, <2>2 DEF LostMessage
<1>4. CASE UNCHANGED <<inPipe, consumed>>
  BY <1>2, <1>4 DEF LostMessage
<1> QED
  BY <1>3, <1>4
  DEF LostMessage, Next, vars, pVars, RelayToClient, TakeUnit, SendUnit, StopToClient,
      P!Deliver, RelayToProgram, TakeMessage, SendMessage, StopToProgram, PipeEndpoints,
      EndProcess, ProcessEnded, EndConnection, Return, P!TerminateBegin,
      ProcessSideStep, ClientSideStep, P!ProgramStep, P!WriteOut, P!CloseFd, P!Spawn,
      P!Die, P!ReaderStep, P!Read, P!ReadFails, P!Abandon, P!CloseOutput,
      P!TerminateStep, P!CloseStdin, P!Escalate, P!Terminated, P!GiveUp, P!Reap,
      P!WaitReturns, P!Sweep, P!inVars

(* A client that sends another frame than a message no longer counts, and  *)
(* does not count again.                                                   *)
LEMMA TalkingBefore ==
  ASSUME SInv, HeardInv, [Next]_vars
  PROVE  /\ Len(posted') <= nframes'
         /\ Talking' => Talking /\ \A i \in 1..Len(inbound') : inbound'[i].kind = "msg"
<1>1. /\ nframes \in Nat /\ posted \in Seq(Nat \ {0}) /\ Len(posted) \in Nat
      /\ inbound \in Seq(WW!Frame) /\ Len(posted) <= nframes
  BY DEF SInv, EndpointsInv, WW!Inv, WW!TypeOK, HeardInv
<1>2. Talking => \A i \in 1..Len(inbound) : inbound[i].kind = "msg"
  BY DEF HeardInv
<1>3. CASE \E k \in Kinds : W!ClientSend(k)
  <2>1. PICK k \in Kinds : W!ClientSend(k)
    BY <1>3
  <2> DEFINE f == [kind |-> k, n |-> nframes + 1]
  <2>2. /\ nframes' = nframes + 1 /\ inbound' = Append(inbound, f) /\ client' = client
        /\ posted' = IF k = "msg" THEN Append(posted, nframes + 1) ELSE posted
    BY <2>1 DEF W!ClientSend
  <2>3. k = "msg" => Len(posted') = Len(posted) + 1
    BY <1>1, <2>2
  <2>4. k # "msg" => posted' = posted
    BY <2>2
  <2>5. Len(posted') <= nframes'
    BY <1>1, <2>2, <2>3, <2>4
  <2>6. Talking' => Talking /\ k = "msg"
    BY <1>1, <2>2, <2>3, <2>4 DEF Talking
  <2>7. /\ Len(inbound') = Len(inbound) + 1 /\ inbound'[Len(inbound) + 1].kind = k
        /\ \A i \in 1..Len(inbound) : inbound'[i] = inbound[i]
        /\ Len(inbound) \in Nat
    <3>1. f \in WW!Frame /\ f.kind = k
      BY <1>1, SameConstants DEF WW!Frame, WW!ConstantsOK
    <3> HIDE DEF f
    <3> QED
      BY <1>1, <2>2, <3>1
  <2> QED
    BY <1>2, <2>5, <2>6, <2>7
<1>4. CASE W!ReadFrame
  <2>1. UNCHANGED <<client, nframes, posted>> /\ inbound' = Tail(inbound) /\ inbound # <<>>
    BY <1>4 DEF W!ReadFrame
  <2>2. Len(inbound') = Len(inbound) - 1 /\ \A i \in 1..Len(inbound') : inbound'[i] = inbound[i + 1]
    BY <1>1, <2>1
  <2>3. Len(inbound) \in Nat
    BY <1>1
  <2> QED
    BY <1>1, <1>2, <2>1, <2>2, <2>3 DEF Talking
<1>5. CASE UNCHANGED <<inbound, nframes, posted>> /\ (client' = client \/ client' # "here")
  BY <1>1, <1>2, <1>5 DEF Talking
<1> QED
  BY <1>3, <1>4, <1>5
  DEF Next, vars, wVars, RelayToClient, TakeUnit, SendUnit, StopToClient, W!Send,
      RelayToProgram, TakeMessage, SendMessage, StopToProgram, W!Deliver, W!clientVars,
      PipeEndpoints, EndProcess, ProcessEnded, EndConnection, Return, W!Terminate,
      ProcessSideStep, ClientSideStep, W!ClientStep, W!ClientReceive,
      W!ClientLeave, W!ClientHang, W!ReadStep, W!ReadFails, W!ReadStops,
      W!DeadlinePasses, W!Abandon, W!CloseOutput

(* While the connection is open readFrames goes on, so that its relay      *)
(* stops only when a write fails.                                          *)
LEMMA ReaderGoesOn ==
  ASSUME SInv, HeardInv, [Next]_vars, Talking, conn' = "open"
  PROVE  ReaderWaits' /\ (toProgram' = "done" => LostMessage')
<1>1. conn = "open"
  BY DEF Next, vars, wVars, RelayToClient, TakeUnit, SendUnit, StopToClient, W!Send,
     RelayToProgram, TakeMessage, SendMessage, StopToProgram, W!Deliver, W!endVars,
     PipeEndpoints, EndProcess, ProcessEnded, EndConnection, Return, W!Terminate,
     ProcessSideStep, ClientSideStep, W!ClientStep, W!ClientSend, W!ClientReceive,
     W!ClientLeave, W!ClientHang, W!ReadStep, W!ReadFrame, W!ReadFails, W!ReadStops,
     W!DeadlinePasses, W!Abandon, W!CloseOutput
<1>2. /\ client = "here" /\ ~Pings
      /\ rf # "exit" /\ wsOutput = "open" /\ ~wsDone
      /\ toProgram = "done" => LostMessage
      /\ inbound # <<>> => Head(inbound).kind = "msg"
  <2>1. inbound \in Seq(WW!Frame)
    BY DEF SInv, EndpointsInv, WW!Inv, WW!TypeOK
  <2>2. inbound # <<>> => Head(inbound) = inbound[1] /\ 1 \in 1..Len(inbound)
    BY <2>1
  <2> QED
    BY <1>1, <2>2 DEF HeardInv, Talking, ReaderWaits
<1>3. ReaderWaits'
  <2>1. wsDone' = wsDone
    BY <1>1, <1>2
    DEF Next, vars, wVars, RelayToClient, TakeUnit, SendUnit, StopToClient, W!Send,
        RelayToProgram, TakeMessage, SendMessage, StopToProgram, W!Deliver, W!endVars,
        PipeEndpoints, EndProcess, ProcessEnded, EndConnection, Return, W!Terminate,
        ProcessSideStep, ClientSideStep, W!ClientStep, W!ClientSend, W!ClientReceive,
        W!ClientLeave, W!ClientHang, W!ReadStep, W!ReadFrame, W!ReadFails, W!ReadStops,
        W!DeadlinePasses, W!Abandon, W!CloseOutput
  <2>2. rf' # "exit" /\ wsOutput' = "open"
    <3>1. CASE ClientSideStep
      BY <1>1, <1>2, <3>1
      DEF ClientSideStep, W!ClientStep, W!ClientSend, W!ClientReceive, W!ClientLeave,
          W!ClientHang, W!ReadStep, W!ReadFrame, W!ReadFails, W!ReadStops,
          W!DeadlinePasses, W!Abandon, W!CloseOutput, W!readVars
    <3> QED
      BY <1>2, <3>1
      DEF Next, vars, wVars, RelayToClient, TakeUnit, SendUnit, StopToClient, W!Send,
          RelayToProgram, TakeMessage, SendMessage, StopToProgram, W!Deliver, W!readVars,
          PipeEndpoints, EndProcess, ProcessEnded, EndConnection, Return, W!Terminate,
          ProcessSideStep
  <2> QED
    BY <1>2, <2>1, <2>2 DEF ReaderWaits
<1>4. ASSUME toProgram' = "done"
      PROVE  LostMessage'
  <2>1. CASE toProgram = "done"
    BY <1>2, <2>1, LostStays
  <2>2. CASE StopToProgram
    <3>1. toProgram = "send"
      BY <1>2, <2>2 DEF StopToProgram
    <3>2. Len(received) = Len(consumed) + Len(inPipe) + 1
      BY <3>1 DEF SInv, RelayInv, ProgramInv, Exact
    <3>3. Len(consumed) + Len(inPipe) \in Nat
      BY DEF SInv, EndpointsInv, PP!TypeOK
    <3> QED
      BY <2>2, <3>2, <3>3 DEF StopToProgram, pVars, wVars, LostMessage
  <2>3. CASE toProgram # "done" /\ ~StopToProgram
    BY <1>4, <2>3
    DEF Next, vars, relayVars, RelayToClient, TakeUnit, SendUnit, StopToClient,
        RelayToProgram, TakeMessage, SendMessage, PipeEndpoints, EndProcess,
        ProcessEnded, EndConnection, Return, ProcessSideStep, ClientSideStep
  <2> QED
    BY <2>1, <2>2, <2>3
<1> QED
  BY <1>3, <1>4

(* Either relay stops for its own reason while PipeEndpoints waits for the *)
(* first, and that reason lasts.                                           *)
LEMMA HeardKeeps ==
  ASSUME SInv, HeardInv, [Next]_vars
  PROVE  HeardInv'
<1>1. /\ Len(posted') <= nframes'
      /\ Talking' => Talking /\ \A i \in 1..Len(inbound') : inbound'[i].kind = "msg"
  BY TalkingBefore
<1> SUFFICES ASSUME Talking'
             PROVE  /\ conn' = "open" => ReaderWaits'
                    /\ conn' = "open" /\ toProgram' = "done" => LostMessage'
                    /\ main' = "relaying" => conn' = "open" /\ ladder' = "idle"
                    /\ main' = "relaying" /\ toClient' = "done" => AllSent'
                    /\ main' # "relaying" => SentAll' \/ LostMessage'
  BY <1>1 DEF HeardInv
<1>2. /\ client = "here"
      /\ conn = "open" /\ toProgram = "done" => LostMessage
      /\ main = "relaying" => conn = "open" /\ ladder = "idle"
      /\ main = "relaying" /\ toClient = "done" => AllSent
      /\ main # "relaying" => SentAll \/ LostMessage
  BY <1>1 DEF Talking, HeardInv
<1>3. conn' = "open" => ReaderWaits' /\ (toProgram' = "done" => LostMessage')
  BY <1>1, ReaderGoesOn
<1>4. ASSUME main' = "relaying"
      PROVE  conn' = "open" /\ ladder' = "idle"
  <2>1. main = "relaying" /\ ~PipeEndpoints
    BY <1>4 DEF Next, vars, relayVars, RelayToClient, TakeUnit, SendUnit, StopToClient,
       RelayToProgram, TakeMessage, SendMessage, StopToProgram, PipeEndpoints, EndProcess,
       ProcessEnded, EndConnection, Return, ProcessSideStep, ClientSideStep
  <2>2. conn = "open" /\ ladder = "idle"
    BY <1>2, <2>1
  <2>3. conn' = conn
    BY <2>1 DEF Next, vars, wVars, RelayToClient, TakeUnit, SendUnit, StopToClient, W!Send,
       RelayToProgram, TakeMessage, SendMessage, StopToProgram, W!Deliver, W!endVars,
       ProcessSideStep, ClientSideStep, W!ClientStep, W!ClientSend, W!ClientReceive,
       W!ClientLeave, W!ClientHang, W!ReadStep, W!ReadFrame, W!ReadFails, W!ReadStops,
       W!DeadlinePasses, W!Abandon, W!CloseOutput
  <2>4. waiter = "none"
    BY <2>2 DEF SInv, EndpointsInv, PP!OutputInv, PP!DrainInv, PP!Done
  <2>5. DOMAIN P!NextRung = {"stdin", "SIGINT", "SIGTERM"}
    BY DEF P!NextRung
  <2>6. ~P!TerminateStep
    BY <2>2, <2>4, <2>5 DEF P!TerminateStep, P!CloseStdin, P!Escalate, P!Terminated,
       P!GiveUp, P!Reap, P!WaitReturns, P!Rungs, P!Signals
  <2>7. ladder' = ladder
    BY <2>1, <2>6 DEF Next, vars, pVars, RelayToClient, TakeUnit, SendUnit, StopToClient,
       RelayToProgram, TakeMessage, SendMessage, StopToProgram, P!Deliver, P!Send,
       ProcessSideStep, ClientSideStep, P!ProgramStep, P!WriteOut, P!ReadIn, P!CloseFd,
       P!Spawn, P!Die, P!ReaderStep, P!Read, P!ReadFails, P!Abandon, P!CloseOutput, P!endVars
  <2> QED
    BY <2>2, <2>3, <2>7
<1>5. toClient = "done" => toClient' = "done"
  BY DEF Next, vars, relayVars, RelayToClient, TakeUnit, SendUnit, StopToClient,
     RelayToProgram, TakeMessage, SendMessage, StopToProgram, PipeEndpoints, EndProcess,
     ProcessEnded, EndConnection, Return, ProcessSideStep, ClientSideStep
<1>6. ASSUME main = "relaying", toClient' = "done"
      PROVE  AllSent'
  <2>1. CASE toClient = "done"
    BY <1>2, <1>6, <2>1, AllSentStays
  <2>2. CASE StopToClient /\ toClient # "done"
    <3>1. conn = "open" /\ ladder = "idle"
      BY <1>2, <1>6
    <3>2. toClient = "recv" /\ output = "closed"
      BY <1>2, <2>2, <3>1 DEF StopToClient, W!SendFails
    <3>3. AllSent
      BY <1>2, <3>1, <3>2, DrainedIsSent
    <3> QED
      BY <2>2, <3>3 DEF StopToClient, pVars, wVars, AllSent, Arrived, PP!Holders
  <2>3. CASE toClient # "done" /\ ~StopToClient
    BY <1>6, <2>3
       DEF Next, vars, relayVars, RelayToClient, TakeUnit, SendUnit, RelayToProgram,
           TakeMessage, SendMessage, StopToProgram, PipeEndpoints, EndProcess,
           ProcessEnded, EndConnection, Return, ProcessSideStep, ClientSideStep
  <2> QED
    BY <2>1, <2>2, <2>3
<1>7. main' = "relaying" => main = "relaying"
  BY DEF Next, vars, relayVars, RelayToClient, TakeUnit, SendUnit, StopToClient,
     RelayToProgram, TakeMessage, SendMessage, StopToProgram, PipeEndpoints, EndProcess,
     ProcessEnded, EndConnection, Return, ProcessSideStep, ClientSideStep
<1>8. ASSUME main' # "relaying"
      PROVE  SentAll' \/ LostMessage'
  <2>1. CASE EndProcess
    <3>1. main = "relaying" /\ finished > 0
      BY <2>1 DEF EndProcess
    <3>2. finished \in Nat /\ finished = Stopped(toClient) + Stopped(toProgram)
      BY <3>1 DEF SInv, MainInv, Waited
    <3>3. toClient = "done" \/ toProgram = "done"
      BY <3>1, <3>2 DEF Stopped
    <3>4. toClient = "done" => SentAll'
      BY <1>5, <1>6, <3>1 DEF SentAll
    <3>5. toProgram = "done" => LostMessage'
      BY <1>2, <3>1, LostStays
    <3> QED
      BY <3>3, <3>4, <3>5
  <2>2. CASE main # "relaying"
    <3>1. SentAll => SentAll'
      BY <1>5, AllSentStays DEF SentAll
    <3> QED
      BY <1>2, <2>2, <3>1, LostStays
  <2>3. CASE main = "relaying" /\ ~EndProcess
    BY <1>8, <2>3
       DEF Next, vars, relayVars, RelayToClient, TakeUnit, SendUnit, StopToClient,
           RelayToProgram, TakeMessage, SendMessage, StopToProgram, PipeEndpoints,
           ProcessEnded, EndConnection, Return, ProcessSideStep, ClientSideStep
  <2> QED
    BY <2>1, <2>2, <2>3
<1> QED
  BY <1>3, <1>4, <1>6, <1>7, <1>8

(* A client that stays, sends only messages and is not pinged misses some  *)
(* of the output only if a message of its own could not be written to the  *)
(* program's stdin.                                                        *)
THEOREM HeardSessionIsComplete == Spec => []HeardClientGetsAll
<1>1. Init => HeardInv
  <2> SUFFICES ASSUME Init
               PROVE  HeardInv
    OBVIOUS
  <2>1. inbound = <<>> /\ posted = <<>> /\ nframes = 0
    BY DEF Init, W!Init
  <2>2. Len(inbound) = 0 /\ Len(posted) = 0
    BY <2>1
  <2> QED
    BY <2>1, <2>2 DEF Init, P!Init, W!Init, HeardInv, ReaderWaits
<1>2. SInv /\ HeardInv => HeardClientGetsAll
  <2> SUFFICES ASSUME SInv, HeardInv, Talking, consumed \o inPipe = posted,
                      main # "relaying"
               PROVE  AllSent
    <3>1. PP!Feeders = P!Feeders
      BY DEF P!Feeders, PP!Feeders, P!Streams, PP!Streams
    <3> QED
      BY <3>1 DEF HeardClientGetsAll, Talking, AllSent, Arrived
  <2>1. Len(consumed) + Len(inPipe) = Len(posted)
    <3>1. consumed \in Seq(InMsgs) /\ inPipe \in Seq(InMsgs)
      BY DEF SInv, EndpointsInv, PP!TypeOK
    <3> QED
      BY <3>1
  <2>2. Len(received) <= Len(posted)
    BY DEF SInv, EndpointsInv, WW!Inv, WW!TypeOK, WW!PassedInv, WW!Passed
  <2>3. ~LostMessage
    <3>1. Len(received) \in Nat /\ Len(posted) \in Nat
      BY DEF SInv, EndpointsInv, WW!Inv, WW!TypeOK
    <3> QED
      BY <2>1, <2>2, <3>1 DEF LostMessage
  <2> QED
    BY <2>3 DEF HeardInv, SentAll
<1> QED
  BY <1>1, <1>2, HeardKeeps, AlwaysSInv, PTL DEF Spec

-----------------------------------------------------------------------------
(* The teardown ends.  The endpoints' own theorems promise their part of   *)
(* it; they hold of the same fairness and the same guards, definition by   *)
(* definition.                                                             *)

LEMMA SameReader ==
  ASSUME NEW s
  PROVE  /\ P!ReaderFairness(s) <=> PP!ReaderFairness(s)
         /\ P!ReaderUnhindered(s) <=> PP!ReaderUnhindered(s)
<1>1. P!ReaderFairness(s) <=> PP!ReaderFairness(s)
  BY PTL
  DEF P!ReaderFairness, PP!ReaderFairness, P!ReaderRuns, PP!ReaderRuns, P!Read, PP!Read,
      P!ReadFails, PP!ReadFails, P!Abandon, PP!Abandon, P!Feeders, PP!Feeders,
      P!Holders, PP!Holders, P!Done, PP!Done, P!Streams, PP!Streams, P!vars, PP!vars,
      P!progVars, PP!progVars, P!outVars, PP!outVars, P!inVars, PP!inVars,
      P!endVars, PP!endVars
<1>2. P!ReaderUnhindered(s) <=> PP!ReaderUnhindered(s)
  BY
  DEF P!ReaderUnhindered, PP!ReaderUnhindered, P!ReaderMayRun, PP!ReaderMayRun,
      P!ReaderRuns, PP!ReaderRuns, P!Read, PP!Read, P!ReadFails, PP!ReadFails,
      P!Abandon, PP!Abandon, P!Feeders, PP!Feeders, P!Holders, PP!Holders, P!Done, PP!Done,
      P!Streams, PP!Streams, P!vars, PP!vars, P!progVars, PP!progVars, P!outVars, PP!outVars,
      P!inVars, PP!inVars, P!endVars, PP!endVars
<1> QED BY <1>1, <1>2

LEMMA SameCloser ==
  /\ WF_(P!vars)(P!CloseOutput) <=> WF_(PP!vars)(PP!CloseOutput)
  /\ P!CloserUnhindered <=> PP!CloserUnhindered
<1>1. WF_(P!vars)(P!CloseOutput) <=> WF_(PP!vars)(PP!CloseOutput)
  BY PTL
  DEF P!CloseOutput, PP!CloseOutput, P!Feeders, PP!Feeders, P!Streams, PP!Streams,
      P!vars, PP!vars, P!progVars, PP!progVars, P!outVars, PP!outVars, P!inVars, PP!inVars,
      P!endVars, PP!endVars
<1>2. P!CloserUnhindered <=> PP!CloserUnhindered
  BY
  DEF P!CloserUnhindered, PP!CloserUnhindered, P!OutputMayClose, PP!OutputMayClose,
      P!CloseOutput, PP!CloseOutput, P!Feeders, PP!Feeders, P!Streams, PP!Streams,
      P!vars, PP!vars, P!progVars, PP!progVars, P!outVars, PP!outVars, P!inVars, PP!inVars,
      P!endVars, PP!endVars
<1> QED BY <1>1, <1>2, PTL

LEMMA SameLadder ==
  /\ WF_(P!vars)(P!LadderRuns) <=> WF_(PP!vars)(PP!LadderRuns)
  /\ P!LadderUnhindered <=> PP!LadderUnhindered
<1>1. WF_(P!vars)(P!LadderRuns) <=> WF_(PP!vars)(PP!LadderRuns)
  BY PTL
  DEF P!LadderRuns, PP!LadderRuns, P!CloseStdin, PP!CloseStdin, P!Escalate, PP!Escalate,
      P!Terminated, PP!Terminated, P!GiveUp, PP!GiveUp, P!Sweep, PP!Sweep,
      P!NextRung, PP!NextRung, P!Rungs, PP!Rungs, P!Signals, PP!Signals, P!vars, PP!vars,
      P!progVars, PP!progVars, P!outVars, PP!outVars, P!inVars, PP!inVars,
      P!endVars, PP!endVars
<1>2. P!LadderUnhindered <=> PP!LadderUnhindered
  BY
  DEF P!LadderUnhindered, PP!LadderUnhindered, P!LadderMayRun, PP!LadderMayRun,
      P!LadderRuns, PP!LadderRuns, P!CloseStdin, PP!CloseStdin, P!Escalate, PP!Escalate,
      P!Terminated, PP!Terminated, P!GiveUp, PP!GiveUp, P!Sweep, PP!Sweep,
      P!NextRung, PP!NextRung, P!Rungs, PP!Rungs, P!Signals, PP!Signals, P!vars, PP!vars,
      P!progVars, PP!progVars, P!outVars, PP!outVars, P!inVars, PP!inVars,
      P!endVars, PP!endVars
<1> QED BY <1>1, <1>2, PTL

LEMMA SameWaiter ==
  /\ WF_(P!vars)(P!WaiterRuns) <=> WF_(PP!vars)(PP!WaiterRuns)
  /\ P!WaiterUnhindered <=> PP!WaiterUnhindered
<1>1. WF_(P!vars)(P!WaiterRuns) <=> WF_(PP!vars)(PP!WaiterRuns)
  BY PTL
  DEF P!WaiterRuns, PP!WaiterRuns, P!Reap, PP!Reap, P!WaitReturns, PP!WaitReturns,
      P!vars, PP!vars, P!progVars, PP!progVars, P!outVars, PP!outVars, P!inVars, PP!inVars,
      P!endVars, PP!endVars
<1>2. P!WaiterUnhindered <=> PP!WaiterUnhindered
  BY
  DEF P!WaiterUnhindered, PP!WaiterUnhindered, P!WaiterMayRun, PP!WaiterMayRun,
      P!WaiterRuns, PP!WaiterRuns, P!Reap, PP!Reap, P!WaitReturns, PP!WaitReturns,
      P!vars, PP!vars, P!progVars, PP!progVars, P!outVars, PP!outVars, P!inVars, PP!inVars,
      P!endVars, PP!endVars
<1> QED BY <1>1, <1>2, PTL

LEMMA SameKernel ==
  ASSUME NEW p
  PROVE  /\ P!KillFairness(p) <=> PP!KillFairness(p)
         /\ P!KernelUnhindered(p) <=> PP!KernelUnhindered(p)
<1>1. P!KillFairness(p) <=> PP!KillFairness(p)
  BY PTL
  DEF P!KillFairness, PP!KillFairness, P!KernelKills, PP!KernelKills, P!Die, PP!Die,
      P!vars, PP!vars, P!progVars, PP!progVars, P!outVars, PP!outVars, P!inVars, PP!inVars,
      P!endVars, PP!endVars
<1>2. P!KernelUnhindered(p) <=> PP!KernelUnhindered(p)
  BY
  DEF P!KernelUnhindered, PP!KernelUnhindered, P!KernelMayKill, PP!KernelMayKill,
      P!KernelKills, PP!KernelKills, P!Die, PP!Die, P!vars, PP!vars, P!progVars, PP!progVars,
      P!outVars, PP!outVars, P!inVars, PP!inVars, P!endVars, PP!endVars
<1> QED BY <1>1, <1>2

LEMMA SameReadFrames ==
  /\ W!Fairness <=> WW!Fairness
  /\ W!ReadUnhindered <=> WW!ReadUnhindered
<1>1. W!Fairness <=> WW!Fairness
  BY PTL
  DEF W!Fairness, WW!Fairness, W!ReadRuns, WW!ReadRuns, W!ReadFrame, WW!ReadFrame,
      W!ReadFails, WW!ReadFails, W!ReadStops, WW!ReadStops, W!Abandon, WW!Abandon,
      W!CloseOutput, WW!CloseOutput, W!vars, WW!vars, W!clientVars, WW!clientVars,
      W!readVars, WW!readVars, W!sendVars, WW!sendVars, W!endVars, WW!endVars
<1>2. W!ReadUnhindered <=> WW!ReadUnhindered
  BY
  DEF W!ReadUnhindered, WW!ReadUnhindered, W!ReadMayRun, WW!ReadMayRun,
      W!ReadRuns, WW!ReadRuns, W!ReadFrame, WW!ReadFrame, W!ReadFails, WW!ReadFails,
      W!ReadStops, WW!ReadStops, W!Abandon, WW!Abandon, W!CloseOutput, WW!CloseOutput,
      W!vars, WW!vars, W!clientVars, WW!clientVars, W!readVars, WW!readVars,
      W!sendVars, WW!sendVars, W!endVars, WW!endVars
<1> QED BY <1>1, <1>2, PTL

LEMMA SameProcessFairness == P!Fairness /\ P!KernelFairness => PP!Fairness /\ PP!KernelFairness
<1>1. (\A s \in P!Streams : P!ReaderFairness(s)) => (\A s \in PP!Streams : PP!ReaderFairness(s))
  BY SameReader DEF P!Streams, PP!Streams
<1>2. P!KernelFairness => PP!KernelFairness
  BY SameKernel DEF P!KernelFairness, PP!KernelFairness, P!Procs, PP!Procs
<1> QED
  BY <1>1, <1>2, SameCloser, SameLadder, SameWaiter, PTL DEF P!Fairness, PP!Fairness

LEMMA SameUnhindered == P!Unhindered => PP!Unhindered
<1>1. (\A s \in P!Streams : P!ReaderUnhindered(s)) => (\A s \in PP!Streams : PP!ReaderUnhindered(s))
  BY SameReader DEF P!Streams, PP!Streams
<1>2. (\A p \in P!Procs : P!KernelUnhindered(p)) => (\A p \in PP!Procs : PP!KernelUnhindered(p))
  BY SameKernel DEF P!Procs, PP!Procs
<1> QED
  BY <1>1, <1>2, SameCloser, SameLadder, SameWaiter, PTL DEF P!Unhindered, PP!Unhindered

(* Each goroutine of an endpoint uses up what it still has to read.        *)
ReadersDescend == \A s \in PP!Streams : PP!UnreadDescends(s)
FramesDescend == WW!Descends(WW!InFlight)

LEMMA ProcessTeardown ==
  FairSpec /\ []P!Unhindered /\ ReadersDescend => (PP!Done ~> []PP!Ended)
<1>1. Spec => PP!Spec
  <2>1. P!Init => PP!Init
    BY SameProcessInit
  <2>2. [P!Next]_(P!vars) => [PP!Next]_(PP!vars)
    BY SameProcessNext, SameProcessVars
  <2> QED
    BY <2>1, <2>2, SessionUsesProcessEndpoint, PTL DEF UsesProcessEndpoint, P!Spec, PP!Spec
<1>2. ReadersDescend => PP!Measures
  BY DEF ReadersDescend, PP!Measures
<1> QED
  BY <1>1, <1>2, SameProcessFairness, SameUnhindered, PP!TeardownStays, SameConstants, PTL
  DEF FairSpec, Fairness, PP!FairSpec

LEMMA ConnectionTeardown ==
  FairSpec /\ []W!ReadUnhindered /\ FramesDescend
    => (wsDone ~> [](rf = "exit" /\ wsOutput = "closed"))
<1>1. Spec => WW!Spec
  <2>1. W!Init => WW!Init
    BY SameConnectionInit
  <2>2. [W!Next]_(W!vars) => [WW!Next]_(WW!vars)
    BY SameConnectionNext, SameConnectionVars
  <2> QED
    BY <2>1, <2>2, SessionUsesWebSocketEndpoint, PTL DEF UsesWebSocketEndpoint, W!Spec, WW!Spec
<1>2. WW!FairSpec /\ []WW!ReadUnhindered /\ WW!Descends(WW!InFlight)
        => (wsDone ~> [](rf = "exit" /\ wsOutput = "closed"))
  BY WW!ReadFramesEnds, SameConstants
<1> QED
  BY <1>1, <1>2, SameReadFrames, PTL DEF FairSpec, Fairness, FramesDescend, WW!FairSpec

(* PipeEndpoints' place says which endpoint it has terminated.             *)
EndInv ==
  /\ main # "relaying" => PP!Done
  /\ main \in {"waiting", "returned"} => wsDone

Relayed == toClient = "done" \/ toProgram = "done"

LEMMA PipeSteps ==
  ASSUME SInv, EndInv, [Next]_vars
  PROVE  /\ EndInv'
         /\ Relayed => Relayed'
         /\ toClient = "done" => (toClient = "done")'
         /\ toProgram = "done" => (toProgram = "done")'
         /\ main = "relaying" => (main = "relaying")' \/ (main = "ending process")'
         /\ main = "ending process" => (main = "ending process")' \/ (main = "ending connection")'
         /\ main = "ending connection" => (main = "ending connection")' \/ (main = "waiting")'
         /\ main = "waiting" => (main = "waiting")' \/ (main = "returned")'
         /\ main = "returned" => (main = "returned")'
<1> USE DEF EndInv, Relayed, PP!Done, pVars, wVars, relayVars, vars
<1>1. [PP!Next]_(PP!vars) /\ PP!TypeOK
  BY ProcessStep, SameProcessNext, SameProcessVars DEF SInv, EndpointsInv
<1>2. [WW!Next]_(WW!vars)
  BY ConnectionStep, SameConnectionNext, SameConnectionVars DEF SInv
<1>3. PP!Done => PP!Done'
  BY <1>1, PP!DoneStays, SameConstants
<1>4. wsDone => wsDone'
  BY <1>2, WW!DoneStays
<1>5. CASE RelayToClient
  BY <1>3, <1>4, <1>5 DEF RelayToClient, TakeUnit, SendUnit, StopToClient
<1>6. CASE RelayToProgram
  BY <1>3, <1>4, <1>6 DEF RelayToProgram, TakeMessage, SendMessage, StopToProgram
<1>7. CASE PipeEndpoints
  BY <1>3, <1>4, <1>7 DEF PipeEndpoints, EndProcess, ProcessEnded, EndConnection, Return,
     P!TerminateBegin, W!Terminate
<1>8. CASE UNCHANGED relayVars
  BY <1>3, <1>4, <1>8
<1> QED
  BY <1>5, <1>6, <1>7, <1>8 DEF Next, ProcessSideStep, ClientSideStep

LEMMA PipeMoves ==
  ASSUME <<PipeEndpoints>>_vars
  PROVE  /\ main = "relaying" => (main = "ending process")'
         /\ main = "ending process" => (main = "ending connection")'
         /\ main = "ending connection" => (main = "waiting")'
         /\ main = "waiting" => (main = "returned")'
BY DEF PipeEndpoints, EndProcess, ProcessEnded, EndConnection, Return

(* A relay that stopped has left its signal, and nobody took it since.     *)
LEMMA SignalsArrive ==
  ASSUME SInv
  PROVE  /\ Relayed /\ main = "relaying" => PipeMayRun
         /\ toClient = "done" /\ toProgram = "done" /\ main = "waiting" => PipeMayRun
<1>1. /\ finished \in Nat
      /\ finished + Waited = Stopped(toClient) + Stopped(toProgram)
  BY DEF SInv, MainInv
<1>2. Stopped(toClient) \in 0..1 /\ Stopped(toProgram) \in 0..1
      /\ (toClient = "done" => Stopped(toClient) = 1)
      /\ (toProgram = "done" => Stopped(toProgram) = 1)
  BY DEF Stopped
<1>3. /\ main = "relaying" => Waited = 0
      /\ main = "waiting" => Waited = 1
  BY DEF Waited
<1>4. Relayed /\ main = "relaying" => finished > 0
  BY <1>1, <1>2, <1>3 DEF Relayed
<1>5. toClient = "done" /\ toProgram = "done" /\ main = "waiting" => finished > 0
  BY <1>1, <1>2, <1>3
<1> QED
  BY <1>4, <1>5 DEF PipeMayRun

(* Both endpoints have ended: neither relay has anything to wait for.      *)
BothEnded ==
  /\ PP!Ended
  /\ stdin = "closed"
  /\ conn = "closed"
  /\ rf = "exit" /\ wsOutput = "closed"

LEMMA RelaysMayRun ==
  ASSUME SInv, BothEnded
  PROVE  /\ ToClientMayRun \/ toClient = "done"
         /\ ToProgramMayRun \/ toProgram = "done"
BY DEF SInv, RelayInv, BothEnded, PP!Ended, ToClientMayRun, ToProgramMayRun,
       W!SendFails, P!SendFails

LEMMA RelaysMove ==
  ASSUME BothEnded
  PROVE  /\ <<RelayToClient>>_vars => (toClient = "done")'
         /\ <<RelayToProgram>>_vars => (toProgram = "done")'
<1>1. \A s \in P!Streams : reader[s] = "exit"
  BY DEF BothEnded, PP!Ended, P!Streams, PP!Streams
<1>2. RelayToClient => StopToClient
  BY <1>1 DEF RelayToClient, TakeUnit, SendUnit, P!Deliver, W!Send, BothEnded
<1>3. RelayToProgram => StopToProgram
  BY DEF RelayToProgram, TakeMessage, SendMessage, W!Deliver, P!Send, BothEnded
<1> QED BY <1>2, <1>3 DEF StopToClient, StopToProgram

LEMMA AlwaysEndInv == Spec => []EndInv
<1>1. Init => EndInv
  BY DEF Init, EndInv
<1> QED BY <1>1, PipeSteps, AlwaysSInv, PTL DEF Spec

Leaving == main # "relaying"

LEMMA LeavingFacts ==
  /\ SInv => Leaving \/ main = "relaying"
  /\ SInv /\ Leaving => \/ main = "ending process" \/ main = "ending connection"
                        \/ main = "waiting" \/ main = "returned"
  /\ main = "ending process" => Leaving
  /\ EndInv /\ Leaving => PP!Done
BY DEF Leaving, SInv, MainInv, EndInv

LEMMA LeavingStays == SInv /\ EndInv /\ [Next]_vars /\ Leaving => Leaving'
BY PipeSteps, LeavingFacts DEF Leaving

(* The first relay's signal sends PipeEndpoints on its way.                *)
LEMMA PipeEndpointsLeaves ==
  FairSpec /\ []RelaysUnhindered => (Relayed ~> []Leaving)
<1>1. RelaysUnhindered /\ PipeMayRun => ENABLED <<PipeEndpoints>>_vars
  BY DEF RelaysUnhindered
<1> QED
  BY <1>1, LeavingFacts, LeavingStays, PipeSteps, PipeMoves, SignalsArrive, AlwaysSInv,
     AlwaysEndInv, PTL
  DEF FairSpec, Fairness, RelayFairness, Spec

(* Once Terminate has returned it goes on to the connection.               *)
LEMMA ConnectionIsEnded ==
  FairSpec /\ []RelaysUnhindered
    => ([]Leaving /\ []PP!Ended ~> []wsDone /\ [](conn = "closed")
                                  /\ []((main = "waiting") \/ (main = "returned")))
<1>1. RelaysUnhindered /\ PipeMayRun => ENABLED <<PipeEndpoints>>_vars
  BY DEF RelaysUnhindered
<1>2. PP!Ended /\ (main = "ending process" \/ main = "ending connection") => PipeMayRun
  BY DEF PP!Ended, PipeMayRun
<1>3. SInv /\ EndInv /\ (main = "waiting" \/ main = "returned") => wsDone /\ conn = "closed"
  BY DEF SInv, MainInv, EndInv
<1> QED
  BY <1>1, <1>2, <1>3, LeavingFacts, PipeSteps, PipeMoves, AlwaysSInv, AlwaysEndInv, PTL
  DEF FairSpec, Fairness, RelayFairness, Spec

(* With both endpoints ended, each relay is on its way out.                *)
LEMMA RelaysEnd ==
  FairSpec /\ []RelaysUnhindered
    => ([]BothEnded ~> [](toClient = "done") /\ [](toProgram = "done"))
<1>1. RelaysUnhindered => /\ ToClientMayRun => ENABLED <<RelayToClient>>_vars
                          /\ ToProgramMayRun => ENABLED <<RelayToProgram>>_vars
  BY DEF RelaysUnhindered
<1>2. FairSpec /\ []RelaysUnhindered => ([]BothEnded ~> [](toClient = "done"))
  BY <1>1, RelaysMayRun, RelaysMove, PipeSteps, AlwaysSInv, AlwaysEndInv, PTL
  DEF FairSpec, Fairness, RelayFairness, Spec
<1>3. FairSpec /\ []RelaysUnhindered => ([]BothEnded ~> [](toProgram = "done"))
  BY <1>1, RelaysMayRun, RelaysMove, PipeSteps, AlwaysSInv, AlwaysEndInv, PTL
  DEF FairSpec, Fairness, RelayFairness, Spec
<1> QED BY <1>2, <1>3, PTL

(* And PipeEndpoints, which waits for the second signal, returns.          *)
LEMMA PipeEndpointsReturns ==
  FairSpec /\ []RelaysUnhindered
    => ([](toClient = "done") /\ [](toProgram = "done")
          /\ []((main = "waiting") \/ (main = "returned")) ~> [](main = "returned"))
<1>1. RelaysUnhindered /\ PipeMayRun => ENABLED <<PipeEndpoints>>_vars
  BY DEF RelaysUnhindered
<1> QED
  BY <1>1, PipeSteps, PipeMoves, SignalsArrive, AlwaysSInv, AlwaysEndInv, PTL
  DEF FairSpec, Fairness, RelayFairness, Spec

(* Once either relay has stopped the session comes to an end: both         *)
(* Terminates return, readers, readFrames, waiter and the other relay end, *)
(* and PipeEndpoints returns, whatever client and program do.  Premises:   *)
(* no goroutine waits but for what the code has it wait for, and what a    *)
(* goroutine has left to read does not shrink for ever.                    *)
THEOREM SessionTeardownEnds ==
  FairSpec /\ []Unhindered /\ ReadersDescend /\ FramesDescend => TeardownCompletes
<1>1. Unhindered => P!Unhindered /\ W!ReadUnhindered /\ RelaysUnhindered
  BY DEF Unhindered
<1>2. PP!Ended => /\ \A s \in P!Streams : reader[s] = "exit"
                  /\ waiter = "sent"
  BY DEF PP!Ended, P!Streams, PP!Streams
<1>3. Spec => []PP!WaitInv
  <2>1. P!Init => PP!Init
    BY SameProcessInit
  <2>2. [P!Next]_(P!vars) => [PP!Next]_(PP!vars)
    BY SameProcessNext, SameProcessVars
  <2>3. PP!Spec => []PP!WaitInv
    BY PP!AlwaysWaitInv, SameConstants
  <2> QED
    BY <2>1, <2>2, <2>3, SessionUsesProcessEndpoint, PTL DEF UsesProcessEndpoint, P!Spec, PP!Spec
<1>4. PP!WaitInv /\ PP!Ended /\ conn = "closed" /\ rf = "exit" /\ wsOutput = "closed" => BothEnded
  BY DEF PP!WaitInv, PP!Ended, BothEnded
<1>5. FairSpec => Spec
  BY PTL DEF FairSpec
<1>6. FairSpec /\ []Unhindered /\ ReadersDescend /\ FramesDescend
        => /\ Relayed ~> []Leaving
           /\ [](Leaving => PP!Done)
           /\ PP!Done ~> []PP!Ended
           /\ []Leaving /\ []PP!Ended ~> []wsDone /\ [](conn = "closed")
                                         /\ []((main = "waiting") \/ (main = "returned"))
           /\ wsDone ~> [](rf = "exit" /\ wsOutput = "closed")
           /\ []BothEnded ~> [](toClient = "done") /\ [](toProgram = "done")
           /\ [](toClient = "done") /\ [](toProgram = "done")
                 /\ []((main = "waiting") \/ (main = "returned")) ~> [](main = "returned")
           /\ []PP!WaitInv
  BY <1>1, <1>3, <1>5, PipeEndpointsLeaves, LeavingFacts, AlwaysEndInv, ProcessTeardown,
     ConnectionIsEnded, ConnectionTeardown, RelaysEnd, PipeEndpointsReturns, PTL
<1> DEFINE Premises == FairSpec /\ []Unhindered /\ ReadersDescend /\ FramesDescend
           AtLast == (main = "waiting") \/ (main = "returned")
           Silent == rf = "exit" /\ wsOutput = "closed"
<1>7. Premises => (Relayed ~> []Leaving /\ []PP!Ended)
  BY <1>6, PTL
<1>8. Premises => (Relayed ~> []PP!Ended /\ []wsDone /\ [](conn = "closed") /\ []AtLast)
  BY <1>6, <1>7, PTL
<1>9. Premises => (Relayed ~> []PP!Ended /\ []Silent /\ [](conn = "closed") /\ []AtLast)
  BY <1>6, <1>8, PTL
<1>10. Premises => (Relayed ~> []PP!Ended /\ []Silent /\ []BothEnded /\ []AtLast)
  BY <1>4, <1>6, <1>9, PTL
<1>11. Premises => (Relayed ~> []PP!Ended /\ []Silent /\ [](main = "returned"))
  BY <1>6, <1>10, PTL
<1> QED
  BY <1>2, <1>11, PTL DEF TeardownCompletes, Relayed

-----------------------------------------------------------------------------
(* The end of either side ends the session.  What a client that sends no   *)
(* more has sent moves one way only: from the connection to readFrames,    *)
(* the relay, the pipe and the program.  Each place counts less than the   *)
(* one before it, and so does each state of readFrames and its channel.    *)

ReadLeft == IF rf = "send" THEN 4 ELSE IF rf = "read" THEN 1 ELSE 0
ShutLeft == IF wsOutput = "open" THEN 1 ELSE 0
NearHalf == 4 * Len(inbound) + ReadLeft + ShutLeft
FarHalf == IF toProgram = "send" THEN Len(inPipe) + 2 ELSE Len(inPipe)
InLeft == NearHalf + FarHalf

Counted ==
  /\ Len(inbound) \in Nat /\ Len(inPipe) \in Nat
  /\ ReadLeft \in Nat /\ ShutLeft \in Nat
  /\ NearHalf \in Nat /\ FarHalf \in Nat /\ InLeft \in Nat

LEMMA InLens == SInv => Counted
<1> SUFFICES ASSUME SInv PROVE Counted
  OBVIOUS
<1>1. Len(inbound) \in Nat /\ Len(inPipe) \in Nat
  BY DEF SInv, EndpointsInv, WW!Inv, WW!TypeOK, PP!TypeOK
<1>2. ReadLeft \in Nat /\ ShutLeft \in Nat
  BY DEF ReadLeft, ShutLeft
<1>3. NearHalf \in Nat /\ FarHalf \in Nat
  BY <1>1, <1>2 DEF NearHalf, FarHalf
<1> QED BY <1>1, <1>2, <1>3 DEF InLeft, Counted

LEMMA InLensNext == SInv /\ [Next]_vars => Counted'
BY SInvNext, InLens, PTL

LEMMA ShorterBy1 ==
  ASSUME NEW S, NEW q \in Seq(S), q # <<>>
  PROVE  Len(Tail(q)) = Len(q) - 1
OBVIOUS

LEMMA LongerBy1 ==
  ASSUME NEW S, NEW q \in Seq(S), NEW e
  PROVE  Len(Append(q, e)) = Len(q) + 1
OBVIOUS

LEMMA FrameRead ==
  ASSUME SInv, W!ReadFrame
  PROVE  NearHalf' < NearHalf
<1>1. Len(inbound') = Len(inbound) - 1
  <2>1. inbound \in Seq(WW!Frame)
    BY DEF SInv, EndpointsInv, WW!Inv, WW!TypeOK
  <2> QED BY <2>1, ShorterBy1 DEF W!ReadFrame
<1>2. ReadLeft = 1 /\ ReadLeft' \in {0, 1, 4} /\ ShutLeft' = ShutLeft
  BY DEF W!ReadFrame, ReadLeft, ShutLeft
<1> QED BY <1>1, <1>2, InLens DEF Counted, NearHalf

LEMMA ReaderMovesOn ==
  ASSUME SInv, W!ReadStep
  PROVE  NearHalf' < NearHalf
<1>1. CASE W!ReadFails \/ W!DeadlinePasses \/ W!Abandon
  <2>1. inbound' = inbound /\ ReadLeft' \in Nat /\ ReadLeft' < ReadLeft /\ ShutLeft' = ShutLeft
    BY <1>1 DEF W!ReadFails, W!DeadlinePasses, W!ReadStops, W!Abandon, W!clientVars,
                ReadLeft, ShutLeft
  <2> QED BY <2>1, InLens DEF Counted, NearHalf
<1>2. CASE W!CloseOutput
  <2>1. inbound' = inbound /\ ReadLeft' = ReadLeft /\ ShutLeft' \in Nat /\ ShutLeft' < ShutLeft
    BY <1>2 DEF W!CloseOutput, W!clientVars, ReadLeft, ShutLeft
  <2> QED BY <2>1, InLens DEF Counted, NearHalf
<1> QED BY <1>1, <1>2, FrameRead DEF W!ReadStep

LEMMA PipeRead ==
  ASSUME SInv, NEW p, P!ReadIn(p), toProgram' = toProgram
  PROVE  FarHalf' < FarHalf
<1>1. Len(inPipe') = Len(inPipe) - 1
  <2>1. inPipe \in Seq(InMsgs)
    BY DEF SInv, EndpointsInv, PP!TypeOK
  <2> QED BY <2>1, ShorterBy1 DEF P!ReadIn
<1> QED BY <1>1, InLens DEF Counted, FarHalf

LEMMA MessageTaken ==
  ASSUME SInv, TakeMessage
  PROVE  InLeft' < InLeft
<1>1. inbound' = inbound /\ ReadLeft = 4 /\ ReadLeft' = 1 /\ ShutLeft' = ShutLeft
  BY DEF TakeMessage, W!Deliver, W!clientVars, ReadLeft, ShutLeft
<1>2. NearHalf' = NearHalf - 3
  BY <1>1, InLens DEF Counted, NearHalf
<1>3. FarHalf' = FarHalf + 2
  BY InLens DEF Counted, TakeMessage, pVars, FarHalf
<1>4. NearHalf \in Nat /\ FarHalf \in Nat
  BY InLens DEF Counted
<1> QED BY <1>2, <1>3, <1>4 DEF InLeft

LEMMA MessageSent ==
  ASSUME SInv, SendMessage
  PROVE  InLeft' < InLeft
<1>1. NearHalf' = NearHalf
  BY DEF SendMessage, wVars, NearHalf, ReadLeft, ShutLeft
<1>2. Len(inPipe') = Len(inPipe) + 1
  <2>1. inPipe \in Seq(InMsgs)
    BY DEF SInv, EndpointsInv, PP!TypeOK
  <2> QED BY <2>1, LongerBy1 DEF SendMessage, P!Send
<1>3. FarHalf' = FarHalf - 1
  BY <1>2, InLens DEF Counted, SendMessage, FarHalf
<1> QED BY <1>1, <1>3, InLens DEF Counted, InLeft

(* A client that sends nothing more, and whose silence is noticed.         *)
NoMore == client = "gone" \/ (client = "hung" /\ Pings)

LEMMA SumFalls ==
  ASSUME NEW a \in Nat, NEW b \in Nat, NEW c \in Nat, a < b
  PROVE  a + c < b + c /\ c + a < c + b
OBVIOUS

LEMMA HalvesAdd ==
  ASSUME Counted, Counted'
  PROVE  /\ (NearHalf' < NearHalf /\ FarHalf' = FarHalf) => InLeft' < InLeft
         /\ (NearHalf' = NearHalf /\ FarHalf' < FarHalf) => InLeft' < InLeft
<1>1. /\ NearHalf \in Nat /\ FarHalf \in Nat
      /\ NearHalf' \in Nat /\ FarHalf' \in Nat
  BY DEF Counted
<1>2. InLeft = NearHalf + FarHalf /\ InLeft' = NearHalf' + FarHalf'
  BY DEF InLeft
<1>3. ASSUME NearHalf' < NearHalf, FarHalf' = FarHalf PROVE InLeft' < InLeft
  <2>1. NearHalf' + FarHalf < NearHalf + FarHalf
    BY <1>1, <1>3, SumFalls
  <2>2. InLeft' = NearHalf' + FarHalf
    BY <1>2, <1>3
  <2> QED BY <1>2, <2>1, <2>2
<1>4. ASSUME NearHalf' = NearHalf, FarHalf' < FarHalf PROVE InLeft' < InLeft
  <2>1. NearHalf + FarHalf' < NearHalf + FarHalf
    BY <1>1, <1>4, SumFalls
  <2>2. InLeft' = NearHalf + FarHalf'
    BY <1>2, <1>4
  <2> QED BY <1>2, <2>1, <2>2
<1> QED BY <1>3, <1>4

(* A step makes what is left less, or leaves all of it where it is, or     *)
(* ends the relay.                                                         *)
InStill == UNCHANGED <<inbound, rf, wsOutput, inPipe, toProgram>>

LEMMA InSteps ==
  ASSUME SInv, NoMore, [Next]_vars
  PROVE  toProgram' = "done" \/ InLeft' < InLeft \/ InStill
<1> USE DEF InStill, vars, pVars, wVars, relayVars
<1>1. Counted /\ Counted'
  BY InLens, InLensNext
<1>2. CASE RelayToProgram
  BY <1>2, MessageTaken, MessageSent DEF RelayToProgram, StopToProgram
<1>3. CASE W!ReadStep /\ UNCHANGED <<pVars, relayVars>>
  <2>1. FarHalf' = FarHalf
    BY <1>3 DEF FarHalf
  <2>2. NearHalf' < NearHalf
    BY <1>3, ReaderMovesOn
  <2>3. InLeft' < InLeft
    BY <1>1, <2>1, <2>2, HalvesAdd
  <2> QED BY <2>3
<1>4. ASSUME NEW p \in P!Procs, P!ReadIn(p), UNCHANGED <<wVars, relayVars>>
      PROVE  InLeft' < InLeft
  <2>1. NearHalf' = NearHalf
    BY <1>4 DEF NearHalf, ReadLeft, ShutLeft
  <2>2. FarHalf' < FarHalf
    BY <1>4, PipeRead
  <2> QED BY <1>1, <2>1, <2>2, HalvesAdd
<1>5. CASE W!ClientStep /\ UNCHANGED <<pVars, relayVars>>
  BY <1>5 DEF W!ClientStep, W!ClientSend, W!ClientReceive, W!ClientLeave, W!ClientHang,
              W!readVars, W!clientVars, NoMore
<1>6. CASE RelayToClient
  BY <1>6 DEF RelayToClient, TakeUnit, SendUnit, StopToClient, P!Deliver, P!inVars,
              W!Send, W!clientVars, W!readVars
<1>7. CASE PipeEndpoints
  BY <1>7 DEF PipeEndpoints, EndProcess, ProcessEnded, EndConnection, Return,
              P!TerminateBegin, P!inVars, W!Terminate, W!clientVars, W!readVars
<1>8. ASSUME P!ProgramStep, ~ \E p \in P!Procs : P!ReadIn(p)
      PROVE  inPipe' = inPipe
  BY <1>8 DEF P!ProgramStep, P!WriteOut, P!CloseFd, P!Spawn, P!Die, P!inVars
<1>9. CASE P!ReaderStep /\ UNCHANGED <<wVars, relayVars>>
  BY <1>9 DEF P!ReaderStep, P!Read, P!ReadFails, P!Abandon, P!CloseOutput, P!inVars
<1>10. CASE P!TerminateStep /\ UNCHANGED <<wVars, relayVars>>
  BY <1>10 DEF P!TerminateStep, P!CloseStdin, P!Escalate, P!Terminated, P!GiveUp, P!Sweep,
               P!Reap, P!WaitReturns, P!inVars
<1>11. CASE UNCHANGED vars
  BY <1>11
<1> QED
  BY <1>2, <1>3, <1>4, <1>5, <1>6, <1>7, <1>8, <1>9, <1>10, <1>11
  DEF Next, ProcessSideStep, ClientSideStep

LEMMA NoMoreStays == NoMore /\ [Next]_vars => NoMore'
<1>1. UNCHANGED client \/ W!ClientStep \/ ~[Next]_vars
  BY DEF Next, RelayToClient, TakeUnit, SendUnit, StopToClient, RelayToProgram, TakeMessage,
     SendMessage, StopToProgram, PipeEndpoints, EndProcess, ProcessEnded, EndConnection, Return,
     ProcessSideStep, ClientSideStep, W!Send, W!Deliver, W!Terminate, W!ReadStep, W!ReadFrame,
     W!ReadFails, W!ReadStops, W!DeadlinePasses, W!Abandon, W!CloseOutput, W!clientVars,
     vars, wVars
<1> QED
  BY <1>1 DEF NoMore, W!ClientStep, W!ClientSend, W!ClientReceive, W!ClientLeave, W!ClientHang

(* Where what is left waits: for the relay, for readFrames, or for the     *)
(* program to make room.                                                   *)
AtReader == toProgram = "recv" /\ rf # "send" /\ wsOutput = "open"
AtProgram == toProgram = "send" /\ ~P!SendFails /\ Len(inPipe) >= PipeCap

LEMMA InWhere == SInv => toProgram = "done" \/ ToProgramMayRun \/ AtReader \/ AtProgram
<1>1. SInv => /\ toProgram \in {"recv", "send", "done"}
              /\ wsOutput \in {"open", "closed"}
  BY DEF SInv, RelayInv, EndpointsInv, WW!Inv, WW!TypeOK
<1>2. SInv => Len(inPipe) \in Nat /\ PipeCap \in Nat
  BY InLens, SameConstants DEF Counted, PP!ConstantsOK
<1> QED BY <1>1, <1>2 DEF ToProgramMayRun, AtReader, AtProgram

LEMMA InWaits ==
  ASSUME SInv, NoMore, [Next]_vars, toProgram' # "done", ~(InLeft' < InLeft)
  PROVE  /\ ToProgramMayRun => ToProgramMayRun'
         /\ AtReader => AtReader'
         /\ AtProgram => AtProgram' \/ ToProgramMayRun'
<1>1. InStill
  BY InSteps
<1>2. P!SendFails => P!SendFails'
  <2>1. [PP!Next]_(PP!vars) /\ PP!TypeOK
    BY ProcessStep, SameProcessNext, SameProcessVars DEF SInv, EndpointsInv
  <2>2. PP!SendFails => PP!SendFails'
    BY <2>1, PP!SendFailsStays, SameConstants
  <2> QED BY <2>2 DEF P!SendFails, PP!SendFails, P!Holders, PP!Holders
<1>3. ToProgramMayRun => ToProgramMayRun'
  BY <1>1, <1>2 DEF InStill, ToProgramMayRun
<1> QED
  BY <1>1, <1>3 DEF InStill, ToProgramMayRun, AtReader, AtProgram

LEMMA InMoves ==
  ASSUME SInv, NoMore, [Next]_vars
  PROVE  /\ <<RelayToProgram>>_vars => toProgram' = "done" \/ InLeft' < InLeft
         /\ <<W!ReadRuns>>_(W!vars) => toProgram' = "done" \/ InLeft' < InLeft
         /\ <<ProgramReads>>_vars => InLeft' < InLeft
<1>1. Counted /\ Counted'
  BY InLens, InLensNext
<1>2. RelayToProgram => toProgram' = "done" \/ InLeft' < InLeft
  BY MessageTaken, MessageSent DEF RelayToProgram, StopToProgram
<1>3. W!ReadRuns => toProgram' = "done" \/ InLeft' < InLeft
  <2>1. W!ReadRuns => NearHalf' < NearHalf
    BY ReaderMovesOn DEF W!ReadRuns, W!ReadStep
  <2>2. InStill => NearHalf' = NearHalf
    BY DEF InStill, NearHalf, ReadLeft, ShutLeft
  <2> QED BY <1>1, <2>1, <2>2, InSteps DEF Counted
<1>4. ProgramReads => InLeft' < InLeft
  <2>1. ProgramReads => NearHalf' = NearHalf
    BY DEF ProgramReads, ProcessSideStep, wVars, NearHalf, ReadLeft, ShutLeft
  <2>2. ProgramReads => FarHalf' < FarHalf
    BY PipeRead DEF ProgramReads, ProcessSideStep, relayVars
  <2> QED BY <1>1, <2>1, <2>2, HalvesAdd
<1> QED BY <1>2, <1>3, <1>4

LEMMA InLess == SInv /\ [Next]_vars /\ InLeft' < InLeft => <<InLeft' < InLeft>>_InLeft
<1>1. SInv /\ [Next]_vars => Counted /\ Counted'
  BY InLens, InLensNext
<1>2. Counted /\ Counted' => InLeft \in Nat /\ InLeft' \in Nat
  BY DEF Counted
<1>3. \A a, b \in Nat : a < b => a # b
  OBVIOUS
<1> QED BY <1>1, <1>2, <1>3

LEMMA InFalls ==
  SInv /\ NoMore /\ [Next]_vars => (toProgram = "done")' \/ [InLeft' <= InLeft]_InLeft
<1>1. SInv /\ [Next]_vars => Counted /\ Counted'
  BY InLens, InLensNext
<1>2. Counted /\ Counted' => InLeft \in Nat /\ InLeft' \in Nat
  BY DEF Counted
<1>3. \A a, b \in Nat : a < b => a <= b
  OBVIOUS
<1>4. InStill => InLeft' = InLeft
  BY DEF InStill, InLeft, NearHalf, FarHalf, ReadLeft, ShutLeft
<1> QED BY <1>1, <1>2, <1>3, <1>4, InSteps

(* Until PipeEndpoints terminates the process nothing signals it.          *)
IdleInv == main = "relaying" => ladder = "idle"

LEMMA AlwaysIdleInv == Spec => []IdleInv
<1>1. Init => IdleInv
  BY DEF Init, P!Init, IdleInv
<1>2. P!ProgramStep \/ P!ReaderStep \/ P!TerminateStep
        => PP!ProgramStep \/ PP!ReaderStep \/ PP!TerminateStep
  BY SameProcessSteps
<1>3. IdleInv /\ [Next]_vars => IdleInv'
  <2> SUFFICES ASSUME IdleInv, [Next]_vars PROVE IdleInv'
    OBVIOUS
  <2> USE DEF IdleInv, vars, pVars, relayVars
  <2>1. CASE ProcessSideStep
    <3>1. ladder = "idle" => ladder' = "idle"
      BY <1>2, <2>1, PP!IdleStays, SameConstants DEF ProcessSideStep
    <3> QED BY <2>1, <3>1 DEF ProcessSideStep
  <2>2. CASE ClientSideStep
    BY <2>2 DEF ClientSideStep
  <2>3. CASE RelayToClient
    BY <2>3 DEF RelayToClient, TakeUnit, SendUnit, StopToClient, P!Deliver, P!endVars
  <2>4. CASE RelayToProgram
    BY <2>4 DEF RelayToProgram, TakeMessage, SendMessage, StopToProgram, P!Send, P!endVars
  <2>5. CASE PipeEndpoints
    BY <2>5 DEF PipeEndpoints, EndProcess, ProcessEnded, EndConnection, Return
  <2>6. CASE UNCHANGED vars
    BY <2>6
  <2> QED BY <2>1, <2>2, <2>3, <2>4, <2>5, <2>6 DEF Next
<1> QED BY <1>1, <1>3, PTL DEF Spec

LEMMA StillRelaying == SInv /\ ~Relayed => main = "relaying"
<1> SUFFICES ASSUME SInv, ~Relayed, main # "relaying" PROVE FALSE
  OBVIOUS
<1>1. finished \in Nat /\ finished + Waited = Stopped(toClient) + Stopped(toProgram)
  BY DEF SInv, MainInv
<1>2. Stopped(toClient) = 0 /\ Stopped(toProgram) = 0
  BY DEF Relayed, Stopped
<1>3. Waited \in {1, 2}
  BY DEF Waited
<1> QED BY <1>1, <1>2, <1>3

(* Nobody but the program can read what the relay writes to it.            *)
Fed == P!Holders("stdin") \subseteq {"child"}

LEMMA ProgramMakesRoom ==
  SInv /\ IdleInv /\ ~Relayed /\ Fed /\ AtProgram => ProgramMayRead
<1> SUFFICES ASSUME SInv, IdleInv, ~Relayed, Fed, AtProgram PROVE ProgramMayRead
  OBVIOUS
<1>1. killed = {}
  BY StillRelaying DEF IdleInv, SInv, EndpointsInv, PP!LadderInv
<1>2. "child" \in alive /\ "stdin" \in fds["child"]
  BY DEF AtProgram, P!SendFails, Fed, P!Holders
<1>3. inPipe # <<>>
  <2>1. Len(inPipe) >= PipeCap /\ PipeCap \in Nat \ {0} /\ Len(inPipe) \in Nat
    BY InLens, SameConstants DEF AtProgram, Counted, PP!ConstantsOK
  <2>2. inPipe = <<>> => Len(inPipe) = 0
    OBVIOUS
  <2> QED BY <2>1, <2>2
<1> QED BY <1>1, <1>2, <1>3 DEF ProgramMayRead, P!Running

(* A client that is gone or has gone silent ends the relay of its          *)
(* messages, if the program takes those that are on their way.             *)
LEMMA InputEnds ==
  CooperativeSpec /\ []AllUnhindered /\ WW!Descends(InLeft)
    => ([]NoMore /\ []Fed ~> Relayed)
<1>1. SInv /\ NoMore /\ [Next]_vars /\ ToProgramMayRun
        => ToProgramMayRun' \/ (toProgram = "done")' \/ <<InLeft' < InLeft>>_InLeft
  BY InWaits, InLess
<1>2. SInv /\ NoMore /\ [Next]_vars /\ AtReader
        => AtReader' \/ (toProgram = "done")' \/ <<InLeft' < InLeft>>_InLeft
  BY InWaits, InLess
<1>3. SInv /\ NoMore /\ [Next]_vars /\ AtProgram
        => \/ AtProgram' \/ ToProgramMayRun' \/ (toProgram = "done")'
           \/ <<InLeft' < InLeft>>_InLeft
  BY InWaits, InLess
<1>4. SInv /\ NoMore /\ [Next]_vars /\ <<RelayToProgram>>_vars
        => (toProgram = "done")' \/ <<InLeft' < InLeft>>_InLeft
  BY InMoves, InLess
<1>5. SInv /\ NoMore /\ [Next]_vars /\ <<W!ReadRuns>>_(W!vars)
        => (toProgram = "done")' \/ <<InLeft' < InLeft>>_InLeft
  BY InMoves, InLess
<1>6. SInv /\ NoMore /\ [Next]_vars /\ <<ProgramReads>>_vars => <<InLeft' < InLeft>>_InLeft
  BY InMoves, InLess
<1>7. AllUnhindered /\ ToProgramMayRun => ENABLED <<RelayToProgram>>_vars
  BY DEF AllUnhindered, Unhindered, RelaysUnhindered
<1>8. AllUnhindered /\ SInv /\ NoMore /\ AtReader => ENABLED <<W!ReadRuns>>_(W!vars)
  <2>1. AllUnhindered /\ W!ReadMayRun => ENABLED <<W!ReadRuns>>_(W!vars)
    BY DEF AllUnhindered, Unhindered, W!ReadUnhindered
  <2>2. SInv /\ NoMore /\ AtReader => W!ReadMayRun
    BY DEF SInv, EndpointsInv, WW!Inv, WW!TypeOK, NoMore, AtReader, W!ReadMayRun
  <2> QED BY <2>1, <2>2
<1>9. AllUnhindered /\ SInv /\ IdleInv /\ ~Relayed /\ Fed /\ AtProgram
        => ENABLED <<ProgramReads>>_vars
  BY ProgramMakesRoom DEF AllUnhindered
<1>10. toProgram = "done" => Relayed
  BY DEF Relayed
<1>11. SInv => InLeft \in Nat
  BY InLens DEF Counted
<1> DEFINE Premises == CooperativeSpec /\ []AllUnhindered
<1>12. Premises => [](/\ []NoMore /\ []Fed /\ []~Relayed
                      => <>[][InLeft' <= InLeft]_InLeft)
  BY <1>10, InFalls, AlwaysSInv, PTL DEF CooperativeSpec, FairSpec, Spec
<1>13. Premises => [](/\ []NoMore /\ []Fed /\ []~Relayed
                      => []<><<InLeft' < InLeft>>_InLeft)
  BY <1>1, <1>2, <1>3, <1>4, <1>5, <1>6, <1>7, <1>8, <1>9, <1>10, InWhere, AlwaysSInv,
     AlwaysIdleInv, PTL
  DEF CooperativeSpec, FairSpec, Spec, Fairness, W!Fairness, RelayFairness
<1> QED
  BY <1>11, <1>12, <1>13, AlwaysSInv, PTL DEF CooperativeSpec, FairSpec, WW!Descends

-----------------------------------------------------------------------------
(* The same in the other direction.  What a program that has ended has     *)
(* written moves from its pipes to the readers, the relay, the connection  *)
(* and the client.                                                         *)

Stage(s) == IF reader[s] = "send" THEN 4 ELSE IF reader[s] = "read" THEN 1 ELSE 0
StreamLeft(s) == 4 * Len(pipe[s]) + Stage(s)
OpenLeft == IF output = "open" THEN 1 ELSE 0
ProgramHalf == StreamLeft("stdout") + StreamLeft("stderr") + OpenLeft
ClientHalf == IF toClient = "send" THEN Len(outbound) + 2 ELSE Len(outbound)
OutLeft == ProgramHalf + ClientHalf

OutCounted ==
  /\ Len(pipe["stdout"]) \in Nat /\ Len(pipe["stderr"]) \in Nat /\ Len(outbound) \in Nat
  /\ StreamLeft("stdout") \in Nat /\ StreamLeft("stderr") \in Nat /\ OpenLeft \in Nat
  /\ ProgramHalf \in Nat /\ ClientHalf \in Nat /\ OutLeft \in Nat

LEMMA OutLens == SInv => OutCounted
<1> SUFFICES ASSUME SInv PROVE OutCounted
  OBVIOUS
<1>1. /\ Len(pipe["stdout"]) \in Nat /\ Len(pipe["stderr"]) \in Nat /\ Len(outbound) \in Nat
  <2>1. /\ pipe["stdout"] \in Seq(PP!Unit) /\ pipe["stderr"] \in Seq(PP!Unit)
        /\ outbound \in Seq(OutMsgs)
    BY DEF SInv, EndpointsInv, WW!Inv, WW!TypeOK, PP!TypeOK, PP!Streams
  <2> QED BY <2>1
<1>2. /\ StreamLeft("stdout") \in Nat /\ StreamLeft("stderr") \in Nat /\ OpenLeft \in Nat
  <2>1. Stage("stdout") \in Nat /\ Stage("stderr") \in Nat /\ OpenLeft \in Nat
    BY DEF Stage, OpenLeft
  <2>2. 4 * Len(pipe["stdout"]) \in Nat /\ 4 * Len(pipe["stderr"]) \in Nat
    BY <1>1
  <2> QED BY <2>1, <2>2 DEF StreamLeft
<1>3. ProgramHalf \in Nat /\ ClientHalf \in Nat
  BY <1>1, <1>2 DEF ProgramHalf, ClientHalf
<1> QED BY <1>1, <1>2, <1>3 DEF OutLeft, OutCounted

LEMMA OutLensNext == SInv /\ [Next]_vars => OutCounted'
BY SInvNext, OutLens, PTL

LEMMA OutHalvesAdd ==
  ASSUME OutCounted, OutCounted'
  PROVE  /\ ProgramHalf' < ProgramHalf /\ ClientHalf' = ClientHalf => OutLeft' < OutLeft
         /\ ProgramHalf' = ProgramHalf /\ ClientHalf' < ClientHalf => OutLeft' < OutLeft
<1>1. /\ ProgramHalf \in Nat /\ ClientHalf \in Nat
      /\ ProgramHalf' \in Nat /\ ClientHalf' \in Nat
  BY DEF OutCounted
<1>2. OutLeft = ProgramHalf + ClientHalf /\ OutLeft' = ProgramHalf' + ClientHalf'
  BY DEF OutLeft
<1>3. ASSUME ProgramHalf' < ProgramHalf, ClientHalf' = ClientHalf PROVE OutLeft' < OutLeft
  <2>1. ProgramHalf' + ClientHalf < ProgramHalf + ClientHalf
    BY <1>1, <1>3, SumFalls
  <2>2. OutLeft' = ProgramHalf' + ClientHalf
    BY <1>2, <1>3
  <2> QED BY <1>2, <2>1, <2>2
<1>4. ASSUME ProgramHalf' = ProgramHalf, ClientHalf' < ClientHalf PROVE OutLeft' < OutLeft
  <2>1. ProgramHalf + ClientHalf' < ProgramHalf + ClientHalf
    BY <1>1, <1>4, SumFalls
  <2>2. OutLeft' = ProgramHalf + ClientHalf'
    BY <1>2, <1>4
  <2> QED BY <1>2, <2>1, <2>2
<1> QED BY <1>3, <1>4

LEMMA StreamFalls ==
  ASSUME SInv, NEW s \in P!Streams, P!Read(s) \/ P!ReadFails(s) \/ P!Abandon(s)
  PROVE  /\ StreamLeft(s)' < StreamLeft(s)
         /\ \A r \in P!Streams \ {s} : StreamLeft(r)' = StreamLeft(r)
<1>1. /\ pipe[s] \in Seq(PP!Unit) /\ Len(pipe[s]) \in Nat
      /\ DOMAIN pipe = P!Streams /\ DOMAIN reader = P!Streams
  BY DEF SInv, EndpointsInv, PP!TypeOK, P!Streams, PP!Streams
<1>2. CASE P!Read(s)
  <2>1. Len(pipe'[s]) = Len(pipe[s]) - 1
    BY <1>1, <1>2, ShorterBy1 DEF P!Read
  <2>2. Stage(s) = 1 /\ Stage(s)' \in {1, 4}
    BY <1>1, <1>2 DEF P!Read, Stage
  <2>3. \A r \in P!Streams \ {s} : pipe'[r] = pipe[r] /\ reader'[r] = reader[r]
    BY <1>1, <1>2 DEF P!Read
  <2>4. \A r \in P!Streams \ {s} : StreamLeft(r)' = StreamLeft(r)
    BY <2>3 DEF StreamLeft, Stage
  <2>5. /\ StreamLeft(s) = 4 * Len(pipe[s]) + 1
        /\ StreamLeft(s)' \in {4 * Len(pipe'[s]) + 1, 4 * Len(pipe'[s]) + 4}
    BY <2>2 DEF StreamLeft
  <2>6. StreamLeft(s)' < StreamLeft(s)
    BY <1>1, <2>1, <2>5
  <2> QED BY <2>4, <2>6
<1>3. CASE P!ReadFails(s) \/ P!Abandon(s)
  <2>1. pipe' = pipe /\ Stage(s) \in {1, 4} /\ Stage(s)' = 0
    BY <1>1, <1>3 DEF P!ReadFails, P!Abandon, Stage
  <2>2. \A r \in P!Streams \ {s} : reader'[r] = reader[r]
    BY <1>1, <1>3 DEF P!ReadFails, P!Abandon
  <2> QED BY <1>1, <2>1, <2>2 DEF StreamLeft, Stage
<1> QED BY <1>2, <1>3

LEMMA SumOfThree ==
  ASSUME NEW a \in Nat, NEW b \in Nat, NEW c \in Nat, NEW x \in Nat, x < a
  PROVE  x + b + c < a + b + c /\ b + x + c < b + a + c /\ b + c + x < b + c + a
OBVIOUS

LEMMA ReaderStepFalls ==
  ASSUME SInv, [Next]_vars, P!ReaderStep
  PROVE  ProgramHalf' < ProgramHalf
<1> DEFINE out == StreamLeft("stdout")
           err == StreamLeft("stderr")
<1>1. /\ out \in Nat /\ err \in Nat /\ OpenLeft \in Nat
      /\ out' \in Nat /\ err' \in Nat /\ OpenLeft' \in Nat
  BY OutLens, OutLensNext DEF OutCounted
<1>2. /\ ProgramHalf = out + err + OpenLeft
      /\ ProgramHalf' = out' + err' + OpenLeft'
  BY DEF ProgramHalf
<1>3. P!Streams = {"stdout", "stderr"}
  BY DEF P!Streams
<1>4. ASSUME NEW s \in P!Streams, P!Read(s) \/ P!ReadFails(s) \/ P!Abandon(s)
      PROVE  ProgramHalf' < ProgramHalf
  <2>1. OpenLeft' = OpenLeft
    BY <1>4 DEF P!Read, P!ReadFails, P!Abandon, OpenLeft
  <2>2. CASE s = "stdout"
    <3>1. out' < out /\ err' = err
      BY <1>3, <1>4, <2>2, StreamFalls
    <3> HIDE DEF out, err
    <3>2. out' + err + OpenLeft < out + err + OpenLeft
      BY <1>1, <3>1, SumOfThree
    <3> QED BY <1>2, <2>1, <3>1, <3>2
  <2>3. CASE s = "stderr"
    <3>1. err' < err /\ out' = out
      BY <1>3, <1>4, <2>3, StreamFalls
    <3> HIDE DEF out, err
    <3>2. out + err' + OpenLeft < out + err + OpenLeft
      BY <1>1, <3>1, SumOfThree
    <3> QED BY <1>2, <2>1, <3>1, <3>2
  <2> QED BY <1>3, <2>2, <2>3
<1>5. ASSUME P!CloseOutput PROVE ProgramHalf' < ProgramHalf
  <2>1. out' = out /\ err' = err /\ OpenLeft' < OpenLeft
    BY <1>5 DEF P!CloseOutput, StreamLeft, Stage, OpenLeft
  <2> HIDE DEF out, err
  <2>2. out + err + OpenLeft' < out + err + OpenLeft
    BY <1>1, <2>1, SumOfThree
  <2> QED BY <1>2, <2>1, <2>2
<1> QED BY <1>4, <1>5 DEF P!ReaderStep

LEMMA TradeFalls ==
  ASSUME NEW a \in Nat, NEW b \in Nat, NEW c \in Nat, NEW d \in Nat, NEW n \in Nat
  PROVE  /\ a = 4 * n + 4 => (4 * n + 1) + b + c + (d + 2) < a + b + c + d
         /\ b = 4 * n + 4 => a + (4 * n + 1) + c + (d + 2) < a + b + c + d
OBVIOUS

LEMMA UnitTaken ==
  ASSUME SInv, [Next]_vars, NEW s \in P!Streams, TakeUnit(s)
  PROVE  OutLeft' < OutLeft
<1> DEFINE out == StreamLeft("stdout")
           err == StreamLeft("stderr")
<1>1. /\ out \in Nat /\ err \in Nat /\ OpenLeft \in Nat /\ ClientHalf \in Nat
      /\ Len(outbound) \in Nat
  BY OutLens DEF OutCounted
<1>2. /\ OutLeft = out + err + OpenLeft + ClientHalf
      /\ OutLeft' = out' + err' + OpenLeft' + ClientHalf'
  BY DEF OutLeft, ProgramHalf
<1>3. P!Streams = {"stdout", "stderr"} /\ DOMAIN reader = P!Streams
  BY DEF P!Streams, SInv, EndpointsInv, PP!TypeOK, PP!Streams
<1>4. pipe' = pipe /\ OpenLeft' = OpenLeft
  BY DEF TakeUnit, P!Deliver, OpenLeft
<1>5. ClientHalf' = ClientHalf + 2
  BY DEF TakeUnit, wVars, ClientHalf
<1>6. \A r \in P!Streams : reader'[r] = IF r = s THEN "read" ELSE reader[r]
  BY <1>3 DEF TakeUnit, P!Deliver
<1>7. Stage(s) = 4 /\ Stage(s)' = 1 /\ \A r \in P!Streams \ {s} : Stage(r)' = Stage(r)
  BY <1>6 DEF Stage, TakeUnit, P!Deliver
<1>8. CASE s = "stdout"
  <2>1. out = 4 * Len(pipe[s]) + 4 /\ out' = 4 * Len(pipe[s]) + 1 /\ err' = err
    BY <1>3, <1>4, <1>7, <1>8 DEF StreamLeft
  <2>2. Len(pipe[s]) \in Nat
    BY <1>8, OutLens DEF OutCounted
  <2> HIDE DEF out, err
  <2>3. (4 * Len(pipe[s]) + 1) + err + OpenLeft + (ClientHalf + 2) < out + err + OpenLeft + ClientHalf
    BY <1>1, <2>1, <2>2, TradeFalls
  <2> QED BY <1>2, <1>4, <1>5, <2>1, <2>3
<1>9. CASE s = "stderr"
  <2>1. err = 4 * Len(pipe[s]) + 4 /\ err' = 4 * Len(pipe[s]) + 1 /\ out' = out
    BY <1>3, <1>4, <1>7, <1>9 DEF StreamLeft
  <2>2. Len(pipe[s]) \in Nat
    BY <1>9, OutLens DEF OutCounted
  <2> HIDE DEF out, err
  <2>3. out + (4 * Len(pipe[s]) + 1) + OpenLeft + (ClientHalf + 2) < out + err + OpenLeft + ClientHalf
    BY <1>1, <2>1, <2>2, TradeFalls
  <2> QED BY <1>2, <1>4, <1>5, <2>1, <2>3
<1> QED BY <1>3, <1>8, <1>9

LEMMA UnitSent ==
  ASSUME SInv, [Next]_vars, client = "here", SendUnit
  PROVE  OutLeft' < OutLeft
<1>1. OutCounted /\ OutCounted'
  BY OutLens, OutLensNext
<1>2. ProgramHalf' = ProgramHalf
  BY DEF SendUnit, pVars, ProgramHalf, StreamLeft, Stage, OpenLeft
<1>3. Len(outbound') = Len(outbound) + 1
  <2>1. outbound \in Seq(OutMsgs)
    BY DEF SInv, EndpointsInv, WW!Inv, WW!TypeOK
  <2> QED BY <2>1, LongerBy1 DEF SendUnit, W!Send
<1>4. ClientHalf' < ClientHalf
  BY <1>1, <1>3 DEF SendUnit, ClientHalf, OutCounted
<1> QED BY <1>1, <1>2, <1>4, OutHalvesAdd

LEMMA ClientTakes ==
  ASSUME SInv, [Next]_vars, W!ClientReceive, UNCHANGED <<pVars, relayVars>>
  PROVE  OutLeft' < OutLeft
<1>1. OutCounted /\ OutCounted'
  BY OutLens, OutLensNext
<1>2. ProgramHalf' = ProgramHalf
  BY DEF pVars, ProgramHalf, StreamLeft, Stage, OpenLeft
<1>3. Len(outbound') = Len(outbound) - 1
  <2>1. outbound \in Seq(OutMsgs)
    BY DEF SInv, EndpointsInv, WW!Inv, WW!TypeOK
  <2> QED BY <2>1, ShorterBy1 DEF W!ClientReceive
<1>4. ClientHalf' < ClientHalf
  BY <1>1, <1>3 DEF relayVars, ClientHalf, OutCounted
<1> QED BY <1>1, <1>2, <1>4, OutHalvesAdd

OutStill == UNCHANGED <<pipe, reader, output, outbound, toClient>>

LEMMA OutSteps ==
  ASSUME SInv, alive = {}, client = "here", [Next]_vars
  PROVE  toClient' = "done" \/ OutLeft' < OutLeft \/ OutStill
<1> USE DEF OutStill, vars, pVars, wVars, relayVars
<1>1. CASE RelayToClient
  BY <1>1, UnitTaken, UnitSent DEF RelayToClient, StopToClient
<1>2. CASE P!ReaderStep /\ UNCHANGED <<wVars, relayVars>>
  <2>1. ProgramHalf' < ProgramHalf
    BY <1>2, ReaderStepFalls
  <2>2. ClientHalf' = ClientHalf
    BY <1>2 DEF ClientHalf
  <2>3. OutLeft' < OutLeft
    BY <2>1, <2>2, OutLens, OutLensNext, OutHalvesAdd
  <2> QED BY <2>3
<1>3. CASE ClientSideStep /\ W!ClientReceive
  BY <1>3, ClientTakes DEF ClientSideStep
<1>4. CASE ClientSideStep /\ ~W!ClientReceive
  BY <1>4 DEF ClientSideStep, W!ClientStep, W!ClientSend, W!ClientLeave, W!ClientHang,
     W!ReadStep, W!ReadFrame, W!ReadFails, W!ReadStops, W!DeadlinePasses, W!Abandon,
     W!CloseOutput, W!sendVars
<1>5. CASE P!ProgramStep /\ UNCHANGED <<wVars, relayVars>>
  <2>1. pipe' = pipe /\ reader' = reader /\ output' = output
    BY <1>5 DEF P!ProgramStep, P!WriteOut, P!ReadIn, P!CloseFd, P!Spawn, P!Die, P!Running,
       P!outVars
  <2> QED BY <1>5, <2>1
<1>6. CASE P!TerminateStep /\ UNCHANGED <<wVars, relayVars>>
  BY <1>6 DEF P!TerminateStep, P!CloseStdin, P!Escalate, P!Terminated, P!GiveUp, P!Sweep,
     P!Reap, P!WaitReturns, P!outVars
<1>7. CASE RelayToProgram
  BY <1>7 DEF RelayToProgram, TakeMessage, SendMessage, StopToProgram, P!Send, P!outVars,
     W!Deliver, W!sendVars
<1>8. CASE PipeEndpoints
  BY <1>8 DEF PipeEndpoints, EndProcess, ProcessEnded, EndConnection, Return,
     P!TerminateBegin, P!outVars, W!Terminate, W!sendVars
<1>9. CASE UNCHANGED vars
  BY <1>9
<1> QED
  BY <1>1, <1>2, <1>3, <1>4, <1>5, <1>6, <1>7, <1>8, <1>9 DEF Next, ProcessSideStep

LEMMA OutLess == SInv /\ [Next]_vars /\ OutLeft' < OutLeft => <<OutLeft' < OutLeft>>_OutLeft
<1>1. SInv /\ [Next]_vars => OutCounted /\ OutCounted'
  BY OutLens, OutLensNext
<1>2. OutCounted /\ OutCounted' => OutLeft \in Nat /\ OutLeft' \in Nat
  BY DEF OutCounted
<1>3. \A a, b \in Nat : a < b => a # b
  OBVIOUS
<1> QED BY <1>1, <1>2, <1>3

(* The program has ended, and its client still reads.                      *)
Finished == alive = {} /\ client = "here"

LEMMA OutFalls ==
  SInv /\ Finished /\ [Next]_vars => (toClient = "done")' \/ [OutLeft' <= OutLeft]_OutLeft
<1>1. SInv /\ [Next]_vars => OutCounted /\ OutCounted'
  BY OutLens, OutLensNext
<1>2. OutCounted /\ OutCounted' => OutLeft \in Nat /\ OutLeft' \in Nat
  BY DEF OutCounted
<1>3. \A a, b \in Nat : a < b => a <= b
  OBVIOUS
<1>4. OutStill => OutLeft' = OutLeft
  BY DEF OutStill, OutLeft, ProgramHalf, ClientHalf, StreamLeft, Stage, OpenLeft
<1> QED BY <1>1, <1>2, <1>3, <1>4, OutSteps DEF Finished

(* Where it waits: for the relay, the client, a reader or the close.       *)
AtClient == toClient = "send" /\ ~W!SendFails /\ Len(outbound) >= NetCap
AtReading(s) == toClient = "recv" /\ reader[s] = "read"
AtClose ==
  toClient = "recv" /\ output = "open" /\ reader["stdout"] = "exit" /\ reader["stderr"] = "exit"

LEMMA OutWhere ==
  SInv => \/ toClient = "done" \/ ToClientMayRun \/ AtClient
          \/ AtReading("stdout") \/ AtReading("stderr") \/ AtClose
<1> SUFFICES ASSUME SInv, toClient # "done", ~ToClientMayRun
             PROVE  AtClient \/ AtReading("stdout") \/ AtReading("stderr") \/ AtClose
  OBVIOUS
<1>1. /\ toClient \in {"recv", "send", "done"} /\ output \in {"open", "closed"}
      /\ reader["stdout"] \in {"read", "send", "exit"}
      /\ reader["stderr"] \in {"read", "send", "exit"}
  BY DEF SInv, RelayInv, EndpointsInv, PP!TypeOK, PP!Streams
<1>2. CASE toClient = "send"
  <2>1. Len(outbound) \in Nat /\ NetCap \in Nat
    BY OutLens, SameConstants DEF OutCounted, WW!ConstantsOK
  <2> QED BY <1>2, <2>1 DEF ToClientMayRun, AtClient
<1>3. CASE toClient = "recv"
  <2>1. "stdout" \in P!Streams /\ "stderr" \in P!Streams
    BY DEF P!Streams
  <2> QED BY <1>1, <1>3, <2>1 DEF ToClientMayRun, AtReading, AtClose
<1> QED BY <1>1, <1>2, <1>3

LEMMA ConnStaysClosed == ASSUME conn = "closed", [Next]_vars PROVE conn' = "closed"
BY DEF Next, RelayToClient, TakeUnit, SendUnit, StopToClient, RelayToProgram, TakeMessage,
   SendMessage, StopToProgram, PipeEndpoints, EndProcess, ProcessEnded, EndConnection, Return,
   ProcessSideStep, ClientSideStep, W!Send, W!Deliver, W!Terminate, W!ClientStep, W!ClientSend,
   W!ClientReceive, W!ClientLeave, W!ClientHang, W!ReadStep, W!ReadFrame, W!ReadFails,
   W!ReadStops, W!DeadlinePasses, W!Abandon, W!CloseOutput, W!endVars, vars, wVars

LEMMA OutWaits ==
  ASSUME SInv, Finished, Finished', [Next]_vars, toClient' # "done", ~(OutLeft' < OutLeft)
  PROVE  /\ ToClientMayRun => ToClientMayRun'
         /\ AtClient => AtClient' \/ ToClientMayRun'
         /\ \A s : AtReading(s) => AtReading(s)'
         /\ AtClose => AtClose'
<1>1. OutStill
  BY OutSteps DEF Finished
<1>2. conn = "closed" => conn' = "closed"
  BY ConnStaysClosed
<1> QED
  BY <1>1, <1>2 DEF OutStill, ToClientMayRun, AtClient, AtReading, AtClose, W!SendFails, Finished

LEMMA OutMoves ==
  ASSUME SInv, Finished, [Next]_vars
  PROVE  /\ <<RelayToClient>>_vars => toClient' = "done" \/ OutLeft' < OutLeft
         /\ P!ReaderStep => toClient' = "done" \/ OutLeft' < OutLeft
         /\ <<ClientReads>>_vars => OutLeft' < OutLeft
<1>1. OutCounted /\ OutCounted'
  BY OutLens, OutLensNext
<1>2. RelayToClient => toClient' = "done" \/ OutLeft' < OutLeft
  BY UnitTaken, UnitSent DEF RelayToClient, StopToClient, Finished
<1>3. P!ReaderStep => toClient' = "done" \/ OutLeft' < OutLeft
  <2>1. P!ReaderStep => ProgramHalf' < ProgramHalf
    BY ReaderStepFalls
  <2>2. OutStill => ProgramHalf' = ProgramHalf
    BY DEF OutStill, ProgramHalf, StreamLeft, Stage, OpenLeft
  <2>3. ProgramHalf' < ProgramHalf => ProgramHalf' # ProgramHalf
    <3>1. ProgramHalf' \in Nat /\ ProgramHalf \in Nat
      BY <1>1 DEF OutCounted
    <3>2. \A a, b \in Nat : a < b => a # b
      OBVIOUS
    <3> QED BY <3>1, <3>2
  <2> QED BY <2>1, <2>2, <2>3, OutSteps DEF Finished
<1>4. ClientReads => OutLeft' < OutLeft
  <2>1. ClientReads => W!ClientReceive /\ UNCHANGED <<pVars, relayVars>>
    BY DEF ClientReads, ClientSideStep
  <2> QED BY <2>1, ClientTakes
<1> QED BY <1>2, <1>3, <1>4

(* Each reader moves what it can.                                          *)
ReaderServes(s) ==
  Spec /\ []AllUnhindered /\ P!ReaderFairness(s)
    => [](/\ []Finished /\ []~Relayed /\ AtReading(s) => <><<OutLeft' < OutLeft>>_OutLeft)

LEMMA StreamServed == ASSUME NEW s \in P!Streams PROVE ReaderServes(s)
<1>1. SInv /\ Finished /\ Finished' /\ [Next]_vars /\ AtReading(s)
        => AtReading(s)' \/ (toClient = "done")' \/ <<OutLeft' < OutLeft>>_OutLeft
  BY OutWaits, OutLess
<1>2. SInv /\ Finished /\ [Next]_vars /\ <<P!ReaderRuns(s)>>_(P!vars)
        => (toClient = "done")' \/ <<OutLeft' < OutLeft>>_OutLeft
  <2>1. P!ReaderRuns(s) => P!ReaderStep
    BY DEF P!ReaderRuns, P!ReaderStep
  <2> QED BY <2>1, OutMoves, OutLess
<1>3. AllUnhindered /\ Finished /\ AtReading(s) => ENABLED <<P!ReaderRuns(s)>>_(P!vars)
  <2>1. AllUnhindered => P!ReaderUnhindered(s)
    BY DEF AllUnhindered, Unhindered, P!Unhindered
  <2>2. Finished /\ AtReading(s) => P!ReaderMayRun(s)
    BY DEF Finished, AtReading, P!ReaderMayRun, P!Holders
  <2> QED BY <2>1, <2>2 DEF P!ReaderUnhindered
<1>4. toClient = "done" => Relayed
  BY DEF Relayed
<1> QED
  BY <1>1, <1>2, <1>3, <1>4, AlwaysSInv, PTL DEF ReaderServes, P!ReaderFairness, Spec

(* The output of a program that has ended reaches a client that reads, and *)
(* then ends the relay.                                                    *)
LEMMA OutputEnds ==
  CooperativeSpec /\ []AllUnhindered /\ WW!Descends(OutLeft) => ([]Finished ~> Relayed)
<1> DEFINE out == "stdout"
           err == "stderr"
<1>1. SInv /\ Finished /\ Finished' /\ [Next]_vars /\ ToClientMayRun
        => ToClientMayRun' \/ (toClient = "done")' \/ <<OutLeft' < OutLeft>>_OutLeft
  BY OutWaits, OutLess
<1>2. SInv /\ Finished /\ Finished' /\ [Next]_vars /\ AtClient
        => \/ AtClient' \/ ToClientMayRun' \/ (toClient = "done")'
           \/ <<OutLeft' < OutLeft>>_OutLeft
  BY OutWaits, OutLess
<1>3. SInv /\ Finished /\ Finished' /\ [Next]_vars /\ AtClose
        => AtClose' \/ (toClient = "done")' \/ <<OutLeft' < OutLeft>>_OutLeft
  BY OutWaits, OutLess
<1>4. SInv /\ Finished /\ [Next]_vars /\ <<RelayToClient>>_vars
        => (toClient = "done")' \/ <<OutLeft' < OutLeft>>_OutLeft
  BY OutMoves, OutLess
<1>5. SInv /\ Finished /\ [Next]_vars /\ <<ClientReads>>_vars => <<OutLeft' < OutLeft>>_OutLeft
  BY OutMoves, OutLess
<1>6. SInv /\ Finished /\ [Next]_vars /\ <<P!CloseOutput>>_(P!vars)
        => (toClient = "done")' \/ <<OutLeft' < OutLeft>>_OutLeft
  <2>1. P!CloseOutput => P!ReaderStep
    BY DEF P!ReaderStep
  <2> QED BY <2>1, OutMoves, OutLess
<1>7. AllUnhindered /\ ToClientMayRun => ENABLED <<RelayToClient>>_vars
  BY DEF AllUnhindered, Unhindered, RelaysUnhindered
<1>8. AllUnhindered /\ SInv /\ Finished /\ AtClient => ENABLED <<ClientReads>>_vars
  <2>1. SInv /\ AtClient => outbound # <<>>
    <3>1. SInv /\ AtClient => Len(outbound) >= NetCap /\ NetCap \in Nat \ {0} /\ Len(outbound) \in Nat
      BY OutLens, SameConstants DEF AtClient, OutCounted, WW!ConstantsOK
    <3>2. outbound = <<>> => Len(outbound) = 0
      OBVIOUS
    <3> QED BY <3>1, <3>2
  <2> QED BY <2>1 DEF AllUnhindered, Finished, ClientMayRead
<1>9. AllUnhindered /\ AtClose => ENABLED <<P!CloseOutput>>_(P!vars)
  BY DEF AllUnhindered, Unhindered, P!Unhindered, P!CloserUnhindered, P!OutputMayClose,
         P!Feeders, P!Streams, AtClose
<1>10. toClient = "done" => Relayed
  BY DEF Relayed
<1>11. SInv => OutLeft \in Nat
  BY OutLens DEF OutCounted
<1>12. out \in P!Streams /\ err \in P!Streams
  BY DEF P!Streams
<1>13. ReaderServes(out) /\ ReaderServes(err)
  BY <1>12, StreamServed
<1>14. Fairness => /\ P!ReaderFairness(out) /\ P!ReaderFairness(err) /\ WF_(P!vars)(P!CloseOutput)
                   /\ WF_vars(RelayToClient)
  <2>1. (\A s \in P!Streams : P!ReaderFairness(s)) => P!ReaderFairness(out) /\ P!ReaderFairness(err)
    BY <1>12
  <2> QED BY <2>1, PTL DEF Fairness, P!Fairness, RelayFairness
<1> DEFINE Premises == CooperativeSpec /\ []AllUnhindered
           Moves == <><<OutLeft' < OutLeft>>_OutLeft
<1>15. Premises => [](/\ []Finished /\ []~Relayed => <>[][OutLeft' <= OutLeft]_OutLeft)
  BY <1>10, OutFalls, AlwaysSInv, PTL DEF CooperativeSpec, FairSpec, Spec
<1>16. Premises => [](/\ []Finished /\ []~Relayed /\ (AtReading(out) \/ AtReading(err)) => Moves)
  BY <1>13, <1>14, PTL DEF CooperativeSpec, FairSpec, ReaderServes
<1>17. Premises => [](/\ []Finished /\ []~Relayed /\ (ToClientMayRun \/ AtClient) => Moves)
  BY <1>1, <1>2, <1>4, <1>5, <1>7, <1>8, <1>10, <1>14, AlwaysSInv, PTL
  DEF CooperativeSpec, FairSpec, Spec
<1>18. Premises => [](/\ []Finished /\ []~Relayed /\ AtClose => Moves)
  BY <1>3, <1>6, <1>9, <1>10, <1>14, AlwaysSInv, PTL DEF CooperativeSpec, FairSpec, Spec
<1>19. Premises => [](/\ []Finished /\ []~Relayed => []Moves)
  BY <1>10, <1>16, <1>17, <1>18, OutWhere, AlwaysSInv, PTL DEF CooperativeSpec, FairSpec
<1> QED
  BY <1>11, <1>15, <1>19, AlwaysSInv, PTL DEF CooperativeSpec, FairSpec, WW!Descends

-----------------------------------------------------------------------------
(* Both ends.                                                              *)

SessionMeasures ==
  /\ ReadersDescend /\ FramesDescend
  /\ WW!Descends(InLeft) /\ WW!Descends(OutLeft)

Ending == CooperativeSpec /\ []AllUnhindered /\ SessionMeasures

LEMMA RelayedReturns == Ending => (Relayed ~> main = "returned")
<1>1. AllUnhindered => Unhindered
  BY DEF AllUnhindered
<1> QED
  BY <1>1, SessionTeardownEnds, PTL
  DEF Ending, SessionMeasures, CooperativeSpec, TeardownCompletes, Relayed

LEMMA NobodyReturns == alive = {} /\ [Next]_vars => (alive = {})'
BY DEF Next, RelayToClient, TakeUnit, SendUnit, StopToClient, RelayToProgram, TakeMessage,
   SendMessage, StopToProgram, PipeEndpoints, EndProcess, ProcessEnded, EndConnection, Return,
   ProcessSideStep, ClientSideStep, P!Deliver, P!Send, P!TerminateBegin, P!ProgramStep,
   P!WriteOut, P!ReadIn, P!CloseFd, P!Spawn, P!Die, P!Running, P!ReaderStep, P!Read,
   P!ReadFails, P!Abandon, P!CloseOutput, P!TerminateStep, P!CloseStdin, P!Escalate,
   P!Terminated, P!GiveUp, P!Sweep, P!Reap, P!WaitReturns, P!progVars, vars, pVars

(* When the program and all it forked have exited, the session ends, with  *)
(* a client that reads what it is sent for as long as it is there and with *)
(* keepalives that notice one that is no longer: what was written is       *)
(* delivered first (StopToClient after the readers' end of file), then     *)
(* PipeEndpoints tears the session down.                                   *)
THEOREM ProgramEndIsNoticed == ASSUME Pings PROVE Ending => ProgramEndEndsSession
<1>1. alive = {} => Fed
  BY DEF Fed, P!Holders
<1>2. SInv => client = "here" \/ NoMore
  BY DEF SInv, EndpointsInv, WW!Inv, WW!TypeOK, NoMore
<1>3. alive = {} /\ client = "here" => Finished
  BY DEF Finished
<1>4. Ending => ([]Finished ~> Relayed) /\ ([]NoMore /\ []Fed ~> Relayed)
  BY InputEnds, OutputEnds, PTL DEF Ending, SessionMeasures
<1>5. Ending => ((alive = {}) ~> Relayed)
  BY <1>1, <1>2, <1>3, <1>4, NobodyReturns, NoMoreStays, AlwaysSInv, PTL
  DEF Ending, CooperativeSpec, FairSpec, Spec
<1> QED
  BY <1>5, RelayedReturns, PTL DEF ProgramEndEndsSession

(* A client that is gone ends its session: what it had sent is still       *)
(* delivered, to a program that reads its stdin and has no descendants     *)
(* that hold it open unread, or is thrown away with the teardown.          *)
THEOREM ClientEndIsNoticed == ASSUME ~CanSpawn PROVE Ending => ClientEndEndsSession
<1>1. Spec => []PP!KinInv
  <2>1. P!Init => PP!Init
    BY SameProcessInit
  <2>2. [P!Next]_(P!vars) => [PP!Next]_(PP!vars)
    BY SameProcessNext, SameProcessVars
  <2>3. PP!Spec => []PP!KinInv
    BY PP!AlwaysKinInv, SameConstants
  <2> QED
    BY <2>1, <2>2, <2>3, SessionUsesProcessEndpoint, PTL DEF UsesProcessEndpoint, P!Spec, PP!Spec
<1>2. PP!KinInv => Fed
  BY DEF PP!KinInv, Fed, P!Holders
<1>3. client = "gone" => NoMore
  BY DEF NoMore
<1>4. Ending => ([]NoMore /\ []Fed ~> Relayed)
  BY InputEnds, PTL DEF Ending, SessionMeasures
<1>5. Ending => ((client = "gone") ~> Relayed)
  BY <1>1, <1>2, <1>3, <1>4, NoMoreStays, AlwaysSInv, PTL
  DEF Ending, CooperativeSpec, FairSpec, Spec
<1> QED
  BY <1>5, RelayedReturns, PTL DEF ClientEndEndsSession
=============================================================================

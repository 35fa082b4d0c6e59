------------------------------ MODULE Session ------------------------------
(***************************************************************************)
(* One session: PipeEndpoints (libwebsocketd/endpoint.go) connects the     *)
(* process endpoint and the WebSocket endpoint with two relay goroutines,  *)
(* waits for one of them to stop, terminates both endpoints and waits for  *)
(* the other.  Every step of either endpoint is a step of its own module,  *)
(* and every handover through a channel is one step of sender and relay.   *)
(***************************************************************************)
EXTENDS Naturals, Sequences, SequencesExt

(* See ProcessEndpoint and WebSocketEndpoint for what each constant is. *)
CONSTANTS
  PassStderr, PipeCap, MaxUnits, MaxIn, Closable, CanSpawn,
  Pings, NetCap, MaxFrames, Kinds, MaxSends

(* The two bounds on what the endpoints' callers send never bite here. *)
ASSUME BoundsOK ==
  /\ MaxIn >= MaxFrames
  /\ MaxSends >= MaxUnits["stdout"] + MaxUnits["stderr"]

VARIABLES
  (* the process endpoint *)
  alive, killed, fds, pipe, wrote, readEnds, inPipe, consumed, stdin,
  reader, held, output, taken, logged, ladder, waiter, sent,
  (* the WebSocket endpoint *)
  conn, client, inbound, nframes, posted, rf, rheld, wsOutput, wsDone,
  received, outbound, seen,
  (* PipeEndpoints *)
  toClient,   \* the relay of program output: "recv", "send" or "done"
  toProgram,  \* the relay of client messages
  unit,       \* the unit toClient is sending
  msg,        \* the message toProgram is sending
  finished,   \* the buffered channel each relay signals as it ends
  main        \* where PipeEndpoints itself is

InMsgs == 1..MaxFrames

P == INSTANCE ProcessEndpoint

OutMsgs == [src : P!Streams, n : 1..(MaxUnits["stdout"] + MaxUnits["stderr"])]

W == INSTANCE WebSocketEndpoint

ASSUME EndpointConstantsOK == P!ConstantsOK /\ W!ConstantsOK

relayVars == <<toClient, toProgram, unit, msg, finished, main>>
pVars == <<alive, killed, fds, pipe, wrote, readEnds, inPipe, consumed, stdin,
  reader, held, output, taken, logged, ladder, waiter, sent>>
wVars == <<conn, client, inbound, nframes, posted, rf, rheld, wsOutput, wsDone,
  received, outbound, seen>>
vars == <<pVars, wVars, relayVars>>

TypeOK ==
  /\ P!TypeOK
  /\ W!TypeOK
  /\ toClient \in {"recv", "send", "done"}
  /\ toProgram \in {"recv", "send", "done"}
  /\ unit \in Seq(P!Unit)
  /\ msg \in Seq(InMsgs)
  /\ finished \in 0..2
  /\ main \in {"relaying", "ending process", "ending connection", "waiting", "returned"}

Init ==
  /\ P!Init
  /\ W!Init
  /\ toClient = "recv"
  /\ toProgram = "recv"
  /\ unit = <<>>
  /\ msg = <<>>
  /\ finished = 0
  /\ main = "relaying"

-----------------------------------------------------------------------------
(* e1 to e2: program output becomes messages to the client.                *)

TakeUnit(s) ==
  /\ toClient = "recv"
  /\ P!Deliver(s)
  /\ toClient' = "send"
  /\ unit' = held[s]
  /\ UNCHANGED <<wVars, toProgram, msg, finished, main>>

SendUnit ==
  /\ toClient = "send"
  /\ W!Send(unit[1])
  /\ toClient' = "recv"
  /\ unit' = <<>>
  /\ UNCHANGED <<pVars, toProgram, msg, finished, main>>

(* Fault: the relay notices a failed send, not the end of its channel. *)
StopToClientOnFailure ==
  /\ toClient = "send" /\ W!SendFails
  /\ toClient' = "done"
  /\ unit' = <<>>
  /\ finished' = finished + 1
  /\ UNCHANGED <<pVars, wVars, toProgram, msg, main>>

(* The channel is closed and drained, or the client cannot be written to. *)
StopToClient ==
  /\ \/ toClient = "recv" /\ output = "closed"
     \/ toClient = "send" /\ W!SendFails
  /\ toClient' = "done"
  /\ unit' = <<>>
  /\ finished' = finished + 1
  /\ UNCHANGED <<pVars, wVars, toProgram, msg, main>>

(* e2 to e1: client messages become program input. *)

TakeMessage ==
  /\ toProgram = "recv"
  /\ W!Deliver
  /\ toProgram' = "send"
  /\ msg' = rheld
  /\ UNCHANGED <<pVars, toClient, unit, finished, main>>

(* Fault: the relay breaks when the send succeeds, not when it fails. *)
SendMessageAndStop ==
  /\ toProgram = "send"
  /\ P!Send(msg[1])
  /\ toProgram' = "done"
  /\ msg' = <<>>
  /\ finished' = finished + 1
  /\ UNCHANGED <<wVars, toClient, unit, main>>

SendMessage ==
  /\ toProgram = "send"
  /\ P!Send(msg[1])
  /\ toProgram' = "recv"
  /\ msg' = <<>>
  /\ UNCHANGED <<wVars, toClient, unit, finished, main>>

(* Fault: the same in the other direction. *)
StopToProgramOnFailure ==
  /\ toProgram = "send" /\ P!SendFails
  /\ toProgram' = "done"
  /\ msg' = <<>>
  /\ finished' = finished + 1
  /\ UNCHANGED <<pVars, wVars, toClient, unit, main>>

StopToProgram ==
  /\ \/ toProgram = "recv" /\ wsOutput = "closed"
     \/ toProgram = "send" /\ P!SendFails
  /\ toProgram' = "done"
  /\ msg' = <<>>
  /\ finished' = finished + 1
  /\ UNCHANGED <<pVars, wVars, toClient, unit, main>>

-----------------------------------------------------------------------------
(* PipeEndpoints: wait for the first relay, terminate the process, then    *)
(* the connection, and wait for the second relay.                          *)

(* Fault: Terminate is called again when the second relay stops. *)
EndProcessTwice ==
  /\ main \in {"relaying", "waiting"}
  /\ finished > 0
  /\ finished' = finished - 1
  /\ ladder' = "begun"
  /\ waiter' = "waiting"
  /\ main' = "ending process"
  /\ UNCHANGED <<alive, killed, fds, pipe, wrote, readEnds, inPipe, consumed, stdin,
       reader, held, output, taken, logged, sent, wVars, toClient, toProgram, unit, msg>>

EndProcess ==
  /\ main = "relaying"
  /\ finished > 0
  /\ finished' = finished - 1
  /\ P!TerminateBegin
  /\ main' = "ending process"
  /\ UNCHANGED <<wVars, toClient, toProgram, unit, msg>>

ProcessEnded ==
  /\ main = "ending process"
  /\ ladder = "returned"
  /\ main' = "ending connection"
  /\ UNCHANGED <<pVars, wVars, toClient, toProgram, unit, msg, finished>>

(* Fault: the connection is closed behind the endpoint's back. *)
EndConnectionDirectly ==
  /\ main = "ending connection"
  /\ conn' = "closed"
  /\ main' = "waiting"
  /\ UNCHANGED <<pVars, client, inbound, nframes, posted, rf, rheld, wsOutput, wsDone,
       received, outbound, seen, toClient, toProgram, unit, msg, finished>>

EndConnection ==
  /\ main = "ending connection"
  /\ W!Terminate
  /\ main' = "waiting"
  /\ UNCHANGED <<pVars, toClient, toProgram, unit, msg, finished>>

(* Fault: the second relay is not waited for. *)
ReturnAtOnce ==
  /\ main = "waiting"
  /\ main' = "returned"
  /\ UNCHANGED <<pVars, wVars, toClient, toProgram, unit, msg, finished>>

Return ==
  /\ main = "waiting"
  /\ finished > 0
  /\ finished' = finished - 1
  /\ main' = "returned"
  /\ UNCHANGED <<pVars, wVars, toClient, toProgram, unit, msg>>

RelayToClient == (\E s \in P!Streams : TakeUnit(s)) \/ SendUnit \/ StopToClient
RelayToProgram == TakeMessage \/ SendMessage \/ StopToProgram
PipeEndpoints == EndProcess \/ ProcessEnded \/ EndConnection \/ Return

-----------------------------------------------------------------------------
(* The endpoints' own goroutines, the program and the client. *)

ProcessSideStep ==
  /\ P!ProgramStep \/ P!ReaderStep \/ P!TerminateStep
  /\ UNCHANGED <<wVars, relayVars>>

ClientSideStep ==
  /\ W!ClientStep \/ W!ReadStep
  /\ UNCHANGED <<pVars, relayVars>>

Next ==
  \/ RelayToClient \/ RelayToProgram \/ PipeEndpoints
  \/ ProcessSideStep \/ ClientSideStep

Spec == Init /\ [][Next]_vars

RelayFairness ==
  WF_vars(RelayToClient) /\ WF_vars(RelayToProgram) /\ WF_vars(PipeEndpoints)

(* websocketd's goroutines and the kernel; neither client nor program. *)
Fairness == P!Fairness /\ P!KernelFairness /\ W!Fairness /\ RelayFairness

FairSpec == Spec /\ Fairness

(* And with a client that reads what it is sent while it is there, and a   *)
(* program that reads its stdin for as long as it runs.                    *)
ClientReads == ClientSideStep /\ W!ClientReceive
ProgramReads == ProcessSideStep /\ P!ReadIn("child")

CooperativeSpec == FairSpec /\ WF_vars(ClientReads) /\ WF_vars(ProgramReads)

-----------------------------------------------------------------------------
(* Properties.                                                             *)

(* Each endpoint is used the way its own specification allows: what is     *)
(* checked and proved of an endpoint alone holds of it in a session.       *)
UsesProcessEndpoint == P!Spec
UsesWebSocketEndpoint == W!Spec

(* The program reads the client's messages in the order they were sent,    *)
(* none lost between two others, however the session ends.                 *)
ProgramReadsPrefix == IsPrefix(consumed, posted)

(* What readFrames hands over are the client's messages of the endpoint's  *)
(* type, in order and without a gap, whatever other and oversized frames   *)
(* come between them.                                                      *)
MessagesInOrder == W!MessagesInOrder

(* The client sees what left the process endpoint, in that order, without  *)
(* loss or repetition before the end.                                      *)
ClientSeesPrefix == IsPrefix(seen, taken)

(* When PipeEndpoints returns (and the session's slot is given back) both  *)
(* relays have stopped, the connection is closed and no process of the     *)
(* group is left that SIGKILL has not reached.                             *)
NothingLeftRunning ==
  main = "returned" =>
    /\ toClient = "done" /\ toProgram = "done"
    /\ conn = "closed"
    /\ alive \subseteq killed

(* The output of a program that ended is thrown away only because of a     *)
(* message that could not be written to its stdin: if the client stays,    *)
(* has sent nothing but messages, and each of these is in the pipe or was  *)
(* read, a session is torn down only after all that the program and its    *)
(* descendants wrote was written to the connection (PipeEndpoints takes    *)
(* the end of either relay, and closeOutputWhenDone waits for both         *)
(* readers).                                                               *)
HeardClientGetsAll ==
  /\ ~Pings
  /\ client = "here"
  /\ nframes = Len(posted)
  /\ consumed \o inPipe = posted
  /\ main # "relaying"
  => \A s \in P!Feeders : \A k \in 1..wrote[s] :
       \E i \in DOMAIN (seen \o outbound) : (seen \o outbound)[i] = [src |-> s, n |-> k]

(* No goroutine of a session is held up but where the code says so.  A     *)
(* relay waits for its source, or for room at its target; PipeEndpoints    *)
(* for Terminate and for a relay's signal, which goes to a buffered        *)
(* channel.                                                                *)
ToClientMayRun ==
  \/ toClient = "recv" /\ (output = "closed" \/ \E s \in P!Streams : reader[s] = "send")
  \/ toClient = "send" /\ (W!SendFails \/ Len(outbound) < NetCap)
ToProgramMayRun ==
  \/ toProgram = "recv" /\ (wsOutput = "closed" \/ rf = "send")
  \/ toProgram = "send" /\ (P!SendFails \/ Len(inPipe) < PipeCap)
PipeMayRun ==
  \/ main \in {"relaying", "waiting"} /\ finished > 0
  \/ main = "ending process" /\ ladder = "returned"
  \/ main = "ending connection"

RelaysUnhindered ==
  /\ ToClientMayRun => ENABLED <<RelayToClient>>_vars
  /\ ToProgramMayRun => ENABLED <<RelayToProgram>>_vars
  /\ PipeMayRun => ENABLED <<PipeEndpoints>>_vars

Unhindered == P!Unhindered /\ W!ReadUnhindered /\ RelaysUnhindered

(* A client that reads and a program that reads are held up by nothing.    *)
ClientMayRead == client = "here" /\ outbound # <<>>
ProgramMayRead == P!Running("child") /\ "stdin" \in fds["child"] /\ inPipe # <<>>

AllUnhindered ==
  /\ Unhindered
  /\ ClientMayRead => ENABLED <<ClientReads>>_vars
  /\ ProgramMayRead => ENABLED <<ProgramReads>>_vars

(* Once either relay has stopped, PipeEndpoints returns and every          *)
(* goroutine of the session ends, whatever the client and the program do.  *)
TeardownCompletes ==
  (toClient = "done" \/ toProgram = "done") ~>
    /\ main = "returned"
    /\ rf = "exit"
    /\ \A s \in P!Streams : reader[s] = "exit"
    /\ waiter = "sent"

(* The exit of the program and of all it forked ends the session, with a   *)
(* client that reads and with keepalives (StopToClient, PipeEndpoints).    *)
ProgramEndEndsSession == alive = {} ~> main = "returned"

(* "When the connection closes" the program is torn down                   *)
(* (process-lifecycle.md): a client that is gone ends its session.         *)
ClientEndEndsSession == client = "gone" ~> main = "returned"

=============================================================================

------------------------------ MODULE Keepalive ------------------------------
(***************************************************************************)
(* The keepalive of one WebSocket connection, in discrete time: the        *)
(* goroutine that pings, the read deadline that a pong resets, and         *)
(* readFrames, which alone takes the pongs in (setupPingPong and           *)
(* readFrames, libwebsocketd/websocket_endpoint.go).                       *)
(*                                                                         *)
(* A client that is "here" answers every ping within Latency.  One that is *)
(* "mute" answers none, and may well send messages.  Whether the program   *)
(* takes messages before time passes is a parameter: with --pingms far     *)
(* above the time a program needs for a message, it does.                  *)
(***************************************************************************)
EXTENDS Naturals, Sequences

CONSTANTS
  Interval,       \* --pingms
  Latency,        \* how long a pong may be under way after its ping
  PromptProgram,  \* whether messages are taken without delay
  MaxInbound      \* frames in flight from the client

ASSUME KeepaliveConstantsOK ==
  /\ Interval \in Nat /\ Latency \in Nat /\ Latency < Interval
  /\ PromptProgram \in BOOLEAN
  /\ MaxInbound \in Nat \ {0}

VARIABLES
  client,     \* "here" or "mute"
  asked,      \* whether a ping waits for the client's answer
  silent,     \* time since the client last sent a pong, up to a bound
  inbound,    \* frames the client sent that no read has returned
  sincePing,  \* time since the last tick of the ticker
  pinger,     \* the goroutine that pings: "on" or "off"
  deadline,   \* time left to the read deadline
  rf,         \* where readFrames is
  conn        \* the connection

vars == <<client, asked, silent, inbound, sincePing, pinger, deadline, rf, conn>>

ReadDeadline == 2 * Interval

(* The bound on the count of silent time. *)
TooLong == ReadDeadline + 1

TypeOK ==
  /\ client \in {"here", "mute"}
  /\ asked \in BOOLEAN
  /\ silent \in 0..TooLong
  /\ inbound \in Seq({"pong", "msg"})
  /\ sincePing \in 0..Interval
  /\ pinger \in {"on", "off"}
  /\ deadline \in 0..ReadDeadline
  /\ rf \in {"read", "send", "exit"}
  /\ conn \in {"open", "closed"}

Init ==
  /\ client = "here"
  /\ asked = FALSE
  /\ silent = 0
  /\ inbound = <<>>
  /\ sincePing = 0
  /\ pinger = "on"
  /\ deadline = ReadDeadline
  /\ rf = "read"
  /\ conn = "open"

-----------------------------------------------------------------------------
(* The client.                                                             *)

Pong ==
  /\ client = "here"
  /\ asked
  /\ Len(inbound) < MaxInbound
  /\ inbound' = Append(inbound, "pong")
  /\ asked' = FALSE
  /\ silent' = 0
  /\ UNCHANGED <<client, sincePing, pinger, deadline, rf, conn>>

Post ==
  /\ Len(inbound) < MaxInbound
  /\ inbound' = Append(inbound, "msg")
  /\ UNCHANGED <<client, asked, silent, sincePing, pinger, deadline, rf, conn>>

FallMute ==
  /\ client = "here"
  /\ client' = "mute"
  /\ UNCHANGED <<asked, silent, inbound, sincePing, pinger, deadline, rf, conn>>

-----------------------------------------------------------------------------
(* A definition marked "Fault" is not part of the specification: it is the *)
(* definition after it with a mistake the code could have made.            *)

(* Fault: any frame resets the deadline. *)
ReadFrameResets ==
  /\ rf = "read"
  /\ inbound # <<>>
  /\ inbound' = Tail(inbound)
  /\ deadline' = ReadDeadline
  /\ rf' = IF Head(inbound) = "msg" THEN "send" ELSE rf
  /\ UNCHANGED <<client, asked, silent, sincePing, pinger, conn>>

(* Fault: a pong allows for one more interval, not for two. *)
ReadFrameOneInterval ==
  /\ rf = "read"
  /\ inbound # <<>>
  /\ inbound' = Tail(inbound)
  /\ deadline' = IF Head(inbound) = "pong" THEN Interval ELSE deadline
  /\ rf' = IF Head(inbound) = "msg" THEN "send" ELSE rf
  /\ UNCHANGED <<client, asked, silent, sincePing, pinger, conn>>

(* NextReader handles a pong on its way to the next message.  What it has  *)
(* buffered it returns even after the deadline.                            *)
ReadFrame ==
  /\ rf = "read"
  /\ inbound # <<>>
  /\ inbound' = Tail(inbound)
  /\ deadline' = IF Head(inbound) = "pong" THEN ReadDeadline ELSE deadline
  /\ rf' = IF Head(inbound) = "msg" THEN "send" ELSE rf
  /\ UNCHANGED <<client, asked, silent, sincePing, pinger, conn>>

(* Otherwise the read fails, though a pong may be waiting to be read. *)
DeadlinePasses ==
  /\ rf = "read"
  /\ deadline = 0
  /\ rf' = "exit"
  /\ UNCHANGED <<client, asked, silent, inbound, sincePing, pinger, deadline, conn>>

(* The program takes the message readFrames is parked with. *)
Deliver ==
  /\ rf = "send"
  /\ rf' = "read"
  /\ UNCHANGED <<client, asked, silent, inbound, sincePing, pinger, deadline, conn>>

(* The end of readFrames ends the session, which closes the connection. *)
Terminate ==
  /\ rf = "exit"
  /\ conn = "open"
  /\ conn' = "closed"
  /\ UNCHANGED <<client, asked, silent, inbound, sincePing, pinger, deadline, rf>>

(* Fault: the error of WriteControl is ignored. *)
PingForever ==
  /\ pinger = "on"
  /\ sincePing = Interval
  /\ sincePing' = 0
  /\ asked' = (asked \/ conn = "open")
  /\ UNCHANGED <<client, silent, inbound, pinger, deadline, rf, conn>>

(* Fault: a ping that is unanswered at the next one ends the wait. *)
PingGivesUp ==
  /\ pinger = "on"
  /\ sincePing = Interval
  /\ sincePing' = 0
  /\ deadline' = IF asked THEN 0 ELSE deadline
  /\ IF conn = "open"
       THEN asked' = TRUE /\ UNCHANGED pinger
       ELSE pinger' = "off" /\ UNCHANGED asked
  /\ UNCHANGED <<client, silent, inbound, rf, conn>>

(* A tick of the ticker: WriteControl fails once the connection is closed. *)
Ping ==
  /\ pinger = "on"
  /\ sincePing = Interval
  /\ sincePing' = 0
  /\ IF conn = "open"
       THEN asked' = TRUE /\ UNCHANGED pinger
       ELSE pinger' = "off" /\ UNCHANGED asked
  /\ UNCHANGED <<client, silent, inbound, deadline, rf, conn>>

(* Time passes once everything that does not wait for time has happened. *)
Settled ==
  /\ rf = "read" => inbound = <<>> /\ deadline > 0
  /\ PromptProgram => rf # "send"
  /\ rf = "exit" => conn = "closed"
  /\ client = "here" /\ asked => sincePing < Latency \/ Len(inbound) >= MaxInbound
  /\ pinger = "on" => sincePing < Interval

Tick ==
  /\ Settled
  /\ silent' = IF silent < TooLong THEN silent + 1 ELSE silent
  /\ sincePing' = IF pinger = "on" THEN sincePing + 1 ELSE sincePing
  /\ deadline' = IF deadline > 0 THEN deadline - 1 ELSE 0
  /\ UNCHANGED <<client, asked, inbound, pinger, rf, conn>>

Next ==
  \/ Pong \/ Post \/ FallMute
  \/ ReadFrame \/ DeadlinePasses \/ Deliver \/ Terminate
  \/ Ping \/ Tick

Spec == Init /\ [][Next]_vars

(* Time passes, goroutines run and messages are taken. *)
FairSpec ==
  /\ Spec
  /\ WF_vars(Tick) /\ WF_vars(Ping) /\ WF_vars(Terminate)
  /\ WF_vars(ReadFrame \/ DeadlinePasses) /\ WF_vars(Deliver)

(* The guards of Tick and Ping are the conditions under which fairness     *)
(* makes time pass and the ticker tick.  It follows from the definitions   *)
(* and says nothing of the code: a premise of the theorem about liveness,  *)
(* because ENABLED is beyond the provers.                                  *)
Unhindered ==
  pinger = "on" =>
    /\ Settled => ENABLED <<Tick>>_vars
    /\ sincePing = Interval => ENABLED <<Ping>>_vars

-----------------------------------------------------------------------------
(* Properties.                                                             *)

(* A client that answers every ping is never cut off, however late in its  *)
(* interval each pong arrives: the connection is closed only "when         *)
(* --pingms keepalives go unanswered" (process-lifecycle.md).              *)
AnsweringClientKept == client = "here" => rf # "exit"

(* A client that answers no ping is cut off within twice the interval,     *)
(* even if it keeps sending messages (comment of setupPingPong).           *)
MuteClientCut == silent > ReadDeadline => rf = "exit"

(* And nobody before that: one ping or two without an answer are no end, a *)
(* client has twice the interval from its last pong, or from the start     *)
(* (process-lifecycle.md: "for twice the ping interval").                  *)
CutOffInTime == rf = "exit" => silent >= ReadDeadline

(* The goroutine that pings does not outlive the connection by more than   *)
(* its next tick (setupPingPong).                                          *)
PingerEnds == conn = "closed" ~> pinger = "off"

=============================================================================

-------------------------- MODULE WebSocketEndpoint --------------------------
(***************************************************************************)
(* The client side of one session: the WebSocket connection, the client at *)
(* its other end, and the goroutine that reads its frames                  *)
(* (libwebsocketd/websocket_endpoint.go).  The connection itself is        *)
(* gorilla/websocket over TCP, modelled from how the endpoint uses it.     *)
(*                                                                         *)
(* A frame is a whole message.  Client and server frames are numbered, so  *)
(* that a payload is its place in its direction.                           *)
(*                                                                         *)
(* Who calls Terminate, Send and Output is left open (see Session.tla).    *)
(***************************************************************************)
EXTENDS Naturals, Sequences, SequencesExt

CONSTANTS
  Pings,      \* whether --pingms is set
  NetCap,     \* frames in flight, each way, before a write blocks
  MaxFrames,  \* frames the client sends
  Kinds,      \* the kinds of frames the client sends
  OutMsgs,    \* the messages that may be sent to the client
  MaxSends    \* messages sent to the client

(* "msg" has the endpoint's message type, "other" has not, and "big" has   *)
(* it but exceeds --maxframesize.                                          *)
ConstantsOK ==
  /\ Pings \in BOOLEAN
  /\ NetCap \in Nat \ {0}
  /\ MaxFrames \in Nat
  /\ Kinds \subseteq {"msg", "other", "big"}
  /\ MaxSends \in Nat

VARIABLES
  conn,      \* websocketd's end of the connection
  client,    \* "here", "hung" (neither reads, sends nor answers pings), "gone"
  inbound,   \* frames the client sent that no read has returned
  nframes,   \* how many frames the client has sent
  posted,    \* the numbers of its "msg" frames
  rf,        \* where readFrames is
  rheld,     \* the message readFrames is parked with
  wsOutput,    \* its output channel
  wsDone,      \* the channel Terminate closes
  received,  \* messages handed over through the output channel
  outbound,  \* messages written to the connection and not read by the client
  seen       \* messages the client has read

clientVars == <<client, inbound, nframes, posted>>
readVars == <<rf, rheld, wsOutput, received>>
sendVars == <<outbound, seen>>
endVars == <<conn, wsDone>>
vars == <<clientVars, readVars, sendVars, endVars>>

Frame == [kind : {"msg", "other", "big"}, n : Nat \ {0}]

TypeOK ==
  /\ conn \in {"open", "closed"}
  /\ client \in {"here", "hung", "gone"}
  /\ inbound \in Seq(Frame)
  /\ Len(inbound) <= NetCap
  /\ nframes \in Nat
  /\ posted \in Seq(Nat \ {0})
  /\ rf \in {"read", "send", "exit"}
  /\ rheld \in Seq(Nat \ {0})
  /\ wsOutput \in {"open", "closed"}
  /\ wsDone \in BOOLEAN
  /\ received \in Seq(Nat \ {0})
  /\ outbound \in Seq(OutMsgs)
  /\ Len(outbound) <= NetCap
  /\ seen \in Seq(OutMsgs)

(* The handshake is complete and StartReading has run. *)
Init ==
  /\ conn = "open"
  /\ client = "here"
  /\ inbound = <<>>
  /\ nframes = 0
  /\ posted = <<>>
  /\ rf = "read"
  /\ rheld = <<>>
  /\ wsOutput = "open"
  /\ wsDone = FALSE
  /\ received = <<>>
  /\ outbound = <<>>
  /\ seen = <<>>

-----------------------------------------------------------------------------
(* The client.                                                             *)

ClientSend(k) ==
  /\ client = "here"
  /\ conn = "open"
  /\ nframes < MaxFrames
  /\ Len(inbound) < NetCap
  /\ nframes' = nframes + 1
  /\ inbound' = Append(inbound, [kind |-> k, n |-> nframes'])
  /\ posted' = IF k = "msg" THEN Append(posted, nframes') ELSE posted
  /\ UNCHANGED <<client, readVars, sendVars, endVars>>

(* What was in flight when websocketd closed the connection may still be   *)
(* read.                                                                   *)
ClientReceive ==
  /\ client = "here"
  /\ outbound # <<>>
  /\ seen' = Append(seen, Head(outbound))
  /\ outbound' = Tail(outbound)
  /\ UNCHANGED <<clientVars, readVars, endVars>>

(* The client closes the connection, or crashes and its kernel does. *)
ClientLeave ==
  /\ client # "gone"
  /\ client' = "gone"
  /\ UNCHANGED <<inbound, nframes, posted, readVars, sendVars, endVars>>

ClientHang ==
  /\ client = "here"
  /\ client' = "hung"
  /\ UNCHANGED <<inbound, nframes, posted, readVars, sendVars, endVars>>

ClientStep ==
  \/ \E k \in Kinds : ClientSend(k)
  \/ ClientReceive
  \/ ClientLeave
  \/ ClientHang

-----------------------------------------------------------------------------
(* readFrames.                                                             *)

(* Fault: a message nobody waits for is dropped (a select with a default). *)
ReadFrameDrops ==
  /\ rf = "read"
  /\ inbound # <<>>
  /\ inbound' = Tail(inbound)
  /\ \/ /\ Head(inbound).kind = "msg"
        /\ \/ rf' = "send" /\ rheld' = <<Head(inbound).n>>
           \/ UNCHANGED <<rf, rheld>>
     \/ /\ Head(inbound).kind = "other"
        /\ UNCHANGED <<rf, rheld>>
     \/ /\ Head(inbound).kind = "big"
        /\ rf' = "exit"
        /\ UNCHANGED rheld
  /\ UNCHANGED <<client, nframes, posted, wsOutput, received, sendVars, endVars>>

(* NextReader returns a frame, one it had buffered even after the close.   *)
(* A frame of another type is ignored; one over the limit is an error.     *)
ReadFrame ==
  /\ rf = "read"
  /\ inbound # <<>>
  /\ inbound' = Tail(inbound)
  /\ \/ /\ Head(inbound).kind = "msg"
        /\ rf' = "send"
        /\ rheld' = <<Head(inbound).n>>
     \/ /\ Head(inbound).kind = "other"
        /\ UNCHANGED <<rf, rheld>>
     \/ /\ Head(inbound).kind = "big"
        /\ rf' = "exit"
        /\ UNCHANGED rheld
  /\ UNCHANGED <<client, nframes, posted, wsOutput, received, sendVars, endVars>>

ReadStops ==
  /\ rf = "read"
  /\ rf' = "exit"
  /\ UNCHANGED <<clientVars, rheld, wsOutput, received, sendVars, endVars>>

(* NextReader fails: the connection is closed, the client is gone (what it *)
(* had sent may be lost with it), or it has ignored pings for too long.    *)
ReadFails ==
  /\ conn = "closed" \/ client = "gone" \/ (Pings /\ client = "hung")
  /\ ReadStops

(* The read deadline also passes when no read is under way to take the     *)
(* pongs in: a client that answers every ping may be cut off.              *)
DeadlinePasses ==
  /\ Pings
  /\ client = "here"
  /\ ReadStops

(* The select of a parked readFrames: somebody receives from Output() ... *)
Deliver ==
  /\ rf = "send"
  /\ received' = received \o rheld
  /\ rheld' = <<>>
  /\ rf' = "read"
  /\ UNCHANGED <<clientVars, wsOutput, sendVars, endVars>>

(* ... or Terminate has closed done. *)
Abandon ==
  /\ rf = "send"
  /\ wsDone
  /\ rheld' = <<>>
  /\ rf' = "exit"
  /\ UNCHANGED <<clientVars, wsOutput, received, sendVars, endVars>>

(* The deferred close of the output channel. *)
CloseOutput ==
  /\ wsOutput = "open"
  /\ rf = "exit"
  /\ wsOutput' = "closed"
  /\ UNCHANGED <<clientVars, rf, rheld, received, sendVars, endVars>>

ReadStep == ReadFrame \/ ReadFails \/ DeadlinePasses \/ Abandon \/ CloseOutput

-----------------------------------------------------------------------------
(* Send: a write blocks while the client does not read, and fails once the *)
(* connection is closed or the client is gone.  A write to a client that   *)
(* has just gone may still succeed, to no effect.                          *)

(* Fault: a write that takes too long is given up, without an error. *)
SendDrops(m) ==
  /\ conn = "open"
  /\ \/ UNCHANGED outbound
     \/ /\ client # "gone"
        /\ Len(outbound) < NetCap
        /\ Len(seen) + Len(outbound) < MaxSends
        /\ outbound' = Append(outbound, m)
  /\ UNCHANGED <<clientVars, readVars, endVars, seen>>

Send(m) ==
  /\ conn = "open"
  /\ IF client = "gone"
       THEN UNCHANGED outbound
       ELSE /\ Len(outbound) < NetCap
            /\ Len(seen) + Len(outbound) < MaxSends
            /\ outbound' = Append(outbound, m)
  /\ UNCHANGED <<clientVars, readVars, endVars, seen>>

SendFails == conn = "closed" \/ client = "gone"

(* Fault: only the connection is closed, which wakes no parked reader. *)
TerminateConnOnly ==
  /\ conn' = "closed"
  /\ UNCHANGED <<clientVars, readVars, sendVars, wsDone>>

Terminate ==
  /\ wsDone' = TRUE
  /\ conn' = "closed"
  /\ UNCHANGED <<clientVars, readVars, sendVars>>

CallerStep ==
  \/ Deliver
  \/ \E m \in OutMsgs : Send(m)
  \/ Terminate

Next == ClientStep \/ ReadStep \/ CallerStep

Spec == Init /\ [][Next]_vars

ReadRuns == ReadFrame \/ ReadFails \/ Abandon \/ CloseOutput

(* readFrames runs.  A client owes nothing, and a live one no hang-up. *)
Fairness == WF_vars(ReadRuns)

FairSpec == Spec /\ Fairness

-----------------------------------------------------------------------------
(* Properties.                                                             *)

(* The messages received from Output() are the client's messages of the    *)
(* endpoint's type, in order and without a gap, whatever frames of other   *)
(* types come between them (readFrames).                                   *)
MessagesInOrder == IsPrefix(received, posted)

(* readFrames waits for a frame, the end of the connection or of the       *)
(* client's life, or for somebody to take its message, and for nothing     *)
(* else: done wakes it from the last of these.                             *)
ReadMayRun ==
  \/ /\ rf = "read"
     /\ inbound # <<>> \/ conn = "closed" \/ client = "gone" \/ (Pings /\ client = "hung")
  \/ rf = "send" /\ wsDone
  \/ rf = "exit" /\ wsOutput = "open"

ReadUnhindered == ReadMayRun => ENABLED <<ReadRuns>>_vars

=============================================================================

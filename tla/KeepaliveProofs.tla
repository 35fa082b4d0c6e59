--------------------------- MODULE KeepaliveProofs ---------------------------
(***************************************************************************)
(* Proofs about Keepalive: whatever the interval, and whatever latency     *)
(* below it, a program that takes its messages without delay is enough for *)
(* a client to be cut off when it stops answering, and only then.  The run *)
(* keepalive_parked shows that such a program is needed.  The goroutine    *)
(* that pings ends once the connection is closed.                          *)
(***************************************************************************)
EXTENDS Keepalive, Descent, TLAPS

(* A pong is on its way to readFrames. *)
HasPong(s) == \E i \in 1..Len(s) : s[i] = "pong"

(* Nothing happens to the connection of a client that answers. *)
Kept ==
  client = "here" => rf # "exit" /\ conn = "open" /\ pinger = "on"

(* From pong to ping the deadline is more than one interval away: it was   *)
(* two intervals when the pong was read, which is after the last tick.     *)
AfterPong ==
  client = "here" /\ ~asked /\ ~HasPong(inbound) =>
    deadline + sincePing >= ReadDeadline

(* From ping to pong it is closer, but no closer than the pong.            *)
AfterPing ==
  client = "here" /\ (asked \/ HasPong(inbound)) =>
    deadline + sincePing >= Interval /\ sincePing <= Latency

(* The deadline never outlasts two intervals of silence. *)
SilenceCounts ==
  rf # "exit" =>
    /\ silent + deadline <= ReadDeadline
    /\ HasPong(inbound) => silent = 0

(* Nor does it pass before, and never with a pong that waits to be read:   *)
(* readFrames takes in a pong before the next tick.                        *)
Patient ==
  /\ rf # "exit" =>
       IF HasPong(inbound) THEN deadline > 0 ELSE silent + deadline >= ReadDeadline
  /\ rf = "exit" => silent >= ReadDeadline

Inv ==
  /\ TypeOK
  /\ Kept
  /\ AfterPong
  /\ AfterPing
  /\ SilenceCounts
  /\ Patient

-----------------------------------------------------------------------------
(* Where a pong can be after a frame is sent or read.                      *)

LEMMA AppendPong ==
  ASSUME NEW s \in Seq({"pong", "msg"}), NEW f \in {"pong", "msg"}
  PROVE  /\ Append(s, f) \in Seq({"pong", "msg"})
         /\ HasPong(Append(s, f)) <=> HasPong(s) \/ f = "pong"
<1>1. /\ Append(s, f) \in Seq({"pong", "msg"})
      /\ Len(Append(s, f)) = Len(s) + 1
      /\ Len(s) \in Nat
      /\ \A i \in 1..Len(s) : Append(s, f)[i] = s[i]
      /\ Append(s, f)[Len(s) + 1] = f
  OBVIOUS
<1>2. \A i \in 1..(Len(s) + 1) : i \in 1..Len(s) \/ i = Len(s) + 1
  BY <1>1
<1> QED
  BY <1>1, <1>2 DEF HasPong

LEMMA TailPong ==
  ASSUME NEW s \in Seq({"pong", "msg"}), s # <<>>
  PROVE  /\ Tail(s) \in Seq({"pong", "msg"})
         /\ Head(s) \in {"pong", "msg"}
         /\ HasPong(s) <=> HasPong(Tail(s)) \/ Head(s) = "pong"
<1>1. /\ Tail(s) \in Seq({"pong", "msg"})
      /\ Len(Tail(s)) = Len(s) - 1
      /\ Len(s) \in Nat \ {0}
      /\ Head(s) = s[1]
      /\ s[1] \in {"pong", "msg"}
      /\ \A i \in 1..(Len(s) - 1) : Tail(s)[i] = s[i + 1]
  OBVIOUS
<1>2. HasPong(s) => HasPong(Tail(s)) \/ Head(s) = "pong"
  <2> SUFFICES ASSUME NEW i \in 1..Len(s), s[i] = "pong", i # 1
               PROVE  HasPong(Tail(s))
    BY <1>1 DEF HasPong
  <2>1. i - 1 \in 1..(Len(s) - 1) /\ Tail(s)[i - 1] = s[i]
    BY <1>1
  <2> QED
    BY <1>1, <2>1 DEF HasPong
<1>3. HasPong(Tail(s)) => HasPong(s)
  <2> SUFFICES ASSUME NEW i \in 1..(Len(s) - 1), Tail(s)[i] = "pong"
               PROVE  HasPong(s)
    BY <1>1 DEF HasPong
  <2>1. i + 1 \in 1..Len(s) /\ s[i + 1] = "pong"
    BY <1>1
  <2> QED
    BY <2>1 DEF HasPong
<1>4. Head(s) = "pong" => HasPong(s)
  BY <1>1 DEF HasPong
<1> QED
  BY <1>1, <1>2, <1>3, <1>4

LEMMA NoPong == ~HasPong(<<>>)
BY DEF HasPong

-----------------------------------------------------------------------------
(* The inductive invariant.                                                *)

LEMMA InitInv == Init => Inv
<1> SUFFICES ASSUME Init PROVE Inv
  OBVIOUS
<1>1. TypeOK
  <2>1. asked \in BOOLEAN
    BY Zenon DEF Init
  <2> QED
    BY <2>1, KeepaliveConstantsOK DEF Init, TypeOK, ReadDeadline, TooLong
<1>2. ~HasPong(inbound)
  BY NoPong DEF Init
<1> QED
  BY <1>1, <1>2, KeepaliveConstantsOK
  DEF Init, Inv, ReadDeadline, Kept, AfterPong, AfterPing, SilenceCounts,
      Patient

LEMMA NextInv ==
  ASSUME PromptProgram, Inv, [Next]_vars
  PROVE  Inv'
<1> USE KeepaliveConstantsOK
    DEF Inv, TypeOK, ReadDeadline, TooLong, Kept, AfterPong, AfterPing, SilenceCounts,
      Patient
<1>1. CASE Pong
  <2>1. inbound' \in Seq({"pong", "msg"}) /\ HasPong(inbound')
    BY <1>1, AppendPong DEF Pong
  <2>2. asked' \in BOOLEAN /\ ~asked'
    BY <1>1, Zenon DEF Pong
  <2> QED
    BY <1>1, <2>1, <2>2 DEF Pong
<1>2. CASE Post
  BY <1>2, AppendPong DEF Post
<1>3. CASE FallMute
  BY <1>3 DEF FallMute
<1>4. CASE ReadFrame
  BY <1>4, TailPong DEF ReadFrame
<1>5. CASE DeadlinePasses
  BY <1>5 DEF DeadlinePasses
<1>6. CASE Deliver
  BY <1>6 DEF Deliver
<1>7. CASE Terminate
  BY <1>7 DEF Terminate
<1>8. CASE Ping
  <2>1. client = "here" => ~asked /\ ~HasPong(inbound)
    BY <1>8 DEF Ping
  <2>2. client = "here" => deadline >= Interval
    BY <1>8, <2>1 DEF Ping
  <2>3. asked' \in BOOLEAN
    BY <1>8, Zenon DEF Ping
  <2> QED
    BY <1>8, <2>1, <2>2, <2>3 DEF Ping
<1>9. CASE Tick
  BY <1>9, NoPong DEF Tick, Settled
<1>10. CASE UNCHANGED vars
  BY <1>10 DEF vars
<1> QED
  BY <1>1, <1>2, <1>3, <1>4, <1>5, <1>6, <1>7, <1>8, <1>9, <1>10 DEF Next

LEMMA SpecInv == ASSUME PromptProgram PROVE Spec => []Inv
<1>1. Inv /\ [Next]_vars => Inv'
  BY NextInv
<1> QED
  BY <1>1, InitInv, PTL DEF Spec

-----------------------------------------------------------------------------
(* Theorems.                                                               *)

(* A client that answers every ping is never cut off. *)
THEOREM AnsweringKept == ASSUME PromptProgram PROVE Spec => []AnsweringClientKept
<1>1. Inv => AnsweringClientKept
  BY DEF Inv, Kept, AnsweringClientKept
<1> QED
  BY <1>1, SpecInv, PTL

(* A client that answers none is cut off within twice the interval. *)
THEOREM MuteCut == ASSUME PromptProgram PROVE Spec => []MuteClientCut
<1>1. Inv => MuteClientCut
  BY KeepaliveConstantsOK
  DEF Inv, TypeOK, SilenceCounts, MuteClientCut, ReadDeadline, TooLong
<1> QED
  BY <1>1, SpecInv, PTL

(* And nobody is cut off before twice the interval without a pong. *)
THEOREM NobodyCutOffEarly == ASSUME PromptProgram PROVE Spec => []CutOffInTime
<1>1. Inv => CutOffInTime
  BY DEF Inv, Patient, CutOffInTime
<1> QED
  BY <1>1, SpecInv, PTL

-----------------------------------------------------------------------------
(* Liveness.  The client of a closed connection is mute, so that nothing   *)
(* but the ticker holds up time.                                           *)

Closed == conn = "closed" /\ pinger = "on"
TickerRuns == sincePing < Interval
Left == Interval - sincePing

LEMMA ExitInductive ==
  Inv /\ (conn = "closed" => rf = "exit") /\ [Next]_vars => (conn = "closed" => rf = "exit")'
BY DEF Next, Pong, Post, FallMute, ReadFrame, DeadlinePasses, Deliver, Terminate, Ping, Tick, vars

LEMMA ClosedFacts ==
  ASSUME Inv, conn = "closed" => rf = "exit", Closed
  PROVE  IF TickerRuns THEN Settled ELSE sincePing = Interval
BY KeepaliveConstantsOK DEF Inv, TypeOK, Kept, Closed, TickerRuns, Settled

LEMMA LeftIsNat == Inv => Left \in Nat
BY KeepaliveConstantsOK DEF Inv, TypeOK, Left

LEMMA ClosedSteps ==
  ASSUME Inv, [Next]_vars, Closed
  PROVE  /\ Closed' \/ (pinger = "off")'
         /\ (pinger = "off")' \/ [Left' <= Left]_Left
         /\ (pinger = "off")' \/ <<Left' < Left>>_Left \/ TickerRuns' = TickerRuns
         /\ <<Tick>>_vars => <<Left' < Left>>_Left
         /\ <<Ping>>_vars => (pinger = "off")'
<1> USE KeepaliveConstantsOK DEF Inv, TypeOK, Closed, TickerRuns, Left
<1>1. CASE Tick
  BY <1>1 DEF Tick, Ping
<1>2. CASE Ping
  BY <1>2 DEF Ping, Tick
<1>3. CASE UNCHANGED <<sincePing, pinger>> /\ conn' = conn /\ ~Tick /\ ~Ping
  BY <1>3
<1> QED
  BY <1>1, <1>2, <1>3
  DEF Next, Pong, Post, FallMute, ReadFrame, DeadlinePasses, Deliver, Terminate, vars

(* The goroutine that pings ends with the first tick after the connection  *)
(* is closed, for every interval: time passes until that tick, and then    *)
(* WriteControl fails.                                                     *)
THEOREM PingerStops ==
  ASSUME PromptProgram
  PROVE  FairSpec /\ []Unhindered /\ Descends(Left) => PingerEnds
<1>1. Init => (conn = "closed" => rf = "exit")
  BY DEF Init
<1>2. Spec => [](conn = "closed" => rf = "exit")
  BY <1>1, ExitInductive, SpecInv, PTL DEF Spec
<1>3. Inv /\ (conn = "closed" => rf = "exit") /\ Closed /\ TickerRuns /\ Unhindered
        => ENABLED <<Tick>>_vars
  BY ClosedFacts DEF Closed, Unhindered
<1>4. Inv /\ (conn = "closed" => rf = "exit") /\ Closed /\ ~TickerRuns /\ Unhindered
        => ENABLED <<Ping>>_vars
  BY ClosedFacts DEF Closed, Unhindered
<1>5. Inv /\ [Next]_vars /\ Closed
        => /\ Closed' \/ (pinger = "off")'
           /\ (pinger = "off")' \/ [Left' <= Left]_Left
           /\ (pinger = "off")' \/ <<Left' < Left>>_Left \/ (TickerRuns' <=> TickerRuns)
           /\ <<Tick>>_vars => <<Left' < Left>>_Left
           /\ <<Ping>>_vars => (pinger = "off")'
  BY ClosedSteps
<1>6. Inv /\ conn = "closed" => Closed \/ pinger = "off"
  BY DEF Inv, TypeOK, Closed
<1>7. Inv => Left \in Nat
  BY LeftIsNat
<1>8. Closed => pinger # "off"
  BY DEF Closed
<1> QED
  BY <1>2, <1>3, <1>4, <1>5, <1>6, <1>7, <1>8, SpecInv, PTL
  DEF FairSpec, Spec, Descends, PingerEnds

=============================================================================

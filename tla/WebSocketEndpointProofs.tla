----------------------- MODULE WebSocketEndpointProofs -----------------------
(***************************************************************************)
(* Proofs about WebSocketEndpoint: types, and that readFrames hands over   *)
(* the client's messages in order and without a gap.  That its output is   *)
(* an initial part of what was posted is not inductive, as it does not say *)
(* which of the frames still in flight comes next; FrameInv does.          *)
(***************************************************************************)
EXTENDS WebSocketEndpoint, Descent, Integers, TLAPS

(* Sequences of numbers, read from the front and written at the end. *)
LEMMA HeadTail ==
  ASSUME NEW S, NEW q \in Seq(S), q # <<>>
  PROVE  /\ Head(q) \in S /\ Head(q) = q[1]
         /\ Tail(q) \in Seq(S)
         /\ Len(q) \in Nat \ {0} /\ Len(Tail(q)) = Len(q) - 1
         /\ \A i \in 1..Len(Tail(q)) : Tail(q)[i] = q[i + 1]
OBVIOUS

LEMMA Appended ==
  ASSUME NEW S, NEW q \in Seq(S), NEW e \in S
  PROVE  /\ Append(q, e) \in Seq(S)
         /\ Len(q) \in Nat /\ Len(Append(q, e)) = Len(q) + 1
         /\ Append(q, e)[Len(q) + 1] = e
         /\ \A i \in 1..Len(q) : Append(q, e)[i] = q[i]
OBVIOUS

LEMMA Single ==
  ASSUME NEW x, NEW s, s = <<x>>
  PROVE  s # <<>> /\ Len(s) = 1
OBVIOUS

(* readFrames holds a message exactly while it is parked with it. *)
HeldInv ==
  /\ rf = "send" <=> rheld # <<>>
  /\ Len(rheld) <= 1

(* Frames in flight are the last ones sent, and posted has the numbers of  *)
(* those that are messages, in their order.                                *)
FlightInv ==
  /\ nframes <= MaxFrames
  /\ Len(inbound) <= nframes
  /\ \A i \in 1..Len(inbound) :
       /\ inbound[i].n = nframes - Len(inbound) + i
       /\ inbound[i].kind = "msg" => \E j \in 1..Len(posted) : posted[j] = inbound[i].n
  /\ \A j \in 1..Len(posted) : posted[j] \in 1..nframes
  /\ \A i, j \in 1..Len(posted) : i < j => posted[i] < posted[j]
  /\ \A j \in 1..Len(posted) : \A i \in 1..Len(inbound) :
       posted[j] = inbound[i].n => inbound[i].kind = "msg"

(* How many messages have left the connection. *)
Passed == Len(received) + Len(rheld)

(* What has left it is the first Passed of posted, and while readFrames    *)
(* goes on these are all but those in flight.                              *)
PassedInv ==
  /\ Passed <= Len(posted)
  /\ \A j \in 1..Len(received) : received[j] = posted[j]
  /\ rheld # <<>> => rheld[1] = posted[Passed]
  /\ rf # "exit" =>
       \A j \in 1..Len(posted) : j <= Passed <=> posted[j] <= nframes - Len(inbound)

Inv == TypeOK /\ HeldInv /\ FlightInv /\ PassedInv

LEMMA InvInit == ConstantsOK /\ Init => Inv
<1> SUFFICES ASSUME ConstantsOK, Init
             PROVE  Inv
  OBVIOUS
<1>1. /\ inbound = <<>> /\ posted = <<>> /\ received = <<>> /\ rheld = <<>>
      /\ nframes = 0 /\ rf = "read"
  BY DEF Init
<1>2. Len(inbound) = 0 /\ Len(posted) = 0 /\ Len(received) = 0 /\ Len(rheld) = 0
  BY <1>1
<1>3. TypeOK
  <2>1. /\ inbound \in Seq(Frame) /\ posted \in Seq(Nat \ {0}) /\ rheld \in Seq(Nat \ {0})
        /\ received \in Seq(Nat \ {0}) /\ outbound \in Seq(OutMsgs) /\ seen \in Seq(OutMsgs)
    BY DEF Init
  <2>2. Len(inbound) <= NetCap /\ Len(outbound) <= NetCap
    BY <1>2 DEF Init, ConstantsOK
  <2> QED
    BY <2>1, <2>2 DEF Init, TypeOK
<1>4. HeldInv
  BY <1>1, <1>2 DEF HeldInv
<1>5. FlightInv
  BY <1>1, <1>2 DEF FlightInv, ConstantsOK
<1>6. PassedInv
  BY <1>1, <1>2 DEF PassedInv, Passed
<1> QED
  BY <1>3, <1>4, <1>5, <1>6 DEF Inv

(* A frame the client sends is behind all others. *)
LEMMA ClientSendKeeps ==
  ASSUME ConstantsOK, Inv, NEW k \in Kinds, ClientSend(k)
  PROVE  Inv'
<1> DEFINE n == nframes + 1
           f == [kind |-> k, n |-> n]
<1>1. /\ nframes \in Nat /\ n \in Nat \ {0} /\ f \in Frame
      /\ inbound \in Seq(Frame) /\ posted \in Seq(Nat \ {0})
      /\ NetCap \in Nat /\ MaxFrames \in Nat
  BY DEF Inv, TypeOK, ConstantsOK, Frame
<1>2. /\ nframes' = n /\ n <= MaxFrames
      /\ inbound' = Append(inbound, f) /\ Len(inbound) < NetCap
      /\ posted' = IF k = "msg" THEN Append(posted, n) ELSE posted
      /\ UNCHANGED <<client, readVars, sendVars, endVars>>
  BY <1>1 DEF ClientSend
<1>3. /\ inbound' \in Seq(Frame) /\ Len(inbound') = Len(inbound) + 1 /\ Len(inbound) \in Nat
      /\ inbound'[Len(inbound) + 1] = f
      /\ \A i \in 1..Len(inbound) : inbound'[i] = inbound[i]
  BY <1>1, <1>2, Appended
<1>4. k = "msg" =>
        /\ posted' \in Seq(Nat \ {0}) /\ Len(posted') = Len(posted) + 1
        /\ posted'[Len(posted) + 1] = n
        /\ \A i \in 1..Len(posted) : posted'[i] = posted[i]
  BY <1>1, <1>2, Appended
<1>5. k # "msg" => posted' = posted
  BY <1>2
<1>6. TypeOK'
  <2>1. posted' \in Seq(Nat \ {0})
    BY <1>1, <1>4, <1>5
  <2>2. Len(inbound') <= NetCap
    BY <1>1, <1>2, <1>3
  <2> QED
    BY <1>1, <1>2, <1>3, <2>1, <2>2 DEF Inv, TypeOK, readVars, sendVars, endVars
<1>7. f.n = n /\ f.kind = k /\ Len(posted) \in Nat
  BY <1>1
<1> HIDE DEF f
<1>8. FlightInv'
  <2>1. nframes' <= MaxFrames /\ Len(inbound') <= nframes'
    BY <1>1, <1>2, <1>3 DEF Inv, FlightInv
  <2>2. ASSUME NEW i \in 1..Len(inbound')
        PROVE  /\ inbound'[i].n = nframes' - Len(inbound') + i
               /\ inbound'[i].kind = "msg" => \E j \in 1..Len(posted') : posted'[j] = inbound'[i].n
    <3>1. CASE i = Len(inbound) + 1
      BY <1>1, <1>2, <1>3, <1>4, <1>7, <3>1
    <3>2. CASE i \in 1..Len(inbound)
      BY <1>1, <1>2, <1>3, <1>4, <1>5, <1>7, <3>2 DEF Inv, FlightInv
    <3> QED
      BY <1>3, <3>1, <3>2
  <2>3. \A j \in 1..Len(posted') : posted'[j] \in 1..nframes'
    BY <1>1, <1>2, <1>4, <1>5, <1>7 DEF Inv, FlightInv
  <2>4. \A i, j \in 1..Len(posted') : i < j => posted'[i] < posted'[j]
    BY <1>1, <1>2, <1>4, <1>5, <1>7 DEF Inv, FlightInv
  <2>5. ASSUME NEW j \in 1..Len(posted'), NEW i \in 1..Len(inbound'),
               posted'[j] = inbound'[i].n
        PROVE  inbound'[i].kind = "msg"
    <3>1. CASE i = Len(inbound) + 1
      BY <1>1, <1>2, <1>3, <1>4, <1>5, <1>7, <2>5, <3>1 DEF Inv, FlightInv
    <3>2. CASE i \in 1..Len(inbound)
      BY <1>1, <1>2, <1>3, <1>4, <1>5, <1>7, <2>5, <3>2 DEF Inv, FlightInv
    <3> QED
      BY <1>3, <3>1, <3>2
  <2> QED
    BY <2>1, <2>2, <2>3, <2>4, <2>5 DEF FlightInv
<1>9. PassedInv'
  <2>1. Passed' = Passed /\ rf' = rf /\ rheld' = rheld /\ received' = received /\ Passed \in Nat
    BY <1>2 DEF readVars, Passed, Inv, TypeOK
  <2>2. nframes' - Len(inbound') = nframes - Len(inbound)
    BY <1>1, <1>2, <1>3
  <2>3. Len(posted) <= Len(posted') /\ \A j \in 1..Len(posted) : posted'[j] = posted[j]
    BY <1>4, <1>5, <1>7
  <2>4. /\ Passed <= Len(posted)
        /\ \A j \in 1..Len(received) : received[j] = posted[j]
        /\ rheld # <<>> => rheld[1] = posted[Passed] /\ Passed > 0
    BY DEF Inv, PassedInv, TypeOK, Passed
  <2>5. Len(received) \in Nat /\ Len(received) <= Passed
    BY DEF Inv, TypeOK, Passed
  <2>6. /\ Passed' <= Len(posted')
        /\ \A j \in 1..Len(received') : received'[j] = posted'[j]
        /\ rheld' # <<>> => rheld'[1] = posted'[Passed']
    BY <1>4, <1>5, <1>7, <2>1, <2>3, <2>4, <2>5
  <2>7. ASSUME rf # "exit", NEW j \in 1..Len(posted')
        PROVE  j <= Passed <=> posted'[j] <= nframes - Len(inbound)
    <3>1. CASE j \in 1..Len(posted)
      BY <2>3, <2>7, <3>1 DEF Inv, PassedInv
    <3>2. CASE j = Len(posted) + 1 /\ k = "msg"
      <4>1. posted'[j] = nframes + 1 /\ Passed < j
        BY <1>4, <1>7, <2>1, <2>4, <3>2
      <4> QED
        BY <1>1, <1>3, <2>1, <4>1
    <3> QED
      BY <1>4, <1>5, <1>7, <3>1, <3>2
  <2> QED
    BY <2>1, <2>2, <2>6, <2>7 DEF PassedInv
<1>10. HeldInv'
  BY <1>2 DEF Inv, HeldInv, readVars
<1> QED
  BY <1>6, <1>8, <1>9, <1>10 DEF Inv

(* The frame that is read is the next after all that have left.            *)
LEMMA ReadFrameKeeps ==
  ASSUME ConstantsOK, Inv, ReadFrame
  PROVE  Inv'
<1> DEFINE h == Head(inbound)
           passedNow == nframes - Len(inbound)
<1>1. /\ rf = "read" /\ inbound # <<>> /\ inbound' = Tail(inbound)
      /\ UNCHANGED <<client, nframes, posted, wsOutput, received, sendVars, endVars>>
  BY DEF ReadFrame
<1>2. /\ inbound \in Seq(Frame) /\ posted \in Seq(Nat \ {0}) /\ received \in Seq(Nat \ {0})
      /\ nframes \in Nat /\ Len(posted) \in Nat /\ Len(received) \in Nat
  BY DEF Inv, TypeOK
<1>3. /\ h \in Frame /\ h = inbound[1]
      /\ inbound' \in Seq(Frame) /\ Len(inbound) \in Nat \ {0}
      /\ Len(inbound') = Len(inbound) - 1
      /\ \A i \in 1..Len(inbound') : inbound'[i] = inbound[i + 1]
  BY <1>1, <1>2, HeadTail
<1>4. h.n = passedNow + 1 /\ h.n \in Nat \ {0} /\ h.kind \in {"msg", "other", "big"}
  BY <1>2, <1>3 DEF Inv, FlightInv, Frame
<1>5. rheld = <<>> /\ Len(rheld) = 0 /\ Passed = Len(received) /\ Passed \in Nat
  BY <1>1, <1>2 DEF Inv, HeldInv, Passed
<1>6. \/ h.kind = "msg" /\ rf' = "send" /\ rheld' = <<h.n>>
      \/ h.kind = "other" /\ rf' = "read" /\ rheld' = <<>>
      \/ h.kind = "big" /\ rf' = "exit" /\ rheld' = <<>>
  BY <1>1, <1>5 DEF ReadFrame
<1>7. /\ \A j \in 1..Len(posted) : j <= Passed <=> posted[j] <= passedNow
      /\ \A j \in 1..Len(posted) : posted[j] \in 1..nframes
      /\ \A i, j \in 1..Len(posted) : i < j => posted[i] < posted[j]
      /\ Passed <= Len(posted)
      /\ \A j \in 1..Len(received) : received[j] = posted[j]
  BY <1>1 DEF Inv, PassedInv, FlightInv
<1> HIDE DEF h
<1>8. nframes' - Len(inbound') = passedNow + 1
  BY <1>1, <1>2, <1>3
<1>9. TypeOK'
  <2>1. <<h.n>> \in Seq(Nat \ {0}) /\ <<>> \in Seq(Nat \ {0})
    BY <1>4
  <2>2. rheld' \in Seq(Nat \ {0}) /\ rf' \in {"read", "send", "exit"}
    BY <1>6, <2>1
  <2>3. Len(inbound') <= Len(inbound)
    BY <1>3
  <2>4. Len(inbound') <= NetCap
    BY <1>3, <2>3 DEF Inv, TypeOK, ConstantsOK
  <2> QED
    BY <1>1, <1>3, <2>2, <2>4 DEF Inv, TypeOK, sendVars, endVars
<1>10. HeldInv'
  <2>1. CASE h.kind = "msg"
    <3>1. rf' = "send" /\ rheld' # <<>> /\ Len(rheld') = 1
      BY <1>6, <2>1, Single, Zenon
    <3> QED
      BY <3>1 DEF HeldInv
  <2>2. CASE h.kind # "msg"
    <3>1. rf' # "send" /\ rheld' = <<>> /\ Len(rheld') = 0
      BY <1>6, <2>2
    <3> QED
      BY <3>1 DEF HeldInv
  <2> QED
    BY <2>1, <2>2
<1>11. FlightInv'
  <2>1. nframes' <= MaxFrames /\ Len(inbound') <= nframes'
    BY <1>1, <1>2, <1>3 DEF Inv, FlightInv
  <2>2. \A i \in 1..Len(inbound') :
          /\ inbound'[i].n = nframes' - Len(inbound') + i
          /\ inbound'[i].kind = "msg" => \E j \in 1..Len(posted') : posted'[j] = inbound'[i].n
    BY <1>1, <1>2, <1>3 DEF Inv, FlightInv
  <2>3. \A j \in 1..Len(posted') : \A i \in 1..Len(inbound') :
          posted'[j] = inbound'[i].n => inbound'[i].kind = "msg"
    BY SMTT(20), <1>1, <1>2, <1>3 DEF Inv, FlightInv
  <2> QED
    BY <1>1, <1>7, <2>1, <2>2, <2>3 DEF FlightInv
<1>12. PassedInv'
  <2>1. CASE h.kind = "msg"
    <3>1. PICK j \in 1..Len(posted) : posted[j] = passedNow + 1
      BY <1>3, <1>4, <2>1 DEF Inv, FlightInv
    <3>2. j = Passed + 1
      <4>1. j > Passed
        BY <1>2, <1>3, <1>5, <1>7, <3>1
      <4>2. ASSUME j > Passed + 1
            PROVE  FALSE
        <5>1. Passed + 1 \in 1..Len(posted) /\ ~(Passed + 1 <= Passed)
          BY <1>2, <1>5, <4>2
        <5>2. posted[Passed + 1] < posted[j] /\ ~(posted[Passed + 1] <= passedNow)
          BY <1>7, <4>2, <5>1
        <5>3. posted[Passed + 1] \in Nat
          BY <1>7, <5>1
        <5> QED
          BY <1>2, <1>3, <3>1, <5>2, <5>3
      <4> QED
        BY SMTT(20), <1>2, <1>5, <4>1, <4>2
    <3>3. rf' = "send" /\ rheld' = <<h.n>> /\ Len(rheld') = 1 /\ rheld'[1] = h.n
      BY <1>4, <1>6, <2>1
    <3>4. Passed' = Passed + 1
      BY <1>1, <1>5, <3>3 DEF Passed
    <3>5. /\ Passed' <= Len(posted') /\ rheld'[1] = posted'[Passed']
          /\ \A i \in 1..Len(received') : received'[i] = posted'[i]
      BY <1>1, <1>4, <1>7, <3>1, <3>2, <3>3, <3>4
    <3>6. ASSUME NEW i \in 1..Len(posted)
          PROVE  i <= Passed + 1 <=> posted[i] <= passedNow + 1
      <4>1. posted[i] \in Nat /\ passedNow \in Int
        BY <1>2, <1>3, <1>7
      <4>2. CASE i <= Passed
        BY <1>5, <1>7, <4>1, <4>2
      <4>3. CASE i = Passed + 1
        <5>1. posted[i] = passedNow + 1
          BY <3>1, <3>2, <4>3
        <5> QED
          BY <1>5, <4>1, <4>3, <5>1
      <4>4. CASE i > Passed + 1
        <5>1. posted[j] < posted[i]
          BY <1>7, <3>2, <4>4
        <5> QED
          BY <1>5, <3>1, <4>1, <4>4, <5>1
      <4> QED
        BY <1>2, <1>5, <4>2, <4>3, <4>4
    <3> QED
      BY <1>1, <1>8, <3>4, <3>5, <3>6 DEF PassedInv
  <2>2. CASE h.kind # "msg"
    <3>1. rheld' = <<>> /\ Passed' = Passed
      BY <1>1, <1>5, <1>6, <2>2 DEF Passed
    <3>2. ASSUME NEW i \in 1..Len(posted)
          PROVE  i <= Passed <=> posted[i] <= passedNow + 1
      <4>1. posted[i] # h.n
        BY <1>3, <2>2 DEF Inv, FlightInv
      <4> QED
        BY <1>2, <1>3, <1>4, <1>7, <4>1
    <3> QED
      BY <1>1, <1>7, <1>8, <3>1, <3>2 DEF PassedInv
  <2> QED
    BY <2>1, <2>2
<1> QED
  BY <1>9, <1>10, <1>11, <1>12 DEF Inv

(* The receiver gets the message readFrames was parked with. *)
LEMMA DeliverKeeps ==
  ASSUME Inv, Deliver
  PROVE  Inv'
<1>1. /\ rf = "send" /\ rheld # <<>> /\ Len(rheld) = 1
      /\ received' = received \o rheld /\ rheld' = <<>> /\ rf' = "read"
      /\ UNCHANGED <<clientVars, wsOutput, sendVars, endVars>>
  <2>1. Len(rheld) \in Nat /\ rheld \in Seq(Nat \ {0})
    BY DEF Inv, TypeOK
  <2>2. rf = "send" /\ rheld # <<>> /\ Len(rheld) <= 1
    BY DEF Deliver, Inv, HeldInv
  <2>3. Len(rheld) = 1
    <3> DEFINE n == Len(rheld)
    <3>1. n \in Nat /\ n <= 1 /\ n # 0
      BY <2>1, <2>2, HeadTail
    <3> HIDE DEF n
    <3>2. n = 1
      BY <3>1
    <3> QED
      BY <3>2 DEF n
  <2> QED
    BY <2>2, <2>3 DEF Deliver
<1>2. /\ received \in Seq(Nat \ {0}) /\ rheld \in Seq(Nat \ {0}) /\ Len(received) \in Nat
  BY DEF Inv, TypeOK
<1>3. /\ received' \in Seq(Nat \ {0}) /\ Len(received') = Len(received) + 1
      /\ \A i \in 1..Len(received) : received'[i] = received[i]
      /\ received'[Len(received) + 1] = rheld[1]
  <2>1. received \o rheld \in Seq(Nat \ {0}) /\ Len(received \o rheld) = Len(received) + Len(rheld)
    BY <1>2
  <2>2. /\ \A i \in 1..Len(received) : (received \o rheld)[i] = received[i]
        /\ (received \o rheld)[Len(received) + 1] = rheld[1]
    BY <1>1, <1>2
  <2> QED
    BY <1>1, <2>1, <2>2
<1>4. Len(rheld') = 0 /\ rheld' \in Seq(Nat \ {0})
  BY <1>1
<1>5. Passed' = Passed /\ Passed = Len(received) + 1
  BY <1>1, <1>2, <1>3, <1>4 DEF Passed
<1>6. PassedInv'
  BY <1>1, <1>2, <1>3, <1>5 DEF Inv, PassedInv, clientVars
<1>7. TypeOK'
  BY <1>1, <1>3, <1>4 DEF Inv, TypeOK, clientVars, sendVars, endVars
<1>8. HeldInv' /\ FlightInv'
  BY <1>1, <1>4 DEF Inv, HeldInv, FlightInv, clientVars
<1> QED
  BY <1>6, <1>7, <1>8 DEF Inv

(* A reader that exits hands over nothing more. *)
LEMMA ExitKeeps ==
  ASSUME Inv, ReadStops \/ Abandon
  PROVE  Inv'
<1>1. /\ rf' = "exit" /\ rheld' = <<>>
      /\ UNCHANGED <<clientVars, wsOutput, received, sendVars, endVars>>
  BY DEF ReadStops, Abandon, Inv, HeldInv
<1>2. Len(rheld') = 0 /\ rheld' \in Seq(Nat \ {0})
  BY <1>1
<1>3. /\ Len(received) \in Nat /\ Len(posted) \in Nat /\ Len(rheld) \in Nat
  BY DEF Inv, TypeOK
<1>4. PassedInv'
  BY <1>1, <1>2, <1>3 DEF Inv, PassedInv, Passed, clientVars
<1>5. TypeOK'
  BY <1>1, <1>2 DEF Inv, TypeOK, clientVars, sendVars, endVars
<1>6. HeldInv' /\ FlightInv'
  BY <1>1, <1>2 DEF Inv, HeldInv, FlightInv, clientVars
<1> QED
  BY <1>4, <1>5, <1>6 DEF Inv

(* The other steps leave alone what HeldInv, FlightInv and PassedInv are   *)
(* about.                                                                  *)
LEMMA OtherKeeps ==
  ASSUME Inv, TypeOK', UNCHANGED <<inbound, nframes, posted, rf, rheld, received>>
  PROVE  Inv'
BY DEF Inv, HeldInv, FlightInv, PassedInv, Passed

LEMMA InvNext ==
  ASSUME ConstantsOK, Inv, [Next]_vars
  PROVE  Inv'
<1> USE DEF clientVars, readVars, sendVars, endVars
<1>1. CASE \E k \in Kinds : ClientSend(k)
  BY <1>1, ClientSendKeeps
<1>2. CASE ClientReceive
  <2>1. /\ seen' \in Seq(OutMsgs) /\ outbound' \in Seq(OutMsgs)
        /\ Len(outbound') = Len(outbound) - 1 /\ Len(outbound) \in Nat
    BY <1>2, HeadTail, Appended DEF ClientReceive, Inv, TypeOK
  <2>2. TypeOK'
    BY <1>2, <2>1 DEF ClientReceive, Inv, TypeOK, ConstantsOK
  <2> QED
    BY <1>2, <2>2, OtherKeeps DEF ClientReceive
<1>3. CASE ClientLeave \/ ClientHang
  <2>1. TypeOK'
    BY <1>3 DEF ClientLeave, ClientHang, Inv, TypeOK
  <2> QED
    BY <1>3, <2>1, OtherKeeps DEF ClientLeave, ClientHang
<1>4. CASE ReadFrame
  BY <1>4, ReadFrameKeeps
<1>5. CASE ReadFails \/ DeadlinePasses \/ Abandon
  BY <1>5, ExitKeeps DEF ReadFails, DeadlinePasses
<1>6. CASE CloseOutput
  <2>1. TypeOK'
    BY <1>6 DEF CloseOutput, Inv, TypeOK
  <2> QED
    BY <1>6, <2>1, OtherKeeps DEF CloseOutput
<1>7. CASE Deliver
  BY <1>7, DeliverKeeps
<1>8. CASE \E m \in OutMsgs : Send(m)
  <2>1. PICK m \in OutMsgs : Send(m)
    BY <1>8
  <2>2. outbound' \in Seq(OutMsgs) /\ Len(outbound') <= NetCap
    <3>1. CASE client = "gone"
      BY <2>1, <3>1 DEF Send, Inv, TypeOK
    <3>2. CASE client # "gone"
      <4>1. /\ outbound \in Seq(OutMsgs) /\ Len(outbound) \in Nat /\ NetCap \in Nat
            /\ Len(outbound) < NetCap /\ outbound' = Append(outbound, m)
        BY <2>1, <3>2 DEF Send, Inv, TypeOK, ConstantsOK
      <4>2. outbound' \in Seq(OutMsgs) /\ Len(outbound') = Len(outbound) + 1
        BY <4>1, Appended
      <4> QED
        BY <4>1, <4>2
    <3> QED
      BY <3>1, <3>2
  <2>3. TypeOK'
    BY <2>1, <2>2 DEF Send, Inv, TypeOK
  <2> QED
    BY <2>1, <2>3, OtherKeeps DEF Send
<1>9. CASE Terminate
  <2>1. TypeOK'
    BY <1>9 DEF Terminate, Inv, TypeOK
  <2> QED
    BY <1>9, <2>1, OtherKeeps DEF Terminate
<1>10. CASE UNCHANGED vars
  <2>1. TypeOK'
    BY <1>10 DEF vars, Inv, TypeOK
  <2> QED
    BY <1>10, <2>1, OtherKeeps DEF vars
<1> QED
  BY <1>1, <1>2, <1>3, <1>4, <1>5, <1>6, <1>7, <1>8, <1>9, <1>10
     DEF Next, ClientStep, ReadStep, CallerStep

-----------------------------------------------------------------------------
(* What it shows.                                                          *)

(* Equal element by element up to the shorter's length. *)
LEMMA PrefixByElement ==
  ASSUME NEW S, NEW T, NEW s \in Seq(S), NEW t \in Seq(T), Len(s) <= Len(t),
         \A i \in 1..Len(s) : s[i] = t[i]
  PROVE  IsPrefix(s, t)
BY DEF IsPrefix

LEMMA OrderFromInv == Inv => MessagesInOrder
<1> SUFFICES ASSUME Inv
             PROVE  IsPrefix(received, posted)
  BY DEF MessagesInOrder
<1>1. /\ received \in Seq(Nat \ {0}) /\ posted \in Seq(Nat \ {0})
      /\ Len(received) \in Nat /\ Len(rheld) \in Nat /\ Len(posted) \in Nat
  BY DEF Inv, TypeOK
<1>2. Len(received) <= Len(posted) /\ \A i \in 1..Len(received) : received[i] = posted[i]
  BY <1>1 DEF Inv, PassedInv, Passed
<1> QED
  BY <1>1, <1>2, PrefixByElement

LEMMA AlwaysInv ==
  ASSUME ConstantsOK
  PROVE  Spec => []Inv
BY InvInit, InvNext, PTL DEF Spec

(* Every variable keeps its type, and neither direction holds more frames  *)
(* than the connection does.                                               *)
THEOREM TypeCorrect == ASSUME ConstantsOK PROVE Spec => []TypeOK
BY AlwaysInv, PTL DEF Inv

(* What is received from Output() is an initial part of the client's       *)
(* messages, in order, whatever other and oversized frames lie between.    *)
THEOREM ReadFramesKeepsOrder == ASSUME ConstantsOK PROVE Spec => []MessagesInOrder
BY AlwaysInv, OrderFromInv, PTL

-----------------------------------------------------------------------------
(* readFrames ends.  Once Terminate has closed the connection the client   *)
(* adds no frame, so that each round of readFrames leaves fewer.           *)

ClosedInv == wsDone => conn = "closed"

LEMMA AlwaysClosedInv == Spec => []ClosedInv
<1>1. Init => ClosedInv
  BY DEF Init, ClosedInv
<1>2. ClosedInv /\ [Next]_vars => ClosedInv'
  BY DEF ClosedInv, Next, ClientStep, ClientSend, ClientReceive, ClientLeave, ClientHang,
         ReadStep, ReadFrame, ReadFails, ReadStops, DeadlinePasses, Abandon, CloseOutput,
         CallerStep, Deliver, Send, Terminate, vars, clientVars, readVars, sendVars, endVars
<1> QED BY <1>1, <1>2, PTL DEF Spec

LEMMA DoneStays == ASSUME [Next]_vars, wsDone PROVE wsDone'
BY DEF Next, ClientStep, ClientSend, ClientReceive, ClientLeave, ClientHang,
       ReadStep, ReadFrame, ReadFails, ReadStops, DeadlinePasses, Abandon, CloseOutput,
       CallerStep, Deliver, Send, Terminate, vars, clientVars, readVars, sendVars, endVars

(* What readFrames still has in hand, a message it is parked with last.    *)
InFlight == IF rf = "send" THEN 2 * Len(inbound) + 1 ELSE 2 * Len(inbound)

LEMMA InFlightIsNat == TypeOK => InFlight \in Nat
<1>1. TypeOK => Len(inbound) \in Nat
  BY DEF TypeOK
<1> QED BY <1>1 DEF InFlight

LEMMA Shorter ==
  ASSUME TypeOK, inbound # <<>>, inbound' = Tail(inbound)
  PROVE  Len(inbound') = Len(inbound) - 1 /\ Len(inbound) \in Nat
BY HeadTail DEF TypeOK

LEMMA InFlightSteps ==
  ASSUME TypeOK, ClosedInv, wsDone, [Next]_vars
  PROVE  wsDone' /\ InFlight' <= InFlight
<1> USE DEF clientVars, readVars, sendVars, endVars
<1>1. Len(inbound) \in Nat /\ conn = "closed"
  BY DEF TypeOK, ClosedInv
<1>2. CASE ReadFrame
  <2>1. Len(inbound') = Len(inbound) - 1
    BY <1>2, Shorter DEF ReadFrame
  <2>2. rf = "read" /\ wsDone'
    BY <1>2 DEF ReadFrame
  <2> QED BY <1>1, <2>1, <2>2 DEF InFlight
<1>3. CASE /\ inbound' = inbound /\ wsDone'
           /\ rf' = "send" => rf = "send"
  BY <1>1, <1>3 DEF InFlight
<1> QED
  BY <1>1, <1>2, <1>3
  DEF Next, ClientStep, ClientSend, ClientReceive, ClientLeave, ClientHang,
      ReadStep, ReadFails, ReadStops, DeadlinePasses, Abandon, CloseOutput,
      CallerStep, Deliver, Send, Terminate, vars

LEMMA InFlightMoves ==
  ASSUME TypeOK, wsDone, rf # "exit", <<ReadRuns>>_vars
  PROVE  InFlight' < InFlight \/ (rf = "exit")'
<1>1. Len(inbound) \in Nat
  BY DEF TypeOK
<1>2. CASE ReadFrame
  <2>1. Len(inbound') = Len(inbound) - 1
    BY <1>2, Shorter DEF ReadFrame
  <2>2. rf = "read"
    BY <1>2 DEF ReadFrame
  <2> QED BY <1>1, <2>1, <2>2 DEF InFlight
<1>3. CASE ReadFails \/ Abandon \/ CloseOutput
  BY <1>3 DEF ReadFails, ReadStops, Abandon, CloseOutput
<1> QED BY <1>2, <1>3 DEF ReadRuns

LEMMA ExitSteps ==
  ASSUME [Next]_vars, rf = "exit"
  PROVE  (rf = "exit")' /\ (wsOutput = "closed" => (wsOutput = "closed")')
BY DEF Next, ClientStep, ClientSend, ClientReceive, ClientLeave, ClientHang,
       ReadStep, ReadFrame, ReadFails, ReadStops, DeadlinePasses, Abandon, CloseOutput,
       CallerStep, Deliver, Send, Terminate, vars, clientVars, readVars, sendVars, endVars

LEMMA ExitMoves ==
  ASSUME rf = "exit", <<ReadRuns>>_vars
  PROVE  (wsOutput = "closed")'
BY DEF ReadRuns, ReadFrame, ReadFails, ReadStops, Abandon, CloseOutput

(* Terminate ends readFrames and with it the output channel, wherever it   *)
(* was parked and whoever receives.                                        *)
THEOREM ReadFramesEnds ==
  ASSUME ConstantsOK
  PROVE  FairSpec /\ []ReadUnhindered /\ Descends(InFlight) =>
           (wsDone ~> [](rf = "exit" /\ wsOutput = "closed"))
<1>1. TypeOK /\ ClosedInv /\ wsDone /\ [Next]_vars => wsDone' /\ [InFlight' <= InFlight]_InFlight
  BY InFlightSteps
<1>2. TypeOK /\ wsDone /\ <<ReadRuns>>_vars =>
        rf = "exit" \/ <<InFlight' < InFlight>>_InFlight \/ (rf = "exit")'
  BY InFlightMoves, InFlightIsNat
<1>3. [Next]_vars /\ rf = "exit" =>
        (rf = "exit")' /\ (wsOutput = "closed" => (wsOutput = "closed")')
  BY ExitSteps
<1>4. rf = "exit" /\ <<ReadRuns>>_vars => (wsOutput = "closed")'
  BY ExitMoves
<1>5. TypeOK /\ ClosedInv /\ wsDone => ReadMayRun \/ (rf = "exit" /\ wsOutput = "closed")
  BY DEF TypeOK, ClosedInv, ReadMayRun
<1>6. ReadMayRun /\ ReadUnhindered => ENABLED <<ReadRuns>>_vars
  BY DEF ReadUnhindered
<1>7. Spec => []TypeOK
  BY TypeCorrect
<1> QED
  BY <1>1, <1>2, <1>3, <1>4, <1>5, <1>6, <1>7, InFlightIsNat, AlwaysClosedInv, PTL
  DEF FairSpec, Fairness, Spec, Descends
=============================================================================

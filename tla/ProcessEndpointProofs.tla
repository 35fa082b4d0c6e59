----------------------- MODULE ProcessEndpointProofs -----------------------
(***************************************************************************)
(* Theorems about ProcessEndpoint, for every value of its constants.       *)
(*                                                                         *)
(* Each safety property is a consequence of an inductive invariant: TypeOK *)
(* itself, LadderInv for what Terminate may and must have done at each     *)
(* rung, and OutputInv for where each unit of output is.                   *)
(***************************************************************************)
EXTENDS ProcessEndpoint, Framing, Descent, Integers, SequenceTheorems,
        WellFoundedInduction, TLAPS

USE DEF Streams, Fds, Procs, Signals, Rungs

LEMMA TailFacts ==
  ASSUME NEW S, NEW q \in Seq(S), q # <<>>
  PROVE  /\ Head(q) \in S
         /\ Tail(q) \in Seq(S)
         /\ Len(q) \in Nat \ {0}
         /\ Len(Tail(q)) = Len(q) - 1
         /\ Head(q) = q[1]
         /\ \A i \in 1..Len(Tail(q)) : Tail(q)[i] = q[i + 1]
  OBVIOUS

LEMMA AppendFacts ==
  ASSUME NEW S, NEW q \in Seq(S), NEW e \in S
  PROVE  /\ Len(q) \in Nat
         /\ DOMAIN q = 1..Len(q)
         /\ Len(q \o <<e>>) = Len(q) + 1
         /\ DOMAIN (q \o <<e>>) = 1..(Len(q) + 1)
         /\ (q \o <<e>>)[Len(q) + 1] = e
         /\ \A j \in 1..Len(q) : (q \o <<e>>)[j] = q[j]
  <1>1. <<e>> \in Seq(S) /\ Len(<<e>>) = 1 /\ <<e>>[1] = e
    OBVIOUS
  <1>2. q \o <<e>> \in Seq(S) /\ Len(q \o <<e>>) = Len(q) + 1
    BY <1>1
  <1>3. (q \o <<e>>)[Len(q) + 1] = e
    BY <1>1, <1>2
  <1> QED BY <1>1, <1>2, <1>3

(* The three rungs a timer can end, and where each leads. *)
LEMMA RungFacts ==
  /\ DOMAIN NextRung = {"stdin", "SIGINT", "SIGTERM"}
  /\ NextRung["stdin"] = "SIGINT"
  /\ NextRung["SIGINT"] = "SIGTERM"
  /\ NextRung["SIGTERM"] = "SIGKILL"
  BY DEF NextRung

(* Types are kept by every step. *)
LEMMA TypeInductive == ASSUME TypeOK, [Next]_vars PROVE TypeOK'
<1> USE ConstantsOK DEF ConstantsOK, TypeOK, Unit,
        progVars, outVars, inVars, endVars, vars
<1>1. ASSUME NEW p \in Procs, NEW s \in Streams, WriteOut(p, s) PROVE TypeOK'
  <2>1. wrote[s] \in Nat /\ wrote' = [wrote EXCEPT ![s] = wrote[s] + 1]
    BY <1>1 DEF WriteOut
  <2>2. wrote' \in [Streams -> Nat] /\ wrote'[s] \in Nat \ {0}
    BY SMTT(20), <2>1
  <2>3. [src |-> s, n |-> wrote'[s]] \in Unit
    BY <2>2
  <2>4. pipe' = [pipe EXCEPT ![s] = Append(pipe[s], [src |-> s, n |-> wrote'[s]])]
    BY <1>1 DEF WriteOut
  <2>5. Append(pipe[s], [src |-> s, n |-> wrote'[s]]) \in Seq(Unit)
    BY <2>3
  <2>6. pipe' \in [Streams -> Seq(Unit)]
    BY <2>4, <2>5
  <2>7. ASSUME NEW r \in Streams PROVE Len(pipe'[r]) <= PipeCap
    <3>1. CASE r = s
      <4>1. pipe'[r] = Append(pipe[s], [src |-> s, n |-> wrote'[s]])
        BY <2>4, <3>1
      <4>2. pipe[s] \in Seq(Unit) /\ Len(pipe[s]) < PipeCap /\ PipeCap \in Nat
        BY <1>1 DEF WriteOut
      <4> HIDE DEF TypeOK, Unit
      <4> QED BY <4>1, <4>2, <2>3
    <3>2. CASE r # s
      BY <3>2, <2>4
    <3> QED BY <3>1, <3>2
  <2> QED BY <1>1, <2>2, <2>6, <2>7 DEF WriteOut
<1>2. ASSUME NEW p \in Procs, ReadIn(p) PROVE TypeOK'
  <2>1. Tail(inPipe) \in Seq(InMsgs) /\ Head(inPipe) \in InMsgs /\ Len(Tail(inPipe)) <= PipeCap
    BY SMTT(20), <1>2 DEF ReadIn
  <2> QED BY SMTT(20), <1>2, <2>1 DEF ReadIn
<1>3. ASSUME NEW p \in Procs, NEW f \in Fds, CloseFd(p, f) PROVE TypeOK'
  BY <1>3 DEF CloseFd
<1>4. CASE Spawn
  <2>1. PICK inherited \in {fds["child"], {}} : fds' = [fds EXCEPT !["kin"] = inherited]
    BY <1>4 DEF Spawn
  <2>2. fds["child"] \in SUBSET Fds
    OBVIOUS
  <2>3. fds' \in [Procs -> SUBSET Fds]
    BY <2>1, <2>2
  <2>4. alive' \subseteq Procs
    BY <1>4 DEF Spawn
  <2> QED BY <1>4, <2>3, <2>4 DEF Spawn
<1>5. ASSUME NEW p \in Procs, Die(p) PROVE TypeOK'
  BY <1>5 DEF Die
<1>6. ASSUME NEW s \in Streams, Read(s) PROVE TypeOK'
  <2>1. pipe[s] \in Seq(Unit) /\ pipe[s] # <<>>
    BY <1>6 DEF Read
  <2>2. /\ Tail(pipe[s]) \in Seq(Unit)
        /\ Head(pipe[s]) \in Unit
        /\ Len(pipe[s]) \in Nat
        /\ Len(Tail(pipe[s])) = Len(pipe[s]) - 1
    <3> HIDE DEF TypeOK, Unit
    <3> QED BY <2>1, TailFacts
  <2>3. pipe' \in [Streams -> Seq(Unit)]
    BY <1>6, <2>2 DEF Read
  <2>7. ASSUME NEW r \in Streams PROVE Len(pipe'[r]) <= PipeCap
    <3>1. CASE r = s
      <4>1. pipe'[r] = Tail(pipe[s])
        BY <3>1, <1>6 DEF Read
      <4>2. Len(pipe[s]) <= PipeCap /\ PipeCap \in Nat
        OBVIOUS
      <4> HIDE DEF TypeOK
      <4> QED BY <4>1, <4>2, <2>2
    <3>2. CASE r # s
      BY <3>2, <1>6 DEF Read
    <3> QED BY <3>1, <3>2
  <2>4. logged' \in Seq(Unit)
    <3>1. logged' = logged \/ logged' = Append(logged, Head(pipe[s]))
      BY <1>6 DEF Read
    <3>2. logged \in Seq(Unit)
      OBVIOUS
    <3> HIDE DEF TypeOK, Unit
    <3> QED BY <3>1, <3>2, <2>2
  <2>5. held' \in [Streams -> Seq(Unit)]
    <3>1. <<Head(pipe[s])>> \in Seq(Unit)
      BY <2>2
    <3>2. held' = held \/ held' = [held EXCEPT ![s] = <<Head(pipe[s])>>]
      BY <1>6 DEF Read
    <3> QED BY ZenonT(60), <3>1, <3>2
  <2>6. reader' \in [Streams -> {"read", "send", "exit"}]
    <3>1. reader' = reader \/ reader' = [reader EXCEPT ![s] = "send"]
      BY <1>6 DEF Read
    <3> QED BY SMTT(20), <3>1
  <2> QED BY <1>6, <2>3, <2>4, <2>5, <2>6, <2>7 DEF Read
<1>7. ASSUME NEW s \in Streams, ReadFails(s) PROVE TypeOK'
  BY <1>7 DEF ReadFails
<1>8. ASSUME NEW s \in Streams, Abandon(s) PROVE TypeOK'
  BY SMTT(20), <1>8 DEF Abandon
<1>9. CASE CloseOutput
  BY <1>9 DEF CloseOutput
<1>10. ASSUME NEW s \in Streams, Deliver(s) PROVE TypeOK'
  <2>1. taken \o held[s] \in Seq(Unit)
    OBVIOUS
  <2> QED BY SMTT(20), <1>10, <2>1 DEF Deliver
<1>11. ASSUME NEW m \in InMsgs, Send(m) PROVE TypeOK'
  BY SMTT(20), <1>11 DEF Send
<1>12. CASE TerminateBegin
  BY <1>12 DEF TerminateBegin
<1>13. CASE CloseStdin
  BY <1>13 DEF CloseStdin
<1>14. CASE Escalate
  <2>1. ladder' \in Signals
    BY <1>14, RungFacts DEF Escalate
  <2> QED BY <1>14, <2>1 DEF Escalate
<1>15. CASE Terminated \/ GiveUp
  BY <1>15 DEF Terminated, GiveUp, Sweep
<1>16. CASE Reap \/ WaitReturns
  BY <1>16 DEF Reap, WaitReturns
<1>17. CASE UNCHANGED vars
  BY <1>17
<1> QED
  BY <1>1, <1>2, <1>3, <1>4, <1>5, <1>6, <1>7, <1>8, <1>9, <1>10, <1>11, <1>12,
     <1>13, <1>14, <1>15, <1>16, <1>17
  DEF Next, ProgramStep, ReaderStep, TerminateStep, CallerStep

LEMMA TypeInit == Init => TypeOK
  BY ConstantsOK DEF ConstantsOK, Init, TypeOK, Unit

(* Every variable keeps its type in every behaviour; no pipe ever holds    *)
(* more than its capacity.                                                 *)
THEOREM TypeCorrect == Spec => []TypeOK
BY TypeInit, TypeInductive, PTL DEF Spec

-----------------------------------------------------------------------------
(* The output channel.  Its goroutines never come back once they exit, so  *)
(* the property is inductive by itself.                                    *)

LEMMA ChannelInductive ==
  ASSUME NoSendOnClosedOutput, TypeOK, [Next]_vars PROVE NoSendOnClosedOutput'
<1> USE DEF NoSendOnClosedOutput, progVars, outVars, inVars, endVars, vars
<1>1. ASSUME NEW s \in Streams, Read(s) \/ ReadFails(s) \/ Abandon(s) \/ Deliver(s)
      PROVE  NoSendOnClosedOutput'
  <2>1. output' = output /\ \A r \in Streams : reader[r] = "exit" => reader'[r] = "exit"
    BY <1>1 DEF Read, ReadFails, Abandon, Deliver, TypeOK
  <2>2. Feeders \subseteq Streams
    BY DEF Feeders
  <2> QED BY <2>1, <2>2
<1>2. CASE CloseOutput
  BY <1>2 DEF CloseOutput
<1>3. CASE UNCHANGED <<output, reader>>
  BY <1>3
<1> QED
  BY <1>1, <1>2, <1>3
  DEF Next, ProgramStep, ReaderStep, TerminateStep, CallerStep, WriteOut, ReadIn, CloseFd,
      Spawn, Die, Send, TerminateBegin, CloseStdin, Escalate, Terminated, GiveUp, Sweep,
      Reap, WaitReturns

(* No goroutine ever sends on the closed output channel. *)
THEOREM ChannelSafe == Spec => []NoSendOnClosedOutput
<1>1. Init => NoSendOnClosedOutput
  BY DEF Init, NoSendOnClosedOutput
<1> QED BY <1>1, ChannelInductive, TypeCorrect, PTL DEF Spec

-----------------------------------------------------------------------------
(* Terminate.  NoSurvivors and KillIsLastResort follow from what is known  *)
(* of the group at each rung: a reported child has exited, and from the    *)
(* SIGKILL rung on everything left is killed, which forks no more.         *)

SentBy ==
  [idle |-> {}, begun |-> {}, stdin |-> {}, SIGINT |-> {"SIGINT"},
   SIGTERM |-> {"SIGINT", "SIGTERM"}, SIGKILL |-> Signals]

LadderInv ==
  /\ killed \subseteq alive
  /\ waiter \in {"reaped", "sent"} => "child" \notin alive
  /\ ladder \in DOMAIN SentBy => sent = SentBy[ladder]
  /\ ladder = "returned" => sent = Signals \/ waiter = "sent"
  /\ ladder \in {"SIGKILL", "returned"} => alive \subseteq killed
  /\ ladder \notin {"SIGKILL", "returned"} => killed = {}

LEMMA SentByFacts ==
  /\ DOMAIN SentBy = {"idle", "begun", "stdin", "SIGINT", "SIGTERM", "SIGKILL"}
  /\ SentBy["idle"] = {} /\ SentBy["begun"] = {} /\ SentBy["stdin"] = {}
  /\ SentBy["SIGINT"] = {"SIGINT"}
  /\ SentBy["SIGTERM"] = {"SIGINT", "SIGTERM"}
  /\ SentBy["SIGKILL"] = Signals
  BY DEF SentBy

LEMMA LadderInductive ==
  ASSUME LadderInv, TypeOK, [Next]_vars PROVE LadderInv'
<1> USE SentByFacts DEF LadderInv, progVars, outVars, inVars, endVars, vars
<1>1. CASE Spawn
  <2>1. killed = {} /\ ladder \notin {"SIGKILL", "returned"}
    BY <1>1 DEF Spawn, Running
  <2> QED BY <1>1, <2>1 DEF Spawn, Running
<1>2. ASSUME NEW p \in Procs, Die(p) PROVE LadderInv'
  BY <1>2 DEF Die
<1>3. CASE TerminateBegin
  BY <1>3 DEF TerminateBegin
<1>4. CASE CloseStdin
  BY <1>4 DEF CloseStdin
<1>5. CASE Escalate
  <2>1. CASE ladder = "stdin"
    BY <1>5, <2>1, RungFacts DEF Escalate
  <2>2. CASE ladder = "SIGINT"
    BY <1>5, <2>2, RungFacts DEF Escalate
  <2>3. CASE ladder = "SIGTERM"
    BY <1>5, <2>3, RungFacts DEF Escalate
  <2> QED BY <1>5, <2>1, <2>2, <2>3, RungFacts DEF Escalate
<1>6. CASE Terminated \/ GiveUp
  BY <1>6 DEF Terminated, GiveUp, Sweep
<1>7. CASE Reap \/ WaitReturns
  BY <1>7 DEF Reap, WaitReturns
<1>8. CASE UNCHANGED <<alive, killed, ladder, waiter, sent>>
  BY <1>8
<1> QED
  BY <1>1, <1>2, <1>3, <1>4, <1>5, <1>6, <1>7, <1>8
  DEF Next, ProgramStep, ReaderStep, TerminateStep, CallerStep, WriteOut, ReadIn, CloseFd,
      Send, Read, ReadFails, Abandon, CloseOutput, Deliver

LEMMA LadderInit == Init => LadderInv
  BY SentByFacts DEF Init, LadderInv

(* What is known of the group at each rung of Terminate's ladder. *)
THEOREM LadderCorrect == Spec => []LadderInv
BY LadderInit, LadderInductive, TypeCorrect, PTL DEF Spec

(* When Terminate has returned, by either exit, no process is left in the  *)
(* group that SIGKILL has not reached, and none can appear any more.       *)
THEOREM TerminateLeavesNoSurvivors == Spec => []NoSurvivors
<1>1. LadderInv => NoSurvivors
  BY DEF LadderInv, NoSurvivors
<1> QED BY <1>1, LadderCorrect, PTL

(* The child is killed only after SIGINT and SIGTERM had their time, and   *)
(* its descendants only then or once the child is reaped.                  *)
THEOREM TerminateKillsLast == Spec => []KillIsLastResort
<1>1. LadderInv => KillIsLastResort
  BY SentByFacts DEF LadderInv, KillIsLastResort
<1> QED BY <1>1, LadderCorrect, PTL

-----------------------------------------------------------------------------
(* The output.  Units are accounted for where they are: per stream, what   *)
(* the pipe holds are the last units written, a parked goroutine holds the *)
(* one before them, and of the earlier ones each was received, unless the  *)
(* goroutine has abandoned its stream.                                     *)

UnitAt(s, k) == [src |-> s, n |-> k]

(* How many units of a stream have left its goroutine. *)
Passed(s) == wrote[s] - Len(pipe[s]) - (IF reader[s] = "send" THEN 1 ELSE 0)

Received(s, k) == \E i \in DOMAIN taken : taken[i] = UnitAt(s, k)

PipeInv ==
  \A s \in Streams :
    /\ Len(pipe[s]) <= wrote[s]
    /\ \A i \in 1..Len(pipe[s]) : pipe[s][i] = UnitAt(s, wrote[s] - Len(pipe[s]) + i)
    /\ reader[s] = "send" =>
         /\ s \in Feeders
         /\ Len(pipe[s]) < wrote[s]
         /\ held[s] = <<UnitAt(s, wrote[s] - Len(pipe[s]))>>

TakenInv ==
  \A s \in Streams :
    /\ \A j \in DOMAIN taken : taken[j].src = s => s \in Feeders /\ taken[j].n <= Passed(s)
    /\ s \in Feeders /\ reader[s] # "exit" => \A k \in 1..Passed(s) : Received(s, k)

(* Before Terminate a goroutine ends only at end of file. *)
DrainInv ==
  /\ waiter # "none" => Done
  /\ readEnds = "closed" => Done
  /\ ~Done => \A s \in Streams : reader[s] = "exit" =>
       /\ pipe[s] = <<>>
       /\ Holders(s) = {}
       /\ s \in Feeders => \A k \in 1..wrote[s] : Received(s, k)

LogInv == Len(logged) = wrote["stderr"] - Len(pipe["stderr"])

OutputInv == PipeInv /\ TakenInv /\ OutputIntact /\ DrainInv /\ LogInv

LEMMA TakenFacts ==
  ASSUME TypeOK, NEW j \in DOMAIN taken
  PROVE  taken[j].src \in Streams /\ taken[j].n \in Nat
  <1>1. taken \in Seq(Unit)
    BY DEF TypeOK
  <1>2. taken[j] \in Unit
    BY <1>1
  <1> QED BY <1>2 DEF Unit

LEMMA FeedersAreStreams == Feeders \subseteq Streams
  BY DEF Feeders

(* What PipeInv and TakenInv say depends on these variables only, and a    *)
(* step that leaves them alone may only change who can write.              *)
LEMMA OutputUntouched ==
  ASSUME PipeInv, TakenInv, OutputIntact, LogInv,
         UNCHANGED <<pipe, wrote, reader, held, taken, logged>>
  PROVE  PipeInv' /\ TakenInv' /\ OutputIntact' /\ LogInv'
  BY DEF PipeInv, TakenInv, OutputIntact, LogInv, Passed, Received, UnitAt, Feeders

(* A unit is written: it becomes the last of its pipe. *)
LEMMA WriteOutInductive ==
  ASSUME OutputInv, TypeOK, NEW p \in Procs, NEW s \in Streams, WriteOut(p, s)
  PROVE  OutputInv'
<1> DEFINE u == UnitAt(s, wrote[s] + 1)
<1>1. /\ wrote[s] \in Nat
      /\ wrote' = [wrote EXCEPT ![s] = wrote[s] + 1]
      /\ wrote'[s] = wrote[s] + 1
      /\ pipe' = [pipe EXCEPT ![s] = Append(pipe[s], u)]
      /\ pipe[s] \in Seq(Unit)
      /\ UNCHANGED <<reader, held, taken, logged, ladder, waiter, readEnds, alive, fds>>
  BY DEF WriteOut, TypeOK, UnitAt, progVars, endVars
<1>2. u \in Unit
  BY <1>1 DEF Unit, UnitAt
<1>3. /\ pipe'[s] = Append(pipe[s], u)
      /\ Len(pipe'[s]) = Len(pipe[s]) + 1
      /\ Len(pipe[s]) \in Nat
      /\ \A i \in 1..Len(pipe'[s]) : pipe'[s][i] = IF i = Len(pipe'[s]) THEN u ELSE pipe[s][i]
  <2>1. pipe'[s] = Append(pipe[s], u)
    BY <1>1 DEF TypeOK
  <2> HIDE DEF u
  <2> QED BY <1>1, <1>2, <2>1
<1>4. \A r \in Streams : r # s => wrote'[r] = wrote[r] /\ pipe'[r] = pipe[r]
  BY <1>1 DEF TypeOK
<1>5. PipeInv'
  <2> SUFFICES ASSUME NEW r \in Streams
      PROVE (/\ Len(pipe[r]) <= wrote[r]
             /\ \A i \in 1..Len(pipe[r]) : pipe[r][i] = UnitAt(r, wrote[r] - Len(pipe[r]) + i)
             /\ reader[r] = "send" =>
                  /\ r \in Feeders
                  /\ Len(pipe[r]) < wrote[r]
                  /\ held[r] = <<UnitAt(r, wrote[r] - Len(pipe[r]))>>)'
    BY DEF PipeInv
  <2>1. CASE r # s
    BY <2>1, <1>1, <1>4 DEF OutputInv, PipeInv, UnitAt, Feeders
  <2>2. CASE r = s
    <3>1. Len(pipe[s]) <= wrote[s]
      BY DEF OutputInv, PipeInv
    <3>2. wrote'[s] - Len(pipe'[s]) = wrote[s] - Len(pipe[s])
      BY <1>1, <1>3
    <3>3. ASSUME NEW i \in 1..Len(pipe'[s])
          PROVE  pipe'[s][i] = UnitAt(s, wrote'[s] - Len(pipe'[s]) + i)
      <4>1. CASE i = Len(pipe'[s])
        <5>1. wrote'[s] - Len(pipe'[s]) + i = wrote[s] + 1
          BY <4>1, <1>1, <1>3, <3>2
        <5> QED BY <5>1, <4>1, <1>3
      <4>2. CASE i # Len(pipe'[s])
        <5>1. i \in 1..Len(pipe[s])
          BY <4>2, <1>3
        <5>2. pipe[s][i] = UnitAt(s, wrote[s] - Len(pipe[s]) + i)
          BY <5>1 DEF OutputInv, PipeInv
        <5> QED BY <5>2, <4>2, <1>3, <3>2
      <4> QED BY <4>1, <4>2
    <3>4. reader[s] = "send" =>
             /\ s \in Feeders
             /\ Len(pipe[s]) < wrote[s]
             /\ held[s] = <<UnitAt(s, wrote[s] - Len(pipe[s]))>>
      BY DEF OutputInv, PipeInv
    <3>5. Len(pipe'[s]) <= wrote'[s] /\ (Len(pipe[s]) < wrote[s] => Len(pipe'[s]) < wrote'[s])
      BY <3>1, <1>1, <1>3
    <3>6. reader'[s] = "send" =>
             /\ s \in Feeders
             /\ Len(pipe'[s]) < wrote'[s]
             /\ held'[s] = <<UnitAt(s, wrote'[s] - Len(pipe'[s]))>>
      BY <3>2, <3>4, <3>5, <1>1
    <3> QED BY <2>2, <3>3, <3>5, <3>6 DEF Feeders, UnitAt
  <2> QED BY <2>1, <2>2
<1>6. \A r \in Streams : Passed(r)' = Passed(r)
  <2>1. Passed(s)' = Passed(s)
    BY <1>1, <1>3 DEF Passed
  <2>2. \A r \in Streams : r # s => Passed(r)' = Passed(r)
    BY <1>1, <1>4 DEF Passed
  <2> QED BY <2>1, <2>2
<1>7. TakenInv' /\ OutputIntact'
  <2>1. \A r, k : Received(r, k)' = Received(r, k)
    BY <1>1 DEF Received, UnitAt
  <2> QED BY <1>1, <1>6, <2>1, FeedersAreStreams
       DEF OutputInv, TakenInv, OutputIntact, Feeders
<1>8. LogInv'
  <2>1. CASE s = "stderr"
    BY <2>1, <1>1, <1>3 DEF OutputInv, LogInv
  <2>2. CASE s # "stderr"
    BY <2>2, <1>1, <1>4 DEF OutputInv, LogInv
  <2> QED BY <2>1, <2>2
<1>9. DrainInv'
  <2>1. p \in Holders(s)
    BY DEF WriteOut, Running, Holders
  <2>2. ~Done => reader[s] # "exit"
    BY <2>1 DEF OutputInv, DrainInv
  <2>3. Done' = Done /\ Holders(s)' = Holders(s) /\ \A r \in Streams : Holders(r)' = Holders(r)
    BY <1>1 DEF Done, Holders
  <2>4. \A r, k : Received(r, k)' = Received(r, k)
    BY <1>1 DEF Received, UnitAt
  <2> QED BY <1>1, <1>4, <2>2, <2>3, <2>4 DEF OutputInv, DrainInv, Feeders
<1> QED BY <1>5, <1>7, <1>8, <1>9 DEF OutputInv

(* A unit is read: the first of its pipe, which a goroutine that relays    *)
(* its stream now holds.                                                   *)
LEMMA ReadInductive ==
  ASSUME OutputInv, TypeOK, NEW s \in Streams, Read(s)
  PROVE  OutputInv'
<1>1. /\ reader[s] = "read"
      /\ wrote[s] \in Nat
      /\ pipe[s] \in Seq(Unit) /\ pipe[s] # <<>>
      /\ pipe' = [pipe EXCEPT ![s] = Tail(pipe[s])]
      /\ UNCHANGED <<wrote, taken, ladder, waiter, readEnds, alive, fds>>
  BY DEF Read, TypeOK, progVars, endVars
<1>2. /\ pipe'[s] = Tail(pipe[s])
      /\ Len(pipe[s]) \in Nat \ {0}
      /\ Len(pipe'[s]) = Len(pipe[s]) - 1
      /\ Head(pipe[s]) = pipe[s][1]
      /\ \A i \in 1..Len(pipe'[s]) : pipe'[s][i] = pipe[s][i + 1]
  <2>1. pipe'[s] = Tail(pipe[s])
    BY <1>1 DEF TypeOK
  <2>2. /\ Len(pipe[s]) \in Nat \ {0}
        /\ Len(Tail(pipe[s])) = Len(pipe[s]) - 1
        /\ Head(pipe[s]) = pipe[s][1]
        /\ \A i \in 1..Len(Tail(pipe[s])) : Tail(pipe[s])[i] = pipe[s][i + 1]
    BY <1>1, TailFacts
  <2> QED BY <2>1, <2>2
<1>3. \A r \in Streams : r # s => pipe'[r] = pipe[r] /\ reader'[r] = reader[r] /\ held'[r] = held[r]
  BY <1>1 DEF TypeOK, Read
<1>4. \/ /\ s \in Feeders
         /\ reader'[s] = "send"
         /\ held'[s] = <<pipe[s][1]>>
      \/ /\ s \notin Feeders
         /\ reader' = reader
  BY <1>2 DEF TypeOK, Read
<1>5. Len(pipe[s]) <= wrote[s]
  BY DEF OutputInv, PipeInv
<1>6. \A i \in 1..Len(pipe[s]) : pipe[s][i] = UnitAt(s, wrote[s] - Len(pipe[s]) + i)
  BY DEF OutputInv, PipeInv
<1>7. PipeInv'
  <2> SUFFICES ASSUME NEW r \in Streams
      PROVE (/\ Len(pipe[r]) <= wrote[r]
             /\ \A i \in 1..Len(pipe[r]) : pipe[r][i] = UnitAt(r, wrote[r] - Len(pipe[r]) + i)
             /\ reader[r] = "send" =>
                  /\ r \in Feeders
                  /\ Len(pipe[r]) < wrote[r]
                  /\ held[r] = <<UnitAt(r, wrote[r] - Len(pipe[r]))>>)'
    BY DEF PipeInv
  <2>1. CASE r # s
    BY <2>1, <1>1, <1>3 DEF OutputInv, PipeInv, UnitAt, Feeders
  <2>2. CASE r = s
    <3>1. Len(pipe'[s]) < wrote'[s]
      BY <1>1, <1>2, <1>5
    <3>2. ASSUME NEW i \in 1..Len(pipe'[s])
          PROVE  pipe'[s][i] = UnitAt(s, wrote'[s] - Len(pipe'[s]) + i)
      <4>1. i + 1 \in 1..Len(pipe[s])
        BY <1>2
      <4>2. wrote'[s] - Len(pipe'[s]) + i = wrote[s] - Len(pipe[s]) + (i + 1)
        BY <1>1, <1>2
      <4> QED BY <4>1, <4>2, <1>2, <1>6
    <3>3. reader'[s] = "send" =>
             s \in Feeders /\ held'[s] = <<UnitAt(s, wrote'[s] - Len(pipe'[s]))>>
      <4>1. 1 \in 1..Len(pipe[s])
        BY <1>2
      <4>2. wrote[s] - Len(pipe[s]) + 1 = wrote'[s] - Len(pipe'[s])
        BY <1>1, <1>2
      <4>3. pipe[s][1] = UnitAt(s, wrote'[s] - Len(pipe'[s]))
        BY <4>1, <4>2, <1>6
      <4> QED BY <4>3, <1>1, <1>4
    <3>4. Len(pipe'[s]) <= wrote'[s]
      BY <3>1, <1>1, <1>2
    <3> QED BY <2>2, <3>1, <3>2, <3>3, <3>4 DEF Feeders, UnitAt
  <2> QED BY <2>1, <2>2
<1>8. \A r \in Feeders : Passed(r)' = Passed(r)
  <2>1. s \in Feeders => Passed(s)' = Passed(s)
    BY <1>1, <1>2, <1>4 DEF Passed
  <2>2. \A r \in Streams : r # s => Passed(r)' = Passed(r)
    BY <1>1, <1>3 DEF Passed
  <2> QED BY <2>1, <2>2, FeedersAreStreams
<1>9. TakenInv' /\ OutputIntact'
  <2>1. \A r, k : Received(r, k)' = Received(r, k)
    BY <1>1 DEF Received, UnitAt
  <2>2. \A r \in Streams : reader[r] = "exit" => reader'[r] = "exit"
    BY <1>1, <1>3
  <2>3. \A r \in Feeders : reader'[r] # "exit" => reader[r] # "exit"
    BY <2>2, FeedersAreStreams
  <2> QED BY <1>1, <1>8, <2>1, <2>3 DEF OutputInv, TakenInv, OutputIntact, Feeders
<1>10. LogInv'
  <2>1. CASE s = "stderr"
    <3>1. logged' = Append(logged, Head(pipe[s])) /\ Head(pipe[s]) \in Unit
      BY <2>1, <1>1, TailFacts DEF Read
    <3>2. logged \in Seq(Unit)
      BY DEF TypeOK
    <3>3. Len(logged') = Len(logged) + 1
      BY <3>1, <3>2
    <3> QED BY <2>1, <3>3, <1>1, <1>2 DEF OutputInv, LogInv
  <2>2. CASE s # "stderr"
    BY <2>2, <1>1, <1>3 DEF OutputInv, LogInv, Read
  <2> QED BY <2>1, <2>2
<1>11. DrainInv'
  <2>1. Done' = Done /\ \A r \in Streams : Holders(r)' = Holders(r)
    BY <1>1 DEF Done, Holders
  <2>2. \A r, k : Received(r, k)' = Received(r, k)
    BY <1>1 DEF Received, UnitAt
  <2>3. reader'[s] # "exit"
    BY <1>1, <1>4
  <2> QED BY <1>1, <1>3, <2>1, <2>2, <2>3 DEF OutputInv, DrainInv, Feeders
<1> QED BY <1>7, <1>9, <1>10, <1>11 DEF OutputInv

(* A goroutine ends at end of file, when all of its stream was passed on,  *)
(* or because Wait closed the pipe, which only Terminate makes it do.      *)
LEMMA ReadFailsInductive ==
  ASSUME OutputInv, TypeOK, NEW s \in Streams, ReadFails(s)
  PROVE  OutputInv'
<1>1. /\ reader[s] = "read"
      /\ reader' = [reader EXCEPT ![s] = "exit"]
      /\ reader'[s] = "exit"
      /\ \A r \in Streams : r # s => reader'[r] = reader[r]
      /\ UNCHANGED <<pipe, wrote, held, taken, logged, ladder, waiter, readEnds, alive, fds>>
  BY DEF ReadFails, TypeOK, progVars, endVars
<1>2. PipeInv'
  BY <1>1 DEF OutputInv, PipeInv, UnitAt, Feeders
<1>3. \A r \in Streams : Passed(r)' = Passed(r)
  BY <1>1 DEF Passed
<1>4. \A r, k : Received(r, k)' = Received(r, k)
  BY <1>1 DEF Received, UnitAt
<1>5. TakenInv' /\ OutputIntact' /\ LogInv'
  BY <1>1, <1>3, <1>4, FeedersAreStreams
  DEF OutputInv, TakenInv, OutputIntact, LogInv, Feeders
<1>6. ~Done => pipe[s] = <<>> /\ Holders(s) = {}
  BY DEF ReadFails, OutputInv, DrainInv
<1>7. ~Done /\ s \in Feeders => \A k \in 1..wrote[s] : Received(s, k)
  <2>1. ~Done => Len(pipe[s]) = 0
    BY <1>6
  <2>2. wrote[s] \in Nat
    BY DEF TypeOK
  <2>3. ~Done => Passed(s) = wrote[s]
    BY <2>1, <2>2, <1>1 DEF Passed
  <2> QED BY <2>3, <1>1 DEF OutputInv, TakenInv
<1>8. DrainInv'
  <2>1. Done' = Done /\ \A r \in Streams : Holders(r)' = Holders(r)
    BY <1>1 DEF Done, Holders
  <2> QED BY <1>1, <1>4, <1>6, <1>7, <2>1 DEF OutputInv, DrainInv, Feeders
<1> QED BY <1>2, <1>5, <1>8 DEF OutputInv

(* A unit is received: it is the next of its stream. *)
LEMMA DeliverInductive ==
  ASSUME OutputInv, TypeOK, NEW s \in Streams, Deliver(s)
  PROVE  OutputInv'
<1> DEFINE n == wrote[s] - Len(pipe[s])
           u == UnitAt(s, n)
<1>1. /\ reader[s] = "send"
      /\ taken' = taken \o held[s]
      /\ reader' = [reader EXCEPT ![s] = "read"]
      /\ reader'[s] = "read"
      /\ \A r \in Streams : r # s => reader'[r] = reader[r] /\ held'[r] = held[r]
      /\ UNCHANGED <<pipe, wrote, logged, ladder, waiter, readEnds, alive, fds>>
  BY DEF Deliver, TypeOK, progVars, endVars
<1>2. s \in Feeders /\ held[s] = <<u>> /\ Len(pipe[s]) < wrote[s]
  BY <1>1 DEF OutputInv, PipeInv
<1>3. n \in Nat \ {0} /\ Passed(s) = n - 1 /\ Passed(s)' = n
  <2>1. wrote[s] \in Nat /\ Len(pipe[s]) \in Nat
    BY DEF TypeOK
  <2> QED BY <1>1, <1>2, <2>1 DEF Passed
<1>4. \A r \in Streams : r # s => Passed(r)' = Passed(r)
  BY <1>1 DEF Passed
<1>5. /\ Len(taken) \in Nat
      /\ Len(taken') = Len(taken) + 1
      /\ DOMAIN taken = 1..Len(taken)
      /\ DOMAIN taken' = 1..(Len(taken) + 1)
      /\ taken'[Len(taken) + 1] = u
      /\ \A j \in DOMAIN taken : taken'[j] = taken[j]
  <2>1. taken \in Seq(Unit)
    BY DEF TypeOK
  <2>2. taken' = taken \o <<u>>
    BY <1>1, <1>2
  <2>3. u \in Unit
    BY <1>3 DEF Unit, UnitAt
  <2> HIDE DEF u
  <2> QED BY <2>1, <2>2, <2>3, AppendFacts
<1>6. u.src = s /\ u.n = n
  BY DEF UnitAt
<1> HIDE DEF u, n
<1>7. \A r, k : Received(r, k) => Received(r, k)'
  BY <1>5 DEF Received, UnitAt
<1>8. ASSUME NEW k, k = n PROVE Received(s, k)'
  <2>1. Len(taken) + 1 \in DOMAIN taken' /\ taken'[Len(taken) + 1] = UnitAt(s, k)
    BY <1>5, <1>8 DEF u
  <2> QED BY <2>1 DEF Received, UnitAt
<1>9. PipeInv'
  BY <1>1 DEF OutputInv, PipeInv, UnitAt, Feeders
<1>10. TakenInv'
  <2> SUFFICES ASSUME NEW r \in Streams
      PROVE (/\ \A j \in DOMAIN taken :
                  taken[j].src = r => r \in Feeders /\ taken[j].n <= Passed(r)
             /\ r \in Feeders /\ reader[r] # "exit" =>
                  \A k \in 1..Passed(r) : Received(r, k))'
    BY DEF TakenInv
  <2>1. CASE r # s
    <3>1. \A j \in DOMAIN taken' : taken'[j].src = r => j \in DOMAIN taken /\ taken'[j] = taken[j]
      BY <2>1, <1>5, <1>6
    <3> QED BY <2>1, <3>1, <1>1, <1>4, <1>7 DEF OutputInv, TakenInv, Feeders
  <2>2. CASE r = s
    <3>1. ASSUME NEW j \in DOMAIN taken', taken'[j].src = s
          PROVE  taken'[j].n <= n
      <4>1. CASE j = Len(taken) + 1
        BY <4>1, <1>3, <1>5, <1>6
      <4>2. CASE j # Len(taken) + 1
        <5>1. j \in DOMAIN taken /\ taken'[j] = taken[j]
          BY <4>2, <1>5
        <5>2. taken[j].n <= Passed(s)
          BY <3>1, <5>1 DEF OutputInv, TakenInv
        <5>3. taken[j].n \in Nat
          BY <5>1, TakenFacts
        <5> QED BY <5>1, <5>2, <5>3, <1>3
      <4> QED BY <4>1, <4>2
    <3>2. ASSUME NEW k \in 1..n
          PROVE  Received(s, k)'
      <4>1. CASE k = n
        BY <4>1, <1>8
      <4>2. CASE k # n
        <5>1. k \in 1..Passed(s)
          BY <4>2, <1>3
        <5> QED BY <5>1, <1>1, <1>2, <1>7 DEF OutputInv, TakenInv
      <4> QED BY <4>1, <4>2
    <3> QED BY <2>2, <3>1, <3>2, <1>2, <1>3 DEF Feeders
  <2> QED BY <2>1, <2>2
<1>11. OutputIntact'
  <2>1. ASSUME NEW i \in DOMAIN taken', NEW j \in DOMAIN taken',
               i < j, taken'[i].src = taken'[j].src
        PROVE  taken'[i].n < taken'[j].n
    <3>1. i \in DOMAIN taken /\ taken'[i] = taken[i]
      BY <2>1, <1>5
    <3>2. CASE j = Len(taken) + 1
      <4>1. taken[i].src = s /\ taken'[j].n = n
        BY <2>1, <3>1, <3>2, <1>5, <1>6
      <4>2. taken[i].n <= Passed(s)
        BY <4>1, <3>1 DEF OutputInv, TakenInv
      <4>3. taken[i].n \in Nat
        BY <3>1, TakenFacts
      <4> QED BY <4>1, <4>2, <4>3, <3>1, <1>3
    <3>3. CASE j # Len(taken) + 1
      <4>1. j \in DOMAIN taken /\ taken'[j] = taken[j]
        BY <3>3, <1>5
      <4> QED BY <2>1, <3>1, <4>1 DEF OutputInv, OutputIntact
    <3> QED BY <3>2, <3>3
  <2>2. ASSUME NEW j \in DOMAIN taken', NEW k \in 1..taken'[j].n
        PROVE  \E i \in 1..j : taken'[i] = [src |-> taken'[j].src, n |-> k]
    <3>1. CASE j = Len(taken) + 1
      <4>1. taken'[j] = u /\ k \in 1..n
        BY <2>2, <3>1, <1>5, <1>6
      <4>2. CASE k = n
        BY <3>1, <4>1, <4>2, <1>5, <1>6 DEF UnitAt, u
      <4>3. CASE k # n
        <5>1. k \in 1..Passed(s)
          BY <4>1, <4>3, <1>3
        <5>2. Received(s, k)
          BY <5>1, <1>1, <1>2 DEF OutputInv, TakenInv
        <5>3. PICK i \in DOMAIN taken : taken[i] = UnitAt(s, k)
          BY <5>2 DEF Received
        <5>4. i \in 1..j /\ taken'[i] = UnitAt(s, k)
          BY <5>3, <3>1, <1>5
        <5> QED BY <5>4, <4>1, <1>6 DEF UnitAt
      <4> QED BY <4>2, <4>3
    <3>2. CASE j # Len(taken) + 1
      <4>1. j \in DOMAIN taken /\ taken'[j] = taken[j]
        BY <3>2, <1>5
      <4>2. \E i \in 1..j : taken[i] = [src |-> taken[j].src, n |-> k]
        BY <4>1, <2>2 DEF OutputInv, OutputIntact
      <4>3. 1..j \subseteq DOMAIN taken
        BY <4>1, <1>5
      <4> QED BY <4>1, <4>2, <4>3, <1>5
    <3> QED BY <3>1, <3>2
  <2> QED BY <2>1, <2>2 DEF OutputIntact
<1>12. LogInv'
  BY <1>1 DEF OutputInv, LogInv
<1>13. DrainInv'
  <2>1. Done' = Done /\ \A r \in Streams : Holders(r)' = Holders(r)
    BY <1>1 DEF Done, Holders
  <2> QED BY <1>1, <1>7, <2>1 DEF OutputInv, DrainInv, Feeders
<1> QED BY <1>9, <1>10, <1>11, <1>12, <1>13 DEF OutputInv

(* A unit is thrown away: only after Terminate has begun, by a goroutine   *)
(* that then ends, so that no later unit can follow the gap.               *)
LEMMA AbandonInductive ==
  ASSUME OutputInv, TypeOK, NEW s \in Streams, Abandon(s)
  PROVE  OutputInv'
<1>1. /\ reader[s] = "send"
      /\ Done
      /\ reader'[s] = "exit"
      /\ \A r \in Streams : r # s => reader'[r] = reader[r] /\ held'[r] = held[r]
      /\ UNCHANGED <<pipe, wrote, taken, logged, ladder, waiter, readEnds, alive, fds>>
  BY DEF Abandon, TypeOK, progVars, endVars
<1>2. PipeInv'
  BY <1>1 DEF OutputInv, PipeInv, UnitAt, Feeders
<1>3. Passed(s)' = Passed(s) + 1 /\ Passed(s) \in Int
  <2>1. wrote[s] \in Nat /\ Len(pipe[s]) \in Nat
    BY DEF TypeOK
  <2> QED BY <1>1, <2>1 DEF Passed
<1>4. \A r \in Streams : r # s => Passed(r)' = Passed(r)
  BY <1>1 DEF Passed
<1>5. \A r, k : Received(r, k)' = Received(r, k)
  BY <1>1 DEF Received, UnitAt
<1>6. TakenInv'
  <2> SUFFICES ASSUME NEW r \in Streams
      PROVE (/\ \A j \in DOMAIN taken :
                  taken[j].src = r => r \in Feeders /\ taken[j].n <= Passed(r)
             /\ r \in Feeders /\ reader[r] # "exit" =>
                  \A k \in 1..Passed(r) : Received(r, k))'
    BY DEF TakenInv
  <2>1. CASE r # s
    BY <2>1, <1>1, <1>4, <1>5 DEF OutputInv, TakenInv, Feeders
  <2>2. CASE r = s
    <3>1. ASSUME NEW j \in DOMAIN taken, taken[j].src = s
          PROVE  s \in Feeders /\ taken[j].n <= Passed(s) + 1
      <4>1. s \in Feeders /\ taken[j].n <= Passed(s)
        BY <3>1 DEF OutputInv, TakenInv
      <4>2. taken[j].n \in Nat
        BY TakenFacts
      <4> QED BY <4>1, <4>2, <1>3
    <3> QED BY <2>2, <3>1, <1>1, <1>3 DEF Feeders
  <2> QED BY <2>1, <2>2
<1>7. OutputIntact' /\ LogInv'
  BY <1>1 DEF OutputInv, OutputIntact, LogInv
<1>8. DrainInv'
  BY <1>1 DEF OutputInv, DrainInv, Done
<1> QED BY <1>2, <1>6, <1>7, <1>8 DEF OutputInv

(* No step of the program adds a writer to a stream that has none. *)
LEMMA GroupKeepsEnds ==
  ASSUME TypeOK, NEW p \in Procs, Spawn \/ Die(p) \/ \E f \in Fds : CloseFd(p, f)
  PROVE  \A r \in Streams : Holders(r) = {} => Holders(r)' = {}
<1>1. CASE Spawn
  <2>1. PICK inherited \in {fds["child"], {}} : fds' = [fds EXCEPT !["kin"] = inherited]
    BY <1>1 DEF Spawn
  <2> QED BY <1>1, <2>1 DEF Spawn, Running, Holders, TypeOK
<1>2. CASE Die(p)
  BY <1>2 DEF Die, Holders, TypeOK
<1>3. ASSUME NEW f \in Fds, CloseFd(p, f) PROVE \A r \in Streams : Holders(r) = {} => Holders(r)' = {}
  BY <1>3 DEF CloseFd, Holders, TypeOK
<1> QED BY <1>1, <1>2, <1>3

LEMMA HoldersOnlyShrink ==
  ASSUME TypeOK, [Next]_vars
  PROVE  \A r \in Streams : Holders(r) = {} => Holders(r)' = {}
<1>1. CASE \E p \in Procs : Spawn \/ Die(p) \/ \E f \in Fds : CloseFd(p, f)
  BY <1>1, GroupKeepsEnds
<1>2. CASE UNCHANGED <<alive, fds>>
  BY <1>2 DEF Holders
<1> QED
  BY <1>1, <1>2 DEF Next, ProgramStep, ReaderStep, TerminateStep, CallerStep, Procs,
     WriteOut, ReadIn, Read, ReadFails, Abandon, CloseOutput, CloseStdin, Escalate,
     Terminated, GiveUp, Sweep, Reap, WaitReturns, Deliver, Send, TerminateBegin,
     vars, progVars, outVars, inVars, endVars

(* And without a writer nothing more is written. *)
LEMMA NoWriterNoWrite ==
  ASSUME TypeOK, [Next]_vars, NEW r \in Streams, Holders(r) = {}
  PROVE  wrote'[r] = wrote[r]
<1>1. CASE \E p \in Procs, s \in Streams : WriteOut(p, s)
  <2>1. PICK p \in Procs, s \in Streams : WriteOut(p, s)
    BY <1>1
  <2>2. s # r /\ wrote' = [wrote EXCEPT ![s] = wrote[s] + 1]
    BY <2>1 DEF WriteOut, Running, Holders
  <2> QED BY <2>2 DEF TypeOK
<1>2. CASE wrote' = wrote
  BY <1>2
<1> QED
  BY <1>1, <1>2 DEF Next, ProgramStep, ReaderStep, TerminateStep, CallerStep,
     ReadIn, CloseFd, Spawn, Die, Read, ReadFails, Abandon, CloseOutput, CloseStdin, Escalate,
     Terminated, GiveUp, Sweep, Reap, WaitReturns, Deliver, Send, TerminateBegin,
     vars, progVars, outVars, inVars, endVars

LEMMA GroupInductive ==
  ASSUME OutputInv, TypeOK, NEW p \in Procs,
         Spawn \/ Die(p) \/ \E f \in Fds : CloseFd(p, f)
  PROVE  OutputInv'
<1>1. UNCHANGED <<pipe, wrote, reader, held, taken, logged, ladder, waiter, readEnds>>
  BY DEF Spawn, Die, CloseFd, outVars, endVars
<1>2. PipeInv' /\ TakenInv' /\ OutputIntact' /\ LogInv'
  BY <1>1, OutputUntouched DEF OutputInv
<1>3. \A r \in Streams : Holders(r) = {} => Holders(r)' = {}
  BY GroupKeepsEnds
<1>4. \A r, k : Received(r, k)' = Received(r, k)
  BY <1>1 DEF Received, UnitAt
<1>5. DrainInv'
  BY <1>1, <1>3, <1>4 DEF OutputInv, DrainInv, Done, Feeders
<1> QED BY <1>2, <1>5 DEF OutputInv

(* The steps of Terminate touch no unit; the others touch nothing here. *)
LEMMA TerminateInductive ==
  ASSUME OutputInv, TypeOK, LadderInv,
         TerminateBegin \/ TerminateStep
  PROVE  OutputInv'
<1>1. UNCHANGED <<pipe, wrote, reader, held, taken, logged>>
  BY DEF TerminateBegin, TerminateStep, CloseStdin, Escalate, Terminated, GiveUp, Sweep,
         Reap, WaitReturns, outVars
<1>2. PipeInv' /\ TakenInv' /\ OutputIntact' /\ LogInv'
  BY <1>1, OutputUntouched DEF OutputInv
<1>3. Done'
  <2>1. CASE TerminateBegin
    BY <2>1 DEF TerminateBegin, Done
  <2>2. CASE CloseStdin \/ Terminated \/ GiveUp
    BY <2>2 DEF CloseStdin, Terminated, GiveUp, Sweep, Done
  <2>3. CASE Escalate
    BY <2>3, RungFacts DEF Escalate, Done
  <2>4. CASE Reap \/ WaitReturns
    BY <2>4 DEF Reap, WaitReturns, OutputInv, DrainInv, Done
  <2> QED BY <2>1, <2>2, <2>3, <2>4 DEF TerminateStep
<1>4. DrainInv'
  BY <1>3 DEF DrainInv
<1> QED BY <1>2, <1>4 DEF OutputInv

LEMMA OutputInductive ==
  ASSUME OutputInv, TypeOK, LadderInv, [Next]_vars PROVE OutputInv'
<1>1. CASE ProgramStep
  <2>1. CASE \E p \in Procs : ReadIn(p)
    <3>1. UNCHANGED <<progVars, outVars, endVars>>
      BY <2>1 DEF ReadIn
    <3> QED BY <3>1, OutputUntouched
         DEF progVars, outVars, endVars, OutputInv, DrainInv, Done, Holders, Received, UnitAt, Feeders
  <2>2. CASE ~ \E p \in Procs : ReadIn(p)
    BY <1>1, <2>2, WriteOutInductive, GroupInductive DEF ProgramStep
  <2> QED BY <2>1, <2>2
<1>2. CASE ReaderStep
  <2>1. CASE CloseOutput
    <3>1. UNCHANGED <<pipe, wrote, reader, held, taken, logged, progVars, endVars>>
      BY <2>1 DEF CloseOutput
    <3> QED BY <3>1, OutputUntouched
         DEF progVars, endVars, OutputInv, DrainInv, Done, Holders, Received, UnitAt, Feeders
  <2>2. CASE ~CloseOutput
    BY <1>2, <2>2, ReadInductive, ReadFailsInductive, AbandonInductive DEF ReaderStep
  <2> QED BY <2>1, <2>2
<1>3. CASE TerminateStep
  BY <1>3, TerminateInductive
<1>4. CASE CallerStep
  <2>1. CASE \E m \in InMsgs : Send(m)
    <3>1. UNCHANGED <<progVars, outVars, endVars>>
      BY <2>1 DEF Send
    <3> QED BY <3>1, OutputUntouched
         DEF progVars, outVars, endVars, OutputInv, DrainInv, Done, Holders, Received, UnitAt, Feeders
  <2>2. CASE ~ \E m \in InMsgs : Send(m)
    BY <1>4, <2>2, DeliverInductive, TerminateInductive DEF CallerStep
  <2> QED BY <2>1, <2>2
<1>5. CASE UNCHANGED vars
  <2>1. UNCHANGED <<progVars, outVars, endVars>>
    BY <1>5 DEF vars
  <2> QED BY <2>1, OutputUntouched
       DEF progVars, outVars, endVars, OutputInv, DrainInv, Done, Holders, Received, UnitAt, Feeders
<1> QED BY <1>1, <1>2, <1>3, <1>4, <1>5 DEF Next

LEMMA OutputInit == Init => OutputInv
<1> SUFFICES ASSUME Init PROVE OutputInv
  OBVIOUS
<1>1. \A s \in Streams : wrote[s] = 0 /\ pipe[s] = <<>> /\ reader[s] = "read"
  BY DEF Init
<1>2. taken = <<>> /\ logged = <<>> /\ waiter = "none" /\ readEnds = "open"
  BY DEF Init
<1>3. \A s \in Streams : Len(pipe[s]) = 0 /\ Passed(s) = 0
  BY <1>1 DEF Passed
<1>4. PipeInv
  BY <1>1, <1>3 DEF PipeInv
<1>5. TakenInv /\ OutputIntact
  BY <1>2, <1>3, FeedersAreStreams DEF TakenInv, OutputIntact
<1>6. DrainInv /\ LogInv
  BY <1>1, <1>2, <1>3 DEF DrainInv, LogInv
<1> QED BY <1>4, <1>5, <1>6 DEF OutputInv

(* Every unit the group wrote is accounted for, wherever it is. *)
THEOREM OutputCorrect == Spec => []OutputInv
BY OutputInit, OutputInductive, TypeCorrect, LadderCorrect, PTL DEF Spec

(* However stdout and stderr interleave, and wherever the teardown cuts    *)
(* them off, what is received from Output() is an initial part of each     *)
(* stream, in order and without repetition.                                *)
THEOREM OutputNeverGarbled == Spec => []OutputIntact
<1>1. OutputInv => OutputIntact
  BY DEF OutputInv
<1> QED BY <1>1, OutputCorrect, PTL

(* A program that ends by itself has all its output handed over, and its   *)
(* stderr logged, before the channel closes.                               *)
THEOREM OutputComplete == Spec => []EndOfOutputIsComplete
<1>1. OutputInv /\ NoSendOnClosedOutput /\ TypeOK => EndOfOutputIsComplete
  <2> SUFFICES ASSUME OutputInv, NoSendOnClosedOutput, TypeOK, ~Done
      PROVE  /\ output = "closed" =>
                  \A s \in Feeders : \A k \in 1..wrote[s] :
                    \E i \in DOMAIN taken : taken[i] = [src |-> s, n |-> k]
             /\ reader["stderr"] = "exit" => Len(logged) = wrote["stderr"]
    BY DEF EndOfOutputIsComplete
  <2>1. output = "closed" => \A s \in Feeders : \A k \in 1..wrote[s] : Received(s, k)
    BY FeedersAreStreams DEF OutputInv, DrainInv, NoSendOnClosedOutput
  <2>2. reader["stderr"] = "exit" => Len(pipe["stderr"]) = 0
    BY DEF OutputInv, DrainInv
  <2>3. wrote["stderr"] \in Nat
    BY DEF TypeOK
  <2> QED BY <2>1, <2>2, <2>3 DEF Received, UnitAt, OutputInv, LogInv
<1> QED BY <1>1, OutputCorrect, ChannelSafe, TypeCorrect, PTL

-----------------------------------------------------------------------------
(* Liveness.  Fairness speaks of what is enabled, which the prover cannot  *)
(* expand: Unhindered, an invariant of the runs, says what enables each    *)
(* goroutine.                                                              *)

(* Terminate has started its waiter, and a report means closed pipes. *)
WaitInv ==
  /\ Done => waiter # "none"
  /\ waiter = "sent" => readEnds = "closed" /\ stdin = "closed"

LEMMA WaitInductive == ASSUME WaitInv, TypeOK, [Next]_vars PROVE WaitInv'
<1> USE DEF WaitInv, Done, progVars, outVars, inVars, endVars, vars
<1>1. CASE TerminateBegin
  BY <1>1 DEF TerminateBegin
<1>2. CASE CloseStdin \/ Escalate \/ Terminated \/ GiveUp
  BY <1>2, RungFacts DEF CloseStdin, Escalate, Terminated, GiveUp, Sweep
<1>3. CASE Reap \/ WaitReturns
  BY <1>3 DEF Reap, WaitReturns
<1>4. CASE UNCHANGED <<ladder, waiter, readEnds, stdin>>
  BY <1>4
<1> QED
  BY <1>1, <1>2, <1>3, <1>4
  DEF Next, ProgramStep, ReaderStep, TerminateStep, CallerStep, WriteOut, ReadIn, CloseFd,
      Spawn, Die, Send, Read, ReadFails, Abandon, CloseOutput, Deliver

LEMMA AlwaysWaitInv == Spec => []WaitInv
<1>1. Init => WaitInv
  BY DEF Init, WaitInv, Done
<1> QED BY <1>1, WaitInductive, TypeCorrect, PTL DEF Spec

(* A program that may not fork has no descendants. *)
KinInv == CanSpawn \/ alive \subseteq {"child"}

LEMMA AlwaysKinInv == Spec => []KinInv
<1>1. Init => KinInv
  BY DEF Init, KinInv
<1>2. KinInv /\ [Next]_vars => KinInv'
  BY DEF KinInv, Next, ProgramStep, ReaderStep, TerminateStep, CallerStep, WriteOut, ReadIn,
     CloseFd, Spawn, Die, Send, Read, ReadFails, Abandon, CloseOutput, Deliver, CloseStdin,
     Escalate, Terminated, GiveUp, Sweep, Reap, WaitReturns, TerminateBegin,
     progVars, outVars, inVars, endVars, vars
<1> QED BY <1>1, <1>2, PTL DEF Spec

(* A stdin nobody can be written to through stays that way. *)
LEMMA SendFailsStays == ASSUME TypeOK, [Next]_vars, SendFails PROVE SendFails'
<1> USE DEF SendFails, Holders, progVars, outVars, inVars, endVars, vars
<1>1. CASE Spawn
  BY <1>1 DEF Spawn, Running, TypeOK, Procs
<1>2. ASSUME NEW p \in Procs, NEW f \in Fds, CloseFd(p, f) PROVE SendFails'
  BY <1>2 DEF CloseFd, TypeOK
<1>3. ASSUME NEW p \in Procs, Die(p) PROVE SendFails'
  BY <1>3 DEF Die, TypeOK
<1>4. CASE UNCHANGED <<alive, fds>> /\ (stdin' = stdin \/ stdin' = "closed")
  BY <1>4
<1> QED
  BY <1>1, <1>2, <1>3, <1>4
  DEF Next, ProgramStep, ReaderStep, TerminateStep, CallerStep, WriteOut, ReadIn,
     Send, Read, ReadFails, Abandon, CloseOutput, Deliver, CloseStdin,
     Escalate, Terminated, GiveUp, Sweep, Reap, WaitReturns, TerminateBegin

(* Only Terminate's first statement starts the ladder. *)
LEMMA IdleStays ==
  ASSUME ladder = "idle", ProgramStep \/ ReaderStep \/ TerminateStep
  PROVE  ladder' = "idle"
BY RungFacts
DEF ProgramStep, ReaderStep, TerminateStep, WriteOut, ReadIn, CloseFd, Spawn, Die,
    Read, ReadFails, Abandon, CloseOutput, CloseStdin, Escalate, Terminated, GiveUp,
    Reap, WaitReturns, Rungs, Signals, endVars

(* The ladder: from each rung the next or the end, whoever does not help.  *)
LEMMA LadderSteps ==
  ASSUME TypeOK, [Next]_vars
  PROVE  /\ ladder = "begun"   => (ladder = "begun")' \/ (ladder = "stdin")'
         /\ ladder = "stdin"   => (ladder = "stdin")' \/ (ladder = "SIGINT")' \/ (ladder = "returned")'
         /\ ladder = "SIGINT"  => (ladder = "SIGINT")' \/ (ladder = "SIGTERM")' \/ (ladder = "returned")'
         /\ ladder = "SIGTERM" => (ladder = "SIGTERM")' \/ (ladder = "SIGKILL")' \/ (ladder = "returned")'
         /\ ladder = "SIGKILL" => (ladder = "SIGKILL")' \/ (ladder = "returned")'
         /\ ladder = "returned" => (ladder = "returned")'
<1>1. CASE TerminateBegin \/ CloseStdin
  BY <1>1 DEF TerminateBegin, CloseStdin
<1>2. CASE Escalate
  BY <1>2, RungFacts DEF Escalate
<1>3. CASE Terminated \/ GiveUp
  BY <1>3 DEF Terminated, GiveUp, Sweep, Rungs, Signals
<1>4. CASE ladder' = ladder
  BY <1>4
<1> QED
  BY <1>1, <1>2, <1>3, <1>4
  DEF Next, ProgramStep, ReaderStep, TerminateStep, CallerStep, WriteOut, ReadIn, CloseFd,
      Spawn, Die, Send, Read, ReadFails, Abandon, CloseOutput, Deliver, Reap, WaitReturns,
      progVars, outVars, inVars, endVars, vars

LEMMA DoneStays == ASSUME TypeOK, [Next]_vars, Done PROVE Done'
BY LadderSteps DEF TypeOK, Done, Rungs, Signals

LEMMA LadderMoves ==
  ASSUME <<LadderRuns>>_vars
  PROVE  /\ ladder = "begun"   => (ladder = "stdin")'
         /\ ladder = "stdin"   => (ladder = "SIGINT")' \/ (ladder = "returned")'
         /\ ladder = "SIGINT"  => (ladder = "SIGTERM")' \/ (ladder = "returned")'
         /\ ladder = "SIGTERM" => (ladder = "SIGKILL")' \/ (ladder = "returned")'
         /\ ladder = "SIGKILL" => (ladder = "returned")'
<1>1. CASE CloseStdin
  BY <1>1 DEF CloseStdin
<1>2. CASE Escalate
  BY <1>2, RungFacts DEF Escalate
<1>3. CASE Terminated \/ GiveUp
  BY <1>3 DEF Terminated, GiveUp, Sweep, Rungs, Signals
<1> QED BY <1>1, <1>2, <1>3 DEF LadderRuns

LEMMA LadderEnds ==
  Spec /\ []LadderUnhindered /\ WF_vars(LadderRuns) => (Done ~> [](ladder = "returned"))
<1>1. TypeOK => /\ Done <=> \/ ladder = "begun" \/ ladder = "stdin" \/ ladder = "SIGINT"
                            \/ ladder = "SIGTERM" \/ ladder = "SIGKILL" \/ ladder = "returned"
                /\ Done => LadderMayRun \/ ladder = "returned"
  BY DEF TypeOK, Done, LadderMayRun, Rungs, Signals
<1> QED
  BY <1>1, LadderSteps, LadderMoves, TypeCorrect, PTL DEF Spec, LadderUnhindered

(* What Terminate left is killed, and a killed child does not come back.   *)
LEMMA ChildSteps ==
  ASSUME TypeOK, LadderInv, [Next]_vars
  PROVE  /\ ladder = "returned" => KernelMayKill("child") \/ "child" \notin alive
         /\ ladder = "returned" /\ KernelMayKill("child") =>
              KernelMayKill("child")' \/ ("child" \notin alive)'
         /\ "child" \notin alive => ("child" \notin alive)'
<1> USE DEF KernelMayKill, progVars, outVars, inVars, endVars, vars
<1>1. CASE Spawn
  BY <1>1 DEF Spawn, Running, LadderInv
<1>2. ASSUME NEW p \in Procs, Die(p)
      PROVE  /\ ladder = "returned" => KernelMayKill("child") \/ "child" \notin alive
             /\ ladder = "returned" /\ KernelMayKill("child") =>
                  KernelMayKill("child")' \/ ("child" \notin alive)'
             /\ "child" \notin alive => ("child" \notin alive)'
  BY <1>2 DEF Die, LadderInv
<1>3. CASE CloseStdin \/ Escalate \/ Terminated \/ GiveUp
  BY <1>3, RungFacts DEF CloseStdin, Escalate, Terminated, GiveUp, Sweep, LadderInv
<1>4. CASE UNCHANGED <<alive, killed>>
  BY <1>4 DEF LadderInv
<1> QED
  BY <1>1, <1>2, <1>3, <1>4
  DEF Next, ProgramStep, ReaderStep, TerminateStep, CallerStep, WriteOut, ReadIn, CloseFd,
      Send, Read, ReadFails, Abandon, CloseOutput, Deliver, Reap, WaitReturns, TerminateBegin

LEMMA ChildEnds ==
  Spec /\ []KernelUnhindered("child") /\ KillFairness("child")
    => ([](ladder = "returned") ~> []("child" \notin alive))
<1>1. <<KernelKills("child")>>_vars => ("child" \notin alive)'
  BY DEF KernelKills, Die
<1> QED
  BY <1>1, ChildSteps, TypeCorrect, LadderCorrect, PTL
  DEF Spec, KernelUnhindered, KillFairness

(* Then cmd.Wait returns and closes the pipes. *)
LEMMA WaiterSteps ==
  ASSUME DrainInv, [Next]_vars
  PROVE  /\ waiter = "waiting" => (waiter = "waiting")' \/ (waiter = "reaped")'
         /\ waiter = "reaped" => (waiter = "reaped")' \/ (waiter = "sent")'
         /\ waiter = "sent" \/ Done => (waiter = "sent" \/ Done)'
         /\ waiter = "sent" /\ Done => (waiter = "sent")'
<1>1. CASE Reap \/ WaitReturns
  BY <1>1 DEF Reap, WaitReturns, Done
<1>2. CASE TerminateBegin
  BY <1>2 DEF TerminateBegin, Done, DrainInv
<1>3. CASE CloseStdin \/ Escalate \/ Terminated \/ GiveUp
  BY <1>3, RungFacts DEF CloseStdin, Escalate, Terminated, GiveUp, Sweep, Done
<1>4. CASE UNCHANGED <<ladder, waiter>>
  BY <1>4 DEF Done
<1> QED
  BY <1>1, <1>2, <1>3, <1>4
  DEF Next, ProgramStep, ReaderStep, TerminateStep, CallerStep, WriteOut, ReadIn, CloseFd,
      Spawn, Die, Send, Read, ReadFails, Abandon, CloseOutput, Deliver,
      progVars, outVars, inVars, endVars, vars

LEMMA WaiterEnds ==
  Spec /\ []WaiterUnhindered /\ WF_vars(WaiterRuns)
    => ([]Done /\ []("child" \notin alive) ~> [](waiter = "sent"))
<1>0. OutputInv => DrainInv
  BY DEF OutputInv
<1>1. <<WaiterRuns>>_vars =>
        /\ waiter = "waiting" => (waiter = "reaped")'
        /\ waiter = "reaped" => (waiter = "sent")'
  BY DEF WaiterRuns, Reap, WaitReturns
<1>2. TypeOK /\ WaitInv /\ Done => waiter = "waiting" \/ waiter = "reaped" \/ waiter = "sent"
  BY DEF TypeOK, WaitInv
<1>3. "child" \notin alive /\ (waiter = "waiting" \/ waiter = "reaped") => WaiterMayRun
  BY DEF WaiterMayRun
<1> QED
  BY <1>0, <1>1, <1>2, <1>3, WaiterSteps, TypeCorrect, OutputCorrect, AlwaysWaitInv, PTL DEF Spec, WaiterUnhindered

(* A reader whose pipe is closed has what the pipe still holds to read and *)
(* no more.                                                                *)
Unread(s) == IF reader[s] = "send" THEN 2 * Len(pipe[s]) + 1 ELSE 2 * Len(pipe[s])

LEMMA ReaderSteps ==
  ASSUME NEW s \in Streams, TypeOK, [Next]_vars, readEnds = "closed"
  PROVE  /\ (readEnds = "closed")'
         /\ [Unread(s)' <= Unread(s)]_(Unread(s))
         /\ reader[s] = "exit" => (reader[s] = "exit")'
<1> USE DEF Unread, progVars, outVars, inVars, endVars, vars
<1>1. ASSUME NEW r \in Streams, Read(r) \/ ReadFails(r) \/ Abandon(r) \/ Deliver(r)
      PROVE  /\ (readEnds = "closed")'
             /\ [Unread(s)' <= Unread(s)]_(Unread(s))
             /\ reader[s] = "exit" => (reader[s] = "exit")'
  <2>1. CASE r # s
    <3>1. pipe'[s] = pipe[s] /\ reader'[s] = reader[s] /\ readEnds' = readEnds
      BY <1>1, <2>1 DEF Read, ReadFails, Abandon, Deliver, TypeOK
    <3> QED BY <3>1
  <2>2. CASE r = s /\ Read(s)
    <3>1. Len(pipe[s]) \in Nat /\ pipe'[s] = Tail(pipe[s]) /\ Len(Tail(pipe[s])) = Len(pipe[s]) - 1
      BY <2>2, TailFacts DEF Read, TypeOK
    <3>2. reader[s] = "read" /\ reader'[s] \in {"read", "send"} /\ readEnds' = readEnds
      BY <2>2 DEF Read, TypeOK
    <3>3. Unread(s) = 2 * Len(pipe[s]) /\ Unread(s)' \in {2 * Len(pipe'[s]), 2 * Len(pipe'[s]) + 1}
      BY <3>1, <3>2
    <3> QED BY <2>2, <3>1, <3>2, <3>3
  <2>3. CASE r = s /\ (ReadFails(s) \/ Abandon(s) \/ Deliver(s))
    <3>1. Len(pipe[s]) \in Nat /\ pipe' = pipe /\ readEnds' = readEnds
      BY <2>3 DEF ReadFails, Abandon, Deliver, TypeOK
    <3>2. reader[s] # "exit" /\ reader'[s] # "send"
      BY <2>3 DEF ReadFails, Abandon, Deliver, TypeOK
    <3> QED BY <3>1, <3>2
  <2> QED BY <1>1, <2>1, <2>2, <2>3
<1>2. CASE WaitReturns
  BY <1>2 DEF WaitReturns
<1>3. CASE UNCHANGED <<pipe, reader, readEnds>>
  BY <1>3
<1> QED
  BY <1>1, <1>2, <1>3
  DEF Next, ProgramStep, ReaderStep, TerminateStep, CallerStep, WriteOut, ReadIn, CloseFd,
      Spawn, Die, Send, CloseOutput, CloseStdin, Escalate, Terminated, GiveUp, Sweep, Reap,
      TerminateBegin

LEMMA ReaderMoves ==
  ASSUME NEW s \in Streams, TypeOK, <<ReaderRuns(s)>>_vars
  PROVE  (reader[s] = "exit")' \/ <<Unread(s)' < Unread(s)>>_(Unread(s))
<1>1. CASE Read(s)
  <2>1. Len(pipe[s]) \in Nat /\ pipe'[s] = Tail(pipe[s]) /\ Len(Tail(pipe[s])) = Len(pipe[s]) - 1
    BY <1>1, TailFacts DEF Read, TypeOK
  <2>2. reader[s] = "read" /\ reader'[s] \in {"read", "send"}
    BY <1>1 DEF Read, TypeOK
  <2>3. Unread(s) = 2 * Len(pipe[s]) /\ Unread(s)' \in {2 * Len(pipe'[s]), 2 * Len(pipe'[s]) + 1}
    BY <2>1, <2>2 DEF Unread
  <2> QED BY <2>1, <2>3
<1>2. CASE ReadFails(s) \/ Abandon(s)
  BY <1>2 DEF ReadFails, Abandon, TypeOK
<1> QED BY <1>1, <1>2 DEF ReaderRuns

UnreadDescends(s) == Descends(Unread(s))

ReaderPromise(s) ==
  Spec /\ []ReaderUnhindered(s) /\ ReaderFairness(s) /\ UnreadDescends(s)
    => ([]Done /\ (readEnds = "closed") ~> [](reader[s] = "exit"))

LEMMA ReaderEnds == ASSUME NEW s \in Streams PROVE ReaderPromise(s)
<1>1. TypeOK => Unread(s) \in Nat
  <2>1. TypeOK => Len(pipe[s]) \in Nat
    BY DEF TypeOK
  <2> QED BY <2>1 DEF Unread
<1>2. TypeOK /\ Done /\ readEnds = "closed" => ReaderMayRun(s) \/ reader[s] = "exit"
  BY DEF TypeOK, ReaderMayRun
<1> QED
  BY <1>1, <1>2, ReaderSteps, ReaderMoves, TypeCorrect, PTL
  DEF Spec, ReaderUnhindered, ReaderFairness, UnreadDescends, Descends, ReaderPromise

LEMMA OutputSteps ==
  ASSUME [Next]_vars
  PROVE  output = "closed" => (output = "closed")'
BY DEF Next, ProgramStep, ReaderStep, TerminateStep, CallerStep, WriteOut, ReadIn, CloseFd,
   Spawn, Die, Send, Read, ReadFails, Abandon, CloseOutput, Deliver, CloseStdin, Escalate,
   Terminated, GiveUp, Sweep, Reap, WaitReturns, TerminateBegin,
   progVars, outVars, inVars, endVars, vars

BothEnded == reader["stdout"] = "exit" /\ reader["stderr"] = "exit"

LEMMA OutputEnds ==
  Spec /\ []CloserUnhindered /\ WF_vars(CloseOutput) => ([]BothEnded ~> [](output = "closed"))
<1>1. <<CloseOutput>>_vars => (output = "closed")'
  BY DEF CloseOutput
<1>2. TypeOK /\ BothEnded => OutputMayClose \/ output = "closed"
  BY FeedersAreStreams DEF TypeOK, OutputMayClose, BothEnded, Streams
<1> QED
  BY <1>1, <1>2, OutputSteps, TypeCorrect, PTL DEF Spec, CloserUnhindered

(* What Terminate leaves, and the promise that the readers use up what the *)
(* pipes held.                                                             *)
Ended ==
  /\ ladder = "returned"
  /\ waiter = "sent"
  /\ \A s \in Streams : reader[s] = "exit"
  /\ output = "closed"

Measures == \A s \in Streams : UnreadDescends(s)

LEMMA TeardownStays ==
  FairSpec /\ []Unhindered /\ Measures => (Done ~> []Ended)
<1> DEFINE out == "stdout"
           err == "stderr"
<1>1. out \in Streams /\ err \in Streams /\ "child" \in Procs
  BY DEF Streams, Procs
<1>2. Measures => UnreadDescends(out) /\ UnreadDescends(err)
  BY <1>1 DEF Measures
<1>3. Fairness => /\ ReaderFairness(out) /\ ReaderFairness(err)
                  /\ WF_vars(CloseOutput) /\ WF_vars(LadderRuns) /\ WF_vars(WaiterRuns)
  <2>1. (\A s \in Streams : ReaderFairness(s)) => ReaderFairness(out) /\ ReaderFairness(err)
    BY <1>1
  <2> QED BY <2>1, PTL DEF Fairness
<1>4. KernelFairness => KillFairness("child")
  BY <1>1 DEF KernelFairness
<1>5. Unhindered => /\ ReaderUnhindered(out) /\ ReaderUnhindered(err)
                    /\ CloserUnhindered /\ LadderUnhindered /\ WaiterUnhindered
                    /\ KernelUnhindered("child")
  BY <1>1 DEF Unhindered
<1>6. WaitInv /\ waiter = "sent" => readEnds = "closed"
  BY DEF WaitInv
<1>7. reader[out] = "exit" /\ reader[err] = "exit" => BothEnded /\ \A s \in Streams : reader[s] = "exit"
  BY DEF BothEnded, Streams
<1>8. ReaderPromise(out) /\ ReaderPromise(err)
  BY <1>1, ReaderEnds
<1>9. ASSUME FairSpec, []Unhindered, Measures
      PROVE  /\ Done ~> [](ladder = "returned")
             /\ [](ladder = "returned") ~> []("child" \notin alive)
             /\ []Done /\ []("child" \notin alive) ~> [](waiter = "sent")
             /\ []Done /\ (readEnds = "closed") ~> [](reader[out] = "exit")
             /\ []Done /\ (readEnds = "closed") ~> [](reader[err] = "exit")
             /\ []BothEnded ~> [](output = "closed")
             /\ []WaitInv
  BY <1>2, <1>3, <1>4, <1>5, <1>8, <1>9, LadderEnds, ChildEnds, WaiterEnds, OutputEnds,
     AlwaysWaitInv, PTL DEF FairSpec, ReaderPromise
<1>10. ladder = "returned" => Done
  BY DEF Done
<1> QED
  BY <1>6, <1>7, <1>9, <1>10, PTL DEF Ended

(* Terminate always returns, cmd.Wait and both readers end and the channel *)
(* is closed, however many units are in flight and whatever the program,   *)
(* its descendants and the receiver do.                                    *)
THEOREM TeardownEnds ==
  FairSpec /\ []Unhindered /\ (\A s \in Streams : UnreadDescends(s)) => TeardownCompletes
<1>1. (\A s \in Streams : UnreadDescends(s)) => Measures
  BY DEF Measures
<1> QED
  BY <1>1, TeardownStays, PTL DEF TeardownCompletes, Ended

(* A full stderr pipe is drained by its reader, unless the reader waits    *)
(* for the relay or the teardown has begun.                                *)
FullPipe == Len(pipe["stderr"]) = PipeCap

Drains == Len(pipe["stderr"]) < PipeCap \/ reader["stderr"] = "send" \/ Done

LEMMA StderrSteps ==
  ASSUME TypeOK, [Next]_vars, FullPipe, ~Drains
  PROVE  FullPipe' \/ Drains'
<1>1. pipe \in [Streams -> Seq(Unit)] /\ "stderr" \in Streams
  BY DEF TypeOK, Streams
<1>2. TypeOK'
  BY TypeInductive
<1>3. Len(pipe'["stderr"]) \in Nat /\ Len(pipe'["stderr"]) <= PipeCap /\ PipeCap \in Nat
  BY <1>1, <1>2, ConstantsOK DEF TypeOK, ConstantsOK
<1> QED BY <1>3 DEF FullPipe, Drains

LEMMA StderrMoves ==
  ASSUME TypeOK, OutputInv, <<ReaderRuns("stderr")>>_vars, FullPipe, ~Drains
  PROVE  Drains'
<1>1. pipe \in [Streams -> Seq(Unit)] /\ "stderr" \in Streams /\ PipeCap \in Nat \ {0}
  BY ConstantsOK DEF TypeOK, Streams, ConstantsOK
<1>2. Len(pipe["stderr"]) = PipeCap /\ pipe["stderr"] # <<>>
  BY <1>1 DEF FullPipe
<1>3. CASE Read("stderr")
  <2>1. Len(Tail(pipe["stderr"])) = PipeCap - 1
    BY <1>1, <1>2, TailFacts
  <2>2. pipe'["stderr"] = Tail(pipe["stderr"])
    BY <1>1, <1>3 DEF Read
  <2> QED BY <1>1, <2>1, <2>2 DEF Drains
<1>4. CASE ReadFails("stderr") \/ Abandon("stderr")
  BY <1>2, <1>4 DEF ReadFails, Abandon, Drains, OutputInv, DrainInv
<1> QED BY <1>3, <1>4 DEF ReaderRuns

THEOREM StderrDrains == FairSpec /\ []Unhindered => StderrKeepsDraining
<1> DEFINE err == "stderr"
<1>1. err \in Streams
  BY DEF Streams
<1>2. TypeOK /\ OutputInv /\ FullPipe /\ ~Drains => ReaderMayRun(err)
  <2> SUFFICES ASSUME TypeOK, OutputInv, FullPipe, ~Drains PROVE ReaderMayRun(err)
    OBVIOUS
  <2>1. pipe[err] # <<>>
    BY <1>1, ConstantsOK DEF FullPipe, ConstantsOK
  <2>2. reader[err] = "read"
    BY <1>1, <2>1 DEF OutputInv, DrainInv, Drains, TypeOK
  <2> QED BY <2>1, <2>2 DEF ReaderMayRun
<1>3. Fairness => ReaderFairness(err)
  <2>1. (\A s \in Streams : ReaderFairness(s)) => ReaderFairness(err)
    BY <1>1
  <2> QED BY <2>1, PTL DEF Fairness
<1>4. Unhindered => ReaderUnhindered(err)
  BY <1>1 DEF Unhindered
<1>5. FairSpec /\ []Unhindered => (FullPipe ~> Drains)
  BY <1>2, <1>3, <1>4, StderrSteps, StderrMoves, TypeCorrect, OutputCorrect, PTL
  DEF FairSpec, Spec, ReaderFairness, ReaderUnhindered
<1> QED
  BY <1>5 DEF StderrKeepsDraining, FullPipe, Drains

-----------------------------------------------------------------------------
(* Framing: each unit of output is the piece of the stream it should be.   *)

LEMMA LeastExists ==
  ASSUME NEW S, S \subseteq Nat, S # {}
  PROVE  \E i \in S : \A j \in S : i <= j
<1> DEFINE R == {q \in Nat \X Nat : q[1] < q[2]}
<1>1. IsWellFoundedOn(R, Nat)
  BY NatLessThanWellFounded DEF OpToRel
<1> HIDE DEF R
<1>2. PICK i \in S : \A j \in S : <<j, i>> \notin R
  BY <1>1, WFMin
<1>3. \A j \in S : ~(j < i)
  BY <1>2 DEF R
<1> QED
  BY <1>2, <1>3

LEMMA EarliestExists ==
  ASSUME NEW S, S \subseteq Nat, S # {}
  PROVE  Earliest(S) \in S /\ \A j \in S : Earliest(S) <= j
BY LeastExists DEF Earliest

LEMMA InitialPart ==
  ASSUME NEW S, NEW q \in Seq(S), NEW k \in 0..Len(q)
  PROVE  /\ SubSeq(q, 1, k) \in Seq(S)
         /\ Len(SubSeq(q, 1, k)) = k
         /\ \A i \in 1..k : SubSeq(q, 1, k)[i] = q[i]
<1>1. CASE k = 0
  BY <1>1, SubSeqEmpty
<1>2. CASE k > 0
  BY <1>2, SubSeqProperties
<1> QED
  BY <1>1, <1>2

(* A message of stdout is the text up to the next newline (relayStdout,    *)
(* ReadBytes): the read stops there and nowhere else, and it fails only if *)
(* no newline is left, so that no complete line is ever held back.         *)
THEOREM StdoutReadsOneLine ==
  ASSUME NEW Bytes, NEW s \in Seq(Bytes), NEW p \in 0..Len(s)
  PROVE  LET r == ReadBytes(s, p)
         IN /\ r.err = "nil" =>
                 /\ r.to \in (p + 1)..Len(s)
                 /\ s[r.to] = LF
                 /\ \A i \in (p + 1)..(r.to - 1) : s[i] # LF
            /\ r.err # "nil" => \A i \in (p + 1)..Len(s) : s[i] # LF
<1> DEFINE E == NewlinesAfter(s, p)
<1>1. E \subseteq Nat
  BY DEF NewlinesAfter
<1>2. CASE E = {}
  BY <1>2 DEF ReadBytes, NewlinesAfter
<1>3. CASE E # {}
  <2>1. Earliest(E) \in E /\ \A j \in E : Earliest(E) <= j
    BY <1>1, <1>3, EarliestExists
  <2>2. ReadBytes(s, p) = [to |-> Earliest(E), err |-> "nil"]
    BY <1>3 DEF ReadBytes
  <2>3. \A i \in (p + 1)..(Earliest(E) - 1) : s[i] # LF
    BY <2>1 DEF NewlinesAfter
  <2> QED
    BY <2>1, <2>2, <2>3 DEF NewlinesAfter
<1> QED
  BY <1>2, <1>3

(* A line of stderr longer than the reader's buffer neither ends the relay *)
(* nor loses a byte (relayStderr, ReadSlice): a chunk holds at most one    *)
(* buffer and no newline but its last byte, a full one moves on by a whole *)
(* buffer, and the read that reports end of file has all the rest.         *)
THEOREM StderrReadsOneChunk ==
  ASSUME NEW Bytes, NEW s \in Seq(Bytes), NEW p \in 0..Len(s),
         NEW size \in Nat \ {0}
  PROVE  LET r == ReadSlice(s, p, size)
         IN /\ r.to \in p..Len(s)
            /\ r.to <= p + size
            /\ \A i \in (p + 1)..(r.to - 1) : s[i] # LF
            /\ r.err = "nil" => r.to > p /\ s[r.to] = LF
            /\ r.err = "ErrBufferFull" => r.to = p + size
            /\ r.err \notin {"nil", "ErrBufferFull"} => r.to = Len(s)
<1> DEFINE E == {i \in NewlinesAfter(s, p) : i <= p + size}
<1>1. E \subseteq Nat
  BY DEF NewlinesAfter
<1>2. CASE E = {}
  <2>1. \A i \in (p + 1)..Len(s) : i <= p + size => s[i] # LF
    BY <1>2 DEF NewlinesAfter
  <2>2. CASE p + size <= Len(s)
    <3>1. ReadSlice(s, p, size) = [to |-> p + size, err |-> "ErrBufferFull"]
      BY <1>2, <2>2 DEF ReadSlice
    <3> QED
      BY <2>1, <2>2, <3>1
  <2>3. CASE ~(p + size <= Len(s))
    <3>1. ReadSlice(s, p, size) = [to |-> Len(s), err |-> "EOF"]
      BY <1>2, <2>3 DEF ReadSlice
    <3> QED
      BY <2>1, <2>3, <3>1
  <2> QED
    BY <2>2, <2>3
<1>3. CASE E # {}
  <2>1. Earliest(E) \in E /\ \A j \in E : Earliest(E) <= j
    BY <1>1, <1>3, EarliestExists
  <2>2. ReadSlice(s, p, size) = [to |-> Earliest(E), err |-> "nil"]
    BY <1>3 DEF ReadSlice
  <2>3. \A i \in (p + 1)..(Earliest(E) - 1) : s[i] # LF
    BY <2>1 DEF NewlinesAfter
  <2> QED
    BY <2>1, <2>2, <2>3 DEF NewlinesAfter
<1> QED
  BY <1>2, <1>3

(* trimEOL takes one "\n" or "\r\n" from the end of a piece and nothing    *)
(* else, and the pieces the reads return have no newline left after it: no *)
(* message a client gets holds a newline, and the end of line is all that  *)
(* is missing from it.                                                     *)
THEOREM TrimTakesTheEndOnly ==
  ASSUME NEW Bytes, NEW b \in Seq(Bytes),
         \A i \in 1..(Len(b) - 1) : b[i] # LF
  PROVE  /\ \E eol \in {<<>>, <<LF>>, <<CR, LF>>} : b = trimEOL(b) \o eol
         /\ \A i \in 1..Len(trimEOL(b)) : trimEOL(b)[i] # LF
<1> DEFINE n == Len(b)
<1>0. n \in Nat
  OBVIOUS
<1>1. CASE n = 0 \/ b[n] # LF
  <2>1. trimEOL(b) = b
    BY <1>1 DEF trimEOL
  <2>2. b = b \o <<>>
    OBVIOUS
  <2>3. \A i \in 1..n : b[i] # LF
    BY <1>0, <1>1
  <2> QED
    BY <2>1, <2>2, <2>3
<1>2. CASE n # 0 /\ b[n] = LF /\ n > 1 /\ b[n - 1] = CR
  <2>1. trimEOL(b) = SubSeq(b, 1, n - 2)
    BY <1>0, <1>2 DEF trimEOL
  <2>0. n - 2 \in 0..Len(b)
    BY <1>0, <1>2
  <2>2. /\ Len(SubSeq(b, 1, n - 2)) = n - 2
        /\ \A i \in 1..(n - 2) : SubSeq(b, 1, n - 2)[i] = b[i]
    BY <2>0, InitialPart
  <2>3. b = SubSeq(b, 1, n - 2) \o <<CR, LF>>
    BY <1>0, <1>2
  <2>4. \A i \in 1..(n - 2) : SubSeq(b, 1, n - 2)[i] # LF
    BY <2>2, <1>0, <1>2
  <2> QED
    BY <2>1, <2>2, <2>3, <2>4
<1>3. CASE n # 0 /\ b[n] = LF /\ ~(n > 1 /\ b[n - 1] = CR)
  <2>1. trimEOL(b) = SubSeq(b, 1, n - 1)
    BY <1>0, <1>3 DEF trimEOL
  <2>0. n - 1 \in 0..Len(b)
    BY <1>0, <1>3
  <2>2. /\ Len(SubSeq(b, 1, n - 1)) = n - 1
        /\ \A i \in 1..(n - 1) : SubSeq(b, 1, n - 1)[i] = b[i]
    BY <2>0, InitialPart
  <2>3. b = SubSeq(b, 1, n - 1) \o <<LF>>
    BY <1>0, <1>3
  <2>4. \A i \in 1..(n - 1) : SubSeq(b, 1, n - 1)[i] # LF
    BY <2>2, <1>0, <1>3
  <2> QED
    BY <2>1, <2>2, <2>3, <2>4
<1> QED
  BY <1>1, <1>2, <1>3

(* A message of the client that is one line and does not end in a carriage *)
(* return is one line on the program's stdin (readFrames), and a program   *)
(* that writes the same bytes to its stdout, after and before any others,  *)
(* sends that message back: the read from its first byte returns it, and   *)
(* the next read starts at the byte after.                                 *)
THEOREM CopiedMessageComesBack ==
  ASSUME NEW Bytes, LF \in Bytes, NEW m \in Seq(Bytes),
         \A i \in 1..Len(m) : m[i] # LF,
         m # <<>> => m[Len(m)] # CR,
         NEW before \in Seq(Bytes), NEW after \in Seq(Bytes)
  PROVE  LET line == Posted(m, FALSE, FALSE)
             s == before \o line \o after
             r == ReadBytes(s, Len(before))
         IN /\ r = [to |-> Len(before) + Len(line), err |-> "nil"]
            /\ trimEOL(SubSeq(s, Len(before) + 1, r.to)) = m
<1> DEFINE line == Posted(m, FALSE, FALSE)
           s == before \o line \o after
           p == Len(before)
           n == Len(m)
           r == ReadBytes(s, p)
<1>1. /\ line \in Seq(Bytes)
      /\ line = Append(m, LF)
      /\ Len(line) = n + 1
      /\ line[n + 1] = LF
      /\ \A i \in 1..n : line[i] = m[i]
  BY DEF Posted
<1> HIDE DEF line
<1>2. /\ s \in Seq(Bytes)
      /\ p \in 0..Len(s)
      /\ Len(s) = p + n + 1 + Len(after)
      /\ \A i \in 1..(n + 1) : s[p + i] = line[i]
  BY <1>1
<1> HIDE DEF s
<1>3. SubSeq(s, p + 1, p + n + 1) = line
  <2> DEFINE piece == SubSeq(s, p + 1, p + n + 1)
  <2>1. p \in Nat /\ n \in Nat /\ \A i \in (p + 1)..(p + n + 1) : s[i] \in Bytes
    BY <1>2
  <2>2. /\ piece \in Seq(Bytes)
        /\ Len(piece) = n + 1
        /\ \A i \in 1..(n + 1) : piece[i] = s[p + i]
    BY <2>1, SubSeqProperties
  <2> HIDE DEF piece
  <2>3. Len(piece) = Len(line) /\ \A i \in 1..Len(piece) : piece[i] = line[i]
    BY <1>1, <1>2, <2>2
  <2>4. piece = line
    BY <1>1, <2>2, <2>3, SeqEqual
  <2> QED
    BY <2>4 DEF piece
<1>4. s[p + n + 1] = LF
  BY <1>1, <1>2
<1>5. \A i \in (p + 1)..(p + n) : s[i] # LF
  <2> SUFFICES ASSUME NEW i \in (p + 1)..(p + n)
               PROVE  s[i] # LF
    OBVIOUS
  <2>1. p \in Nat /\ n \in Nat
    BY <1>2
  <2>2. PICK k \in 1..n : i = p + k
    <3>1. i - p \in 1..n /\ i = p + (i - p)
      BY <2>1
    <3> QED
      BY <3>1
  <2>3. k \in 1..(n + 1) /\ s[p + k] = line[k]
    BY <1>2, <2>1
  <2>4. line[k] = m[k] /\ m[k] # LF
    BY <1>1
  <2>5. s[p + k] # LF
    BY <2>3, <2>4
  <2> QED
    BY <2>2, <2>5
<1>6. r = [to |-> p + n + 1, err |-> "nil"]
  <2>1. p + n + 1 \in (p + 1)..Len(s)
    BY <1>2
  <2>2. p + n + 1 \in NewlinesAfter(s, p)
    BY <2>1, <1>4 DEF NewlinesAfter
  <2>3. /\ Earliest(NewlinesAfter(s, p)) \in NewlinesAfter(s, p)
        /\ \A j \in NewlinesAfter(s, p) : Earliest(NewlinesAfter(s, p)) <= j
    <3>1. NewlinesAfter(s, p) \subseteq Nat
      BY <1>2 DEF NewlinesAfter
    <3> QED
      BY <2>2, <3>1, EarliestExists
  <2>4. Earliest(NewlinesAfter(s, p)) = p + n + 1
    BY <1>5, <2>2, <2>3 DEF NewlinesAfter
  <2> QED
    BY <2>2, <2>4 DEF ReadBytes
<1>7. trimEOL(line) = m
  <2>1. ~(Len(line) > 1 /\ line[Len(line) - 1] = CR)
    BY <1>1
  <2>2. trimEOL(line) = SubSeq(line, 1, n)
    BY <1>1, <2>1 DEF trimEOL
  <2> QED
    BY <1>1, <2>2
<1> QED
  <2>1. r.to = p + n + 1 /\ r = [to |-> p + Len(line), err |-> "nil"]
    BY <1>1, <1>2, <1>6
  <2>2. trimEOL(SubSeq(s, p + 1, r.to)) = m
    BY <1>3, <1>7, <2>1
  <2> QED
    BY <2>1, <2>2 DEF line, s
=============================================================================

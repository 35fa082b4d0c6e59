---------------------------- MODULE ServerProofs ----------------------------
(***************************************************************************)
(* Proofs about Server: whatever the number of requests and the limit, the *)
(* channel of slots counts the handlers that hold one, the programs stay   *)
(* within the limit, and the server implements ForkSlots.                  *)
(***************************************************************************)
EXTENDS Server, Integers, FiniteSetTheorems, TLAPS

(* A slot is held from noteForkCreated to noteForkCompleted, and a program *)
(* runs only in between.                                                   *)
ProgramsHeld ==
  \A r \in Requests : program[r] = "running" => pc[r] \in {"session", "cgi"}

(* A handler that has not finished has given no answer but what it wrote   *)
(* on the way, and none of those is a refusal.                             *)
RefusedHoldNothing ==
  \A r \in Requests : answer[r] = "429" => pc[r] = "done"

Inv ==
  /\ TypeOK
  /\ IsFiniteSet(Holders)
  /\ SlotsMatchHolders
  /\ ProgramsHeld
  /\ RefusedHoldNothing

-----------------------------------------------------------------------------
(* How the set of holders changes with one request's place.                *)

(* A handler that goes from a place without a slot to one with it. *)
LEMMA HoldersGrow ==
  ASSUME TypeOK, NEW r \in Requests, NEW place \in Holding,
         pc[r] \notin Holding, Goto(r, place)
  PROVE  Holders' = Holders \cup {r} /\ r \notin Holders
BY DEF TypeOK, Holders, Goto

(* A handler that goes from a place with a slot to one without. *)
LEMMA HoldersShrink ==
  ASSUME TypeOK, NEW r \in Requests, NEW place, place \notin Holding,
         pc[r] \in Holding, Goto(r, place)
  PROVE  Holders' = Holders \ {r} /\ r \in Holders
BY DEF TypeOK, Holders, Goto

(* A handler that stays on its side. *)
LEMMA HoldersStay ==
  ASSUME TypeOK, NEW r \in Requests, NEW place, Goto(r, place),
         pc[r] \in Holding <=> place \in Holding
  PROVE  Holders' = Holders
BY DEF TypeOK, Holders, Goto

(* What noteForkCreated does to the count of tokens. *)
LEMMA CountGrows ==
  ASSUME Inv, NEW r \in Requests, r \notin Holders, Holders' = Holders \cup {r},
         SlotFree, NoteForkCreated
  PROVE  /\ IsFiniteSet(Holders)'
         /\ forks' \in 0..MaxForks
         /\ SlotsMatchHolders'
<1>1. /\ IsFiniteSet(Holders \cup {r})
      /\ Cardinality(Holders \cup {r}) = Cardinality(Holders) + 1
  BY FS_AddElement DEF Inv
<1>2. Cardinality(Holders) \in Nat
  BY FS_CardinalityType DEF Inv
<1>3. Cardinality(Holders') = Cardinality(Holders) + 1
  BY <1>1
<1> HIDE DEF Holders
<1>4. forks' \in 0..MaxForks /\ SlotsMatchHolders'
  BY <1>2, <1>3, MaxForksOK DEF Inv, TypeOK, SlotsMatchHolders, SlotFree, NoteForkCreated
<1> QED
  BY <1>1, <1>4

(* What noteForkCompleted does to it: its default case is never taken      *)
(* where there is a channel.                                               *)
LEMMA CountShrinks ==
  ASSUME Inv, NEW r \in Requests, r \in Holders, Holders' = Holders \ {r},
         NoteForkCompleted
  PROVE  /\ IsFiniteSet(Holders)'
         /\ forks' \in 0..MaxForks
         /\ SlotsMatchHolders'
<1>1. /\ IsFiniteSet(Holders \ {r})
      /\ Cardinality(Holders \ {r}) = Cardinality(Holders) - 1
  BY FS_RemoveElement DEF Inv
<1>2. Cardinality(Holders) \in Nat /\ Cardinality(Holders) # 0
  BY FS_CardinalityType, FS_EmptySet DEF Inv
<1>3. Cardinality(Holders') = Cardinality(Holders) - 1
  BY <1>1
<1> HIDE DEF Holders
<1>4. forks' \in 0..MaxForks /\ SlotsMatchHolders'
  BY <1>2, <1>3, MaxForksOK DEF Inv, TypeOK, SlotsMatchHolders, NoteForkCompleted
<1> QED
  BY <1>1, <1>4

(* Nothing happens to it where neither is called. *)
LEMMA CountStays ==
  ASSUME Inv, Holders' = Holders, UNCHANGED forks
  PROVE  /\ IsFiniteSet(Holders)'
         /\ forks' \in 0..MaxForks
         /\ SlotsMatchHolders'
BY DEF Inv, TypeOK, SlotsMatchHolders

-----------------------------------------------------------------------------
(* The inductive invariant.                                                *)

LEMMA InitInv == Init => Inv
<1> SUFFICES ASSUME Init PROVE Inv
  OBVIOUS
<1>1. Holders = {}
  BY DEF Init, Holders, Holding
<1>2. IsFiniteSet(Holders) /\ Cardinality(Holders) = 0
  BY <1>1, FS_EmptySet
<1>3. TypeOK /\ ProgramsHeld /\ RefusedHoldNothing
  BY MaxForksOK DEF Init, TypeOK, Kinds, ProgramsHeld, RefusedHoldNothing
<1>4. SlotsMatchHolders
  BY <1>2 DEF Init, SlotsMatchHolders
<1> QED
  BY <1>2, <1>3, <1>4 DEF Inv

(* The parts of the invariant that do not count, and what each step does   *)
(* to the set of holders.                                                  *)
LEMMA HandlerKeeps ==
  ASSUME Inv, NEW r \in Requests, HandlerStep(r) \/ ProgramExits(r)
  PROVE  /\ kind' \in [Requests -> Kinds]
         /\ pc' \in [Requests -> {"mux", "done"} \cup Holding]
         /\ answer' \in [Requests -> {"none", "101", "403", "404", "429", "500", "cgi", "other"}]
         /\ program' \in [Requests -> {"none", "running", "killed", "gone"}]
         /\ ProgramsHeld'
         /\ RefusedHoldNothing'
<1> USE DEF Inv, TypeOK, Goto, Reply, ProgramsHeld, RefusedHoldNothing, Holding
<1>1. CASE TakeSlot(r)
  BY <1>1 DEF TakeSlot
<1>2. CASE TurnAway(r)
  BY <1>2 DEF TurnAway
<1>3. CASE ServeOther(r)
  BY <1>3 DEF ServeOther
<1>4. CASE Resolve(r)
  BY <1>4 DEF Resolve
<1>5. CASE Upgrade(r)
  BY <1>5 DEF Upgrade
<1>6. CASE Launch(r)
  BY <1>6 DEF Launch
<1>7. CASE SessionEnds(r)
  BY <1>7 DEF SessionEnds
<1>8. CASE RunScript(r)
  BY <1>8 DEF RunScript
<1>9. CASE ScriptEnds(r)
  BY <1>9 DEF ScriptEnds
<1>10. CASE ReleaseSlot(r)
  BY <1>10 DEF ReleaseSlot
<1>11. CASE ProgramExits(r)
  BY <1>11 DEF ProgramExits
<1> QED
  BY <1>1, <1>2, <1>3, <1>4, <1>5, <1>6, <1>7, <1>8, <1>9, <1>10, <1>11
  DEF HandlerStep

(* TakeSlot adds the request to the holders, ReleaseSlot removes it, and   *)
(* every other step leaves holders and tokens alone.                       *)
LEMMA HandlerMovesSlots ==
  ASSUME TypeOK, NEW r \in Requests, HandlerStep(r) \/ ProgramExits(r)
  PROVE  \/ TakeSlot(r) /\ r \notin Holders /\ Holders' = Holders \cup {r}
         \/ ReleaseSlot(r) /\ r \in Holders /\ Holders' = Holders \ {r}
         \/ ~TakeSlot(r) /\ ~ReleaseSlot(r) /\ Holders' = Holders /\ UNCHANGED forks
<1>1. CASE TakeSlot(r)
  <2>1. pc[r] \notin Holding /\ {"handler", "cgi"} \subseteq Holding
    BY <1>1 DEF TakeSlot, Holding
  <2>2. \E place \in Holding : Goto(r, place)
    BY <1>1, <2>1 DEF TakeSlot
  <2> QED
    BY <1>1, <2>1, <2>2, HoldersGrow
<1>2. CASE ReleaseSlot(r)
  <2>1. pc[r] \in Holding /\ "done" \notin Holding /\ Goto(r, "done")
    BY <1>2 DEF ReleaseSlot, Holding
  <2> QED
    BY <1>2, <2>1, HoldersShrink
<1>3. CASE TurnAway(r) \/ ServeOther(r)
  <2>1. pc[r] \notin Holding /\ "done" \notin Holding /\ Goto(r, "done") /\ UNCHANGED forks
    BY <1>3 DEF TurnAway, ServeOther, Holding
  <2>2. Holders' = Holders
    BY <2>1, HoldersStay
  <2>3. ~TakeSlot(r) /\ ~ReleaseSlot(r)
    BY <1>3, "done" \notin {"handler", "cgi"} DEF TypeOK, TurnAway, ServeOther, TakeSlot, ReleaseSlot, Goto, Holding
  <2> QED
    BY <2>1, <2>2, <2>3
<1>4. CASE Resolve(r) \/ Upgrade(r) \/ Launch(r) \/ SessionEnds(r) \/ ScriptEnds(r)
  <2>1. pc[r] \in Holding
    BY <1>4 DEF Resolve, Upgrade, Launch, SessionEnds, ScriptEnds, Holding
  <2>2. \E place \in Holding : Goto(r, place)
    BY <1>4 DEF Resolve, Upgrade, Launch, SessionEnds, ScriptEnds, Holding
  <2>3. Holders' = Holders
    BY <2>1, <2>2, HoldersStay
  <2>4. ~TakeSlot(r) /\ ~ReleaseSlot(r) /\ UNCHANGED forks
    BY <1>4 DEF Resolve, Upgrade, Launch, SessionEnds, ScriptEnds, TakeSlot, ReleaseSlot
  <2> QED
    BY <2>3, <2>4
<1>5. CASE RunScript(r) \/ ProgramExits(r)
  <2>1. Holders' = Holders /\ UNCHANGED <<pc, forks, kind>>
    BY <1>5 DEF RunScript, ProgramExits, Holders
  <2>2. ~TakeSlot(r) /\ ~ReleaseSlot(r)
    BY <1>5, <2>1 DEF TypeOK, RunScript, ProgramExits, TakeSlot, ReleaseSlot, Goto
  <2> QED
    BY <2>1, <2>2
<1> QED
  BY <1>1, <1>2, <1>3, <1>4, <1>5 DEF HandlerStep

LEMMA NextInv == Inv /\ [Next]_vars => Inv'
<1> SUFFICES ASSUME Inv, [Next]_vars PROVE Inv'
  OBVIOUS
<1>1. CASE UNCHANGED vars
  BY <1>1 DEF vars, Inv, TypeOK, SlotsMatchHolders, Holders, ProgramsHeld, RefusedHoldNothing
<1>2. ASSUME NEW r \in Requests, HandlerStep(r) \/ ProgramExits(r)
      PROVE  Inv'
  <2>1. TypeOK
    BY DEF Inv
  <2>2. IsFiniteSet(Holders)' /\ forks' \in 0..MaxForks /\ SlotsMatchHolders'
    <3>1. CASE TakeSlot(r) /\ r \notin Holders /\ Holders' = Holders \cup {r}
      BY <3>1, CountGrows DEF TakeSlot
    <3>2. CASE ReleaseSlot(r) /\ r \in Holders /\ Holders' = Holders \ {r}
      BY <3>2, CountShrinks DEF ReleaseSlot
    <3>3. CASE Holders' = Holders /\ UNCHANGED forks
      BY <3>3, CountStays
    <3> QED
      BY <1>2, <2>1, <3>1, <3>2, <3>3, HandlerMovesSlots
  <2> QED
    BY <1>2, <2>2, HandlerKeeps DEF Inv, TypeOK
<1> QED
  BY <1>1, <1>2 DEF Next

LEMMA SpecInv == Spec => []Inv
BY InitInv, NextInv, PTL DEF Spec

-----------------------------------------------------------------------------
(* Theorems.                                                               *)

(* The channel of slots holds exactly one token per handler between its    *)
(* noteForkCreated and its noteForkCompleted.                              *)
THEOREM SlotsCounted == Spec => []SlotsMatchHolders
<1>1. Inv => SlotsMatchHolders
  BY DEF Inv
<1> QED
  BY <1>1, SpecInv, PTL

(* No more than MaxForks programs run that were not sent SIGKILL. *)
THEOREM ProgramsStayBounded == Spec => []ProgramsBounded
<1>1. Inv => ProgramsBounded
  <2> SUFFICES ASSUME Inv, MaxForks > 0
               PROVE  Cardinality({r \in Requests : program[r] = "running"}) <= MaxForks
    BY DEF ProgramsBounded
  <2> DEFINE Running == {r \in Requests : program[r] = "running"}
  <2>1. Running \in SUBSET Holders
    BY DEF Inv, ProgramsHeld, Holders, Holding
  <2>2. IsFiniteSet(Running) /\ Cardinality(Running) <= Cardinality(Holders)
    BY <2>1, FS_Subset DEF Inv
  <2>3. Cardinality(Holders) <= MaxForks
    BY MaxForksOK DEF Inv, TypeOK, SlotsMatchHolders
  <2>4. Cardinality(Running) \in Nat /\ Cardinality(Holders) \in Nat
    BY <2>2, FS_CardinalityType DEF Inv
  <2> HIDE DEF Running
  <2>5. Cardinality(Running) <= MaxForks
    BY <2>2, <2>3, <2>4, MaxForksOK
  <2> QED
    BY <2>5 DEF Running
<1> QED
  BY <1>1, SpecInv, PTL

-----------------------------------------------------------------------------
(* Server implements ForkSlots.                                            *)

Refused == {r \in Requests : answer[r] = "429"}

(* Only TurnAway adds to the refused. *)
LEMMA HandlerRefuses ==
  ASSUME Inv, NEW r \in Requests, HandlerStep(r) \/ ProgramExits(r)
  PROVE  Refused' = IF TurnAway(r) THEN Refused \cup {r} ELSE Refused
<1> USE DEF Inv, TypeOK, Reply, Refused
<1>1. CASE TurnAway(r)
  BY <1>1 DEF TurnAway
<1>2. CASE ServeOther(r) \/ Resolve(r) \/ Upgrade(r) \/ ScriptEnds(r)
  <2>1. ~TurnAway(r)
    BY <1>2 DEF ServeOther, Resolve, Upgrade, ScriptEnds, TurnAway
  <2>2. answer[r] # "429"
    BY <1>2 DEF ServeOther, Resolve, Upgrade, ScriptEnds, RefusedHoldNothing
  <2>3. answer' = answer \/ \E what : what # "429" /\ Reply(r, what)
    BY <1>2 DEF ServeOther, Resolve, Upgrade, ScriptEnds
  <2> QED
    BY <2>1, <2>2, <2>3
<1>3. CASE UNCHANGED answer
  <2>1. ~TurnAway(r)
    <3> SUFFICES ASSUME TurnAway(r) PROVE FALSE
      OBVIOUS
    <3>1. answer[r] = "429"
      BY <1>3 DEF TurnAway
    <3> QED
      BY <3>1 DEF TurnAway, RefusedHoldNothing
  <2> QED
    BY <1>3, <2>1
<1> QED
  BY <1>1, <1>2, <1>3
  DEF HandlerStep, TakeSlot, Launch, SessionEnds, RunScript, ReleaseSlot, ProgramExits

(* A slot is free exactly while the abstract server is not full. *)
LEMMA FreeIsNotFull == Inv => (SlotFree <=> ~F!Full)
<1> SUFFICES ASSUME Inv PROVE SlotFree <=> ~F!Full
  OBVIOUS
<1>1. Cardinality(Holders) \in Nat
  BY FS_CardinalityType DEF Inv
<1>2. F!Cardinality(Holders) = Cardinality(Holders)
  BY Zenon DEF F!Cardinality, Cardinality
<1> HIDE DEF Holders
<1> QED
  BY <1>1, <1>2, MaxForksOK DEF Inv, TypeOK, SlotsMatchHolders, SlotFree, F!Full

(* The server keeps what ForkSlots promises: at most MaxForks holders, 429 *)
(* only while they are that many, a slot given back once, by its holder.   *)
THEOREM ServerImplementsForkSlots == Spec => ImplementsForkSlots
<1>1. Init => F!Init
  BY DEF Init, F!Init, Holders, Holding
<1>2. Inv /\ [Next]_vars => [F!Next]_(F!vars)
  <2> SUFFICES ASSUME Inv, [Next]_vars PROVE [F!Next]_(F!vars)
    OBVIOUS
  <2>1. CASE UNCHANGED vars
    BY <2>1 DEF vars, F!vars, Holders
  <2>2. ASSUME NEW r \in Requests, HandlerStep(r) \/ ProgramExits(r)
        PROVE  [F!Next]_(F!vars)
    <3>1. Refused' = IF TurnAway(r) THEN Refused \cup {r} ELSE Refused
      BY <2>2, HandlerRefuses
    <3>2. CASE TakeSlot(r) /\ r \notin Holders /\ Holders' = Holders \cup {r}
      <4>1. ~TurnAway(r) /\ SlotFree
        BY <3>2 DEF TakeSlot, TurnAway
      <4>2. F!Grant(r)
        BY <3>1, <3>2, <4>1, FreeIsNotFull DEF F!Grant, Refused
      <4> QED
        BY <4>2 DEF F!Next
    <3>3. CASE ReleaseSlot(r) /\ r \in Holders /\ Holders' = Holders \ {r}
      <4>1. ~TurnAway(r)
        BY <3>3 DEF ReleaseSlot, TurnAway
      <4>2. F!GiveBack(r)
        BY <3>1, <3>3, <4>1 DEF F!GiveBack, Refused
      <4> QED
        BY <4>2 DEF F!Next
    <3>4. CASE Holders' = Holders /\ TurnAway(r)
      <4>1. r \notin Holders
        BY <3>4 DEF TurnAway, Holders, Holding
      <4>2. F!Refuse(r)
        BY <3>1, <3>4, <4>1, FreeIsNotFull DEF TurnAway, F!Refuse, Refused
      <4> QED
        BY <4>2 DEF F!Next
    <3>5. CASE Holders' = Holders /\ ~TurnAway(r)
      BY <3>1, <3>5 DEF F!vars, Refused
    <3> QED
      BY <2>2, <3>2, <3>3, <3>4, <3>5, HandlerMovesSlots DEF Inv
  <2> QED
    BY <2>1, <2>2 DEF Next
<1> QED
  BY <1>1, <1>2, SpecInv, PTL DEF Spec, ImplementsForkSlots, F!Spec

=============================================================================

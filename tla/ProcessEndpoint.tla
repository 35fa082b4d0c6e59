--------------------------- MODULE ProcessEndpoint ---------------------------
(***************************************************************************)
(* The process side of one session: the wrapped program in its process     *)
(* group, the three pipes that connect it to websocketd, the goroutines    *)
(* that read its output, and Terminate, the ladder that ends it            *)
(* (libwebsocketd/process_endpoint.go, launcher.go, proc_unix.go).         *)
(*                                                                         *)
(* A pipe carries units.  A unit is what one read of the relay returns: a  *)
(* terminated line, a byte under --raw, a chunk under --binary, and on     *)
(* stderr also the partial chunk of a line longer than the reader's        *)
(* buffer or the unterminated rest before end of file.  Bytes of stdout    *)
(* that never become a unit (the unterminated last line) are dropped by    *)
(* the code and are not in the model.                                      *)
(*                                                                         *)
(* The module leaves open who calls Terminate, Send and Output, and when:  *)
(* Session.tla composes it with the relays that do.                        *)
(***************************************************************************)
EXTENDS Naturals, Sequences

CONSTANTS
  PassStderr,  \* the --passstderr flag: stderr is relayed as well as logged
  InMsgs,      \* the messages that may be written to the program's stdin
  PipeCap,     \* units a kernel pipe holds before a write blocks
  MaxUnits,    \* units the program's group writes, by stream
  MaxIn,       \* messages written to the program's stdin
  Closable,    \* descriptors the program may close while it runs
  CanSpawn     \* whether the program may fork descendants

Streams == {"stdout", "stderr"}
Fds == Streams \cup {"stdin"}

(* "child" is the process websocketd started, "kin" stands for all its     *)
(* descendants that stayed in its process group.                           *)
Procs == {"child", "kin"}

Signals == {"SIGINT", "SIGTERM", "SIGKILL"}
Rungs == {"stdin"} \cup Signals

ASSUME ConstantsOK ==
  /\ PassStderr \in BOOLEAN
  /\ PipeCap \in Nat \ {0}
  /\ MaxUnits \in [Streams -> Nat]
  /\ MaxIn \in Nat
  /\ Closable \subseteq Fds
  /\ CanSpawn \in BOOLEAN

VARIABLES
  alive,     \* processes of the group that have not exited
  killed,    \* processes SIGKILL was delivered to: they can only die
  fds,       \* the ends of the three pipes each process still holds
  pipe,      \* units written to each output pipe and not read yet
  wrote,     \* how many units the group has written to each stream
  readEnds,  \* websocketd's ends of the output pipes: Wait closes them
  inPipe,    \* messages in the stdin pipe
  consumed,  \* messages the program has read from its stdin
  stdin,     \* websocketd's end of the stdin pipe
  reader,    \* where the goroutine of each stream is
  held,      \* the unit a goroutine parked on the output channel holds
  output,    \* the output channel
  taken,     \* units received from the output channel, in order
  logged,    \* stderr units written to the log
  ladder,    \* how far Terminate has got
  waiter,    \* the goroutine that calls cmd.Wait
  sent       \* the escalation signals sent so far

progVars == <<alive, killed, fds>>
outVars == <<pipe, wrote, reader, held, output, taken, logged>>
inVars == <<inPipe, consumed, stdin>>
endVars == <<readEnds, ladder, waiter, sent>>
vars == <<progVars, outVars, inVars, endVars>>

(* One unit of output: its stream and its place in that stream. *)
Unit == [src : Streams, n : Nat \ {0}]

(* The streams whose goroutines send on the output channel. *)
Feeders == IF PassStderr THEN Streams ELSE {"stdout"}

(* pe.done is closed by Terminate's first statement. *)
Done == ladder # "idle"

Holders(f) == {p \in alive : f \in fds[p]}

TypeOK ==
  /\ alive \subseteq Procs
  /\ killed \subseteq Procs
  /\ fds \in [Procs -> SUBSET Fds]
  /\ pipe \in [Streams -> Seq(Unit)]
  /\ \A s \in Streams : Len(pipe[s]) <= PipeCap
  /\ wrote \in [Streams -> Nat]
  /\ readEnds \in {"open", "closed"}
  /\ inPipe \in Seq(InMsgs)
  /\ Len(inPipe) <= PipeCap
  /\ consumed \in Seq(InMsgs)
  /\ stdin \in {"open", "closed"}
  /\ reader \in [Streams -> {"read", "send", "exit"}]
  /\ held \in [Streams -> Seq(Unit)]
  /\ output \in {"open", "closed"}
  /\ taken \in Seq(Unit)
  /\ logged \in Seq(Unit)
  /\ ladder \in {"idle", "begun", "returned"} \cup Rungs
  /\ waiter \in {"none", "waiting", "reaped", "sent"}
  /\ sent \subseteq Signals

(* launchCmd has started the program and StartReading its readers. *)
Init ==
  /\ alive = {"child"}
  /\ killed = {}
  /\ fds = [p \in Procs |-> IF p = "child" THEN Fds ELSE {}]
  /\ pipe = [s \in Streams |-> <<>>]
  /\ wrote = [s \in Streams |-> 0]
  /\ readEnds = "open"
  /\ inPipe = <<>>
  /\ consumed = <<>>
  /\ stdin = "open"
  /\ reader = [s \in Streams |-> "read"]
  /\ held = [s \in Streams |-> <<>>]
  /\ output = "open"
  /\ taken = <<>>
  /\ logged = <<>>
  /\ ladder = "idle"
  /\ waiter = "none"
  /\ sent = {}

-----------------------------------------------------------------------------
(* A definition marked "Fault" is not part of the specification.  It is    *)
(* the definition after it with a mistake the code could have made, kept   *)
(* to show which property notices.                                         *)

(* The wrapped program and the descendants it forks.  They may do all that *)
(* a process can do to its pipes, until SIGKILL reaches them.              *)

Running(p) == p \in alive \ killed

WriteOut(p, s) ==
  /\ Running(p)
  /\ s \in fds[p]
  /\ readEnds = "open"
  /\ Len(pipe[s]) < PipeCap
  /\ wrote[s] < MaxUnits[s]
  /\ wrote' = [wrote EXCEPT ![s] = @ + 1]
  /\ pipe' = [pipe EXCEPT ![s] = Append(@, [src |-> s, n |-> wrote'[s]])]
  /\ UNCHANGED <<progVars, inVars, endVars, reader, held, output, taken, logged>>

ReadIn(p) ==
  /\ Running(p)
  /\ "stdin" \in fds[p]
  /\ inPipe # <<>>
  /\ inPipe' = Tail(inPipe)
  /\ consumed' = Append(consumed, Head(inPipe))
  /\ UNCHANGED <<progVars, outVars, endVars, stdin>>

CloseFd(p, f) ==
  /\ Running(p)
  /\ f \in fds[p] \cap Closable
  /\ fds' = [fds EXCEPT ![p] = @ \ {f}]
  /\ UNCHANGED <<alive, killed, outVars, inVars, endVars>>

(* A fork inherits the pipes unless the parent redirects them all. *)
Spawn ==
  /\ CanSpawn
  /\ Running("child")
  /\ "kin" \notin alive
  /\ alive' = alive \cup {"kin"}
  /\ \E inherited \in {fds["child"], {}} : fds' = [fds EXCEPT !["kin"] = inherited]
  /\ UNCHANGED <<killed, outVars, inVars, endVars>>

(* A process exits on its own, on a signal, or because it was killed. *)
Die(p) ==
  /\ p \in alive
  /\ alive' = alive \ {p}
  /\ killed' = killed \ {p}
  /\ fds' = [fds EXCEPT ![p] = {}]
  /\ UNCHANGED <<outVars, inVars, endVars>>

ProgramStep ==
  \/ \E p \in Procs, s \in Streams : WriteOut(p, s)
  \/ \E p \in Procs : ReadIn(p)
  \/ \E p \in Procs, f \in Fds : CloseFd(p, f)
  \/ Spawn
  \/ \E p \in Procs : Die(p)

-----------------------------------------------------------------------------
(* The goroutines that read the program's output.                          *)

(* Fault: bufio.ErrBufferFull ends the stderr reader. *)
ReadStopsOnLongLine(s) ==
  /\ reader[s] = "read"
  /\ pipe[s] # <<>>
  /\ IF s = "stderr"
       THEN reader' = [reader EXCEPT ![s] = "exit"] /\ UNCHANGED <<pipe, held>>
       ELSE /\ pipe' = [pipe EXCEPT ![s] = Tail(@)]
            /\ held' = [held EXCEPT ![s] = <<Head(pipe[s])>>]
            /\ reader' = [reader EXCEPT ![s] = "send"]
  /\ UNCHANGED <<progVars, inVars, endVars, wrote, output, taken, logged>>

(* A read returns a unit.  Units the reader had buffered are still         *)
(* returned after Wait closed the pipe.  Stderr is logged before it is     *)
(* sent anywhere, and without --passstderr it is only logged.              *)
Read(s) ==
  /\ reader[s] = "read"
  /\ pipe[s] # <<>>
  /\ pipe' = [pipe EXCEPT ![s] = Tail(@)]
  /\ logged' = IF s = "stderr" THEN Append(logged, Head(pipe[s])) ELSE logged
  /\ IF s \in Feeders
       THEN /\ held' = [held EXCEPT ![s] = <<Head(pipe[s])>>]
            /\ reader' = [reader EXCEPT ![s] = "send"]
       ELSE UNCHANGED <<held, reader>>
  /\ UNCHANGED <<progVars, inVars, endVars, wrote, output, taken>>

(* Fault: the reader stops when the writers are gone, drained or not. *)
ReadFailsUndrained(s) ==
  /\ reader[s] = "read"
  /\ readEnds = "closed" \/ Holders(s) = {}
  /\ reader' = [reader EXCEPT ![s] = "exit"]
  /\ UNCHANGED <<progVars, inVars, endVars, pipe, wrote, held, output, taken, logged>>

(* End of file: every write end is closed and the pipe is drained.         *)
(* Otherwise a read fails only once Wait has closed the pipe.              *)
ReadFails(s) ==
  /\ reader[s] = "read"
  /\ \/ readEnds = "open" /\ pipe[s] = <<>> /\ Holders(s) = {}
     \/ readEnds = "closed"
  /\ reader' = [reader EXCEPT ![s] = "exit"]
  /\ UNCHANGED <<progVars, inVars, endVars, pipe, wrote, held, output, taken, logged>>

(* The select of a parked reader: somebody receives from Output() ... *)
Deliver(s) ==
  /\ reader[s] = "send"
  /\ taken' = taken \o held[s]
  /\ held' = [held EXCEPT ![s] = <<>>]
  /\ reader' = [reader EXCEPT ![s] = "read"]
  /\ UNCHANGED <<progVars, inVars, endVars, pipe, wrote, output, logged>>

(* Fault: the done case drops the unit and reads on. *)
AbandonContinues(s) ==
  /\ reader[s] = "send"
  /\ Done
  /\ held' = [held EXCEPT ![s] = <<>>]
  /\ reader' = [reader EXCEPT ![s] = "read"]
  /\ UNCHANGED <<progVars, inVars, endVars, pipe, wrote, output, taken, logged>>

(* ... or Terminate has closed done and the unit is thrown away. *)
Abandon(s) ==
  /\ reader[s] = "send"
  /\ Done
  /\ held' = [held EXCEPT ![s] = <<>>]
  /\ reader' = [reader EXCEPT ![s] = "exit"]
  /\ UNCHANGED <<progVars, inVars, endVars, pipe, wrote, output, taken, logged>>

(* Fault: the first of two readers to exit closes the channel. *)
CloseOutputEarly ==
  /\ output = "open"
  /\ \E s \in Feeders : reader[s] = "exit"
  /\ output' = "closed"
  /\ UNCHANGED <<progVars, inVars, endVars, pipe, wrote, reader, held, taken, logged>>

(* The output channel is closed once every goroutine that sends on it has  *)
(* exited: by the stdout reader itself, or by closeOutputWhenDone.         *)
CloseOutput ==
  /\ output = "open"
  /\ \A s \in Feeders : reader[s] = "exit"
  /\ output' = "closed"
  /\ UNCHANGED <<progVars, inVars, endVars, pipe, wrote, reader, held, taken, logged>>

ReaderStep ==
  \/ \E s \in Streams : Read(s) \/ ReadFails(s) \/ Abandon(s)
  \/ CloseOutput

-----------------------------------------------------------------------------
(* Send: a write to the stdin pipe blocks while the pipe is full, and      *)
(* fails when nobody can read it or Terminate has closed it.               *)

Send(m) ==
  /\ stdin = "open"
  /\ Holders("stdin") # {}
  /\ Len(inPipe) < PipeCap
  /\ Len(consumed) + Len(inPipe) < MaxIn
  /\ inPipe' = Append(inPipe, m)
  /\ UNCHANGED <<progVars, outVars, endVars, consumed, stdin>>

SendFails == stdin = "closed" \/ Holders("stdin") = {}

-----------------------------------------------------------------------------
(* Terminate.  Every wait of the ladder ends in one of two ways: the       *)
(* waiter has reported the child, or the rung's timer has fired.  Go picks *)
(* either when both are ready.                                             *)

TerminateBegin ==
  /\ ladder = "idle"
  /\ ladder' = "begun"
  /\ waiter' = "waiting"
  /\ UNCHANGED <<progVars, outVars, inVars, readEnds, sent>>

CloseStdin ==
  /\ ladder = "begun"
  /\ ladder' = "stdin"
  /\ stdin' = "closed"
  /\ UNCHANGED <<progVars, outVars, inPipe, consumed, readEnds, waiter, sent>>

NextRung == [stdin |-> "SIGINT", SIGINT |-> "SIGTERM", SIGTERM |-> "SIGKILL"]

(* The timer fired: the next signal goes to the whole process group. *)
Escalate ==
  /\ ladder \in DOMAIN NextRung
  /\ ladder' = NextRung[ladder]
  /\ sent' = sent \cup {ladder'}
  /\ killed' = IF ladder' = "SIGKILL" THEN alive ELSE killed
  /\ UNCHANGED <<alive, fds, outVars, inVars, readEnds, waiter>>

(* Both exits of Terminate end in killLeftoverGroup. *)
Sweep ==
  /\ ladder' = "returned"
  /\ killed' = alive
  /\ UNCHANGED <<alive, fds, outVars, inVars, readEnds, waiter, sent>>

(* Fault: no sweep when the child exits in time: its descendants survive. *)
TerminatedWithoutSweep ==
  /\ ladder \in Rungs
  /\ waiter = "sent"
  /\ ladder' = "returned"
  /\ UNCHANGED <<progVars, outVars, inVars, readEnds, waiter, sent>>

Terminated ==
  /\ ladder \in Rungs
  /\ waiter = "sent"
  /\ Sweep

(* Fault: the sweep is sent when any rung times out. *)
GiveUpEarly ==
  /\ ladder \in Rungs
  /\ Sweep

GiveUp ==
  /\ ladder = "SIGKILL"
  /\ Sweep

(* cmd.Wait collects the child's status ... *)
Reap ==
  /\ waiter = "waiting"
  /\ "child" \notin alive
  /\ waiter' = "reaped"
  /\ UNCHANGED <<progVars, outVars, inVars, readEnds, ladder, sent>>

(* Fault: the channel is not buffered, so the waiter needs a receiver. *)
WaitReturnsUnbuffered ==
  /\ waiter = "reaped"
  /\ ladder \in Rungs
  /\ waiter' = "sent"
  /\ readEnds' = "closed"
  /\ stdin' = "closed"
  /\ UNCHANGED <<progVars, outVars, inPipe, consumed, ladder, sent>>

(* ... and closes websocketd's ends of all three pipes; the report goes to *)
(* a buffered channel, so the goroutine ends whether or not it is read.    *)
WaitReturns ==
  /\ waiter = "reaped"
  /\ waiter' = "sent"
  /\ readEnds' = "closed"
  /\ stdin' = "closed"
  /\ UNCHANGED <<progVars, outVars, inPipe, consumed, ladder, sent>>

TerminateStep ==
  CloseStdin \/ Escalate \/ Terminated \/ GiveUp \/ Reap \/ WaitReturns

-----------------------------------------------------------------------------
(* The callers: a relay that drains Output(), one that calls Send, and     *)
(* PipeEndpoints, which calls Terminate once.                              *)
CallerStep ==
  \/ \E s \in Streams : Deliver(s)
  \/ \E m \in InMsgs : Send(m)
  \/ TerminateBegin

Next == ProgramStep \/ ReaderStep \/ TerminateStep \/ CallerStep

Spec == Init /\ [][Next]_vars

(* The goroutines of websocketd: one per stream, the one that closes the   *)
(* channel after them, Terminate, and the one in cmd.Wait.                 *)
ReaderRuns(s) == Read(s) \/ ReadFails(s) \/ Abandon(s)
LadderRuns == CloseStdin \/ Escalate \/ Terminated \/ GiveUp
WaiterRuns == Reap \/ WaitReturns

(* And the kernel, which ends what SIGKILL was sent to. *)
KernelKills(p) == p \in killed /\ Die(p)

ReaderFairness(s) == WF_vars(ReaderRuns(s))
KillFairness(p) == WF_vars(KernelKills(p))

(* Each goroutine runs while it can take a step, timers fire and the       *)
(* kernel delivers SIGKILL.  The program owes nothing: it may ignore its   *)
(* stdin and every other signal.                                           *)
Fairness ==
  /\ \A s \in Streams : ReaderFairness(s)
  /\ WF_vars(CloseOutput)
  /\ WF_vars(LadderRuns)
  /\ WF_vars(WaiterRuns)

KernelFairness == \A p \in Procs : KillFairness(p)

FairSpec == Spec /\ Fairness /\ KernelFairness

(* What each of them waits for, and nothing else: the guards of their      *)
(* actions written out.                                                    *)
ReaderMayRun(s) ==
  \/ reader[s] = "read" /\ (pipe[s] # <<>> \/ readEnds = "closed" \/ Holders(s) = {})
  \/ reader[s] = "send" /\ Done
OutputMayClose == output = "open" /\ \A s \in Feeders : reader[s] = "exit"
LadderMayRun == ladder \notin {"idle", "returned"}
WaiterMayRun == waiter = "reaped" \/ (waiter = "waiting" /\ "child" \notin alive)
KernelMayKill(p) == p \in alive \cap killed

(* That these guards are the conditions under which weak fairness makes a  *)
(* goroutine move.  It follows from the definitions alone and says nothing *)
(* of the code; the theorems about liveness have it as a premise, because  *)
(* ENABLED is beyond the provers.                                          *)
ReaderUnhindered(s) == ReaderMayRun(s) => ENABLED <<ReaderRuns(s)>>_vars
CloserUnhindered == OutputMayClose => ENABLED <<CloseOutput>>_vars
LadderUnhindered == LadderMayRun => ENABLED <<LadderRuns>>_vars
WaiterUnhindered == WaiterMayRun => ENABLED <<WaiterRuns>>_vars
KernelUnhindered(p) == KernelMayKill(p) => ENABLED <<KernelKills(p)>>_vars

Unhindered ==
  /\ \A s \in Streams : ReaderUnhindered(s)
  /\ CloserUnhindered /\ LadderUnhindered /\ WaiterUnhindered
  /\ \A p \in Procs : KernelUnhindered(p)

-----------------------------------------------------------------------------
(* Properties.                                                             *)

(* Closing a channel somebody still sends on panics: the output channel is *)
(* closed only when every goroutine that feeds it is gone (by              *)
(* closeOutputWhenDone, or the deferred close of the single reader).       *)
NoSendOnClosedOutput ==
  output = "closed" => \A s \in Feeders : reader[s] = "exit"

(* Whatever the interleaving of the two streams and of the teardown, the   *)
(* units received from Output() are, per stream, an initial part of what   *)
(* the program wrote, each once and in order (relayStdout, relayStderr).   *)
OutputIntact ==
  /\ \A i, j \in DOMAIN taken :
       i < j /\ taken[i].src = taken[j].src => taken[i].n < taken[j].n
  /\ \A j \in DOMAIN taken : \A k \in 1..taken[j].n :
       \E i \in 1..j : taken[i] = [src |-> taken[j].src, n |-> k]

(* When the program ends by itself nothing it wrote is lost: as long as    *)
(* Terminate has not begun, a closed output channel means that every unit  *)
(* was handed over, and an exited stderr reader that all of it was logged. *)
EndOfOutputIsComplete ==
  ~Done =>
    /\ output = "closed" =>
         \A s \in Feeders : \A k \in 1..wrote[s] :
           \E i \in DOMAIN taken : taken[i] = [src |-> s, n |-> k]
    /\ reader["stderr"] = "exit" => Len(logged) = wrote["stderr"]

(* Terminate leaves nothing of the process group behind: when it returns,  *)
(* by whichever exit, SIGKILL has reached every process still in it.       *)
NoSurvivors == ladder = "returned" => alive \subseteq killed

(* SIGKILL is the last resort: before SIGINT and SIGTERM had their time    *)
(* only the orphans of a child that is already reaped are killed, and the  *)
(* child is never killed without them.                                     *)
KillIsLastResort ==
  /\ "child" \in killed => sent = Signals
  /\ killed # {} => sent = Signals \/ waiter = "sent"

(* Terminate always returns, and nothing it found running outlives it: the *)
(* readers stop though nobody receives from Output(), the channel is       *)
(* closed, the waiter goroutine ends.                                      *)
TeardownCompletes ==
  Done ~> /\ ladder = "returned"
          /\ waiter = "sent"
          /\ \A s \in Streams : reader[s] = "exit"
          /\ output = "closed"

(* A program that fills its stderr pipe is never left blocked on it by the *)
(* reader: a unit is read unless the reader is parked on the output        *)
(* channel, waiting for the relay, or the teardown has begun (relayStderr).*)
StderrKeepsDraining ==
  Len(pipe["stderr"]) = PipeCap ~>
    Len(pipe["stderr"]) < PipeCap \/ reader["stderr"] = "send" \/ Done

=============================================================================

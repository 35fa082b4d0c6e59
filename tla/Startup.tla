------------------------------- MODULE Startup -------------------------------
(***************************************************************************)
(* The start of websocketd (main.go): parseCommandLine, the warnings, and  *)
(* one goroutine per listener, of which the first to report an error ends  *)
(* the process.  A listener is <<"serve", i>> or <<"redirect", i>> for the *)
(* i-th address, or <<"unix", 0>>, of which UnixSocket.tla has the steps   *)
(* one by one and this module the outcome.                                 *)
(***************************************************************************)
EXTENDS CommandLine, Origin, FiniteSets

CONSTANTS
  CommandLines,  \* the command lines websocketd may be given
  MaxAddrs       \* --address may be given so many times

ASSUME CommandLinesOK ==
  /\ MaxAddrs \in Nat \ {0}
  /\ \A f \in CommandLines :
       /\ DOMAIN f = DOMAIN Defaults
       /\ f.addrs \in Seq(STRING)
       /\ Len(f.addrs) <= MaxAddrs
       /\ f.port \in Nat
       /\ f.redirPort \in Nat
       /\ f.unixSocket \in BOOLEAN
       /\ f.ssl \in BOOLEAN

VARIABLES
  flags,     \* the command line
  main,      \* where main is
  exitCode,  \* the code the process exited with
  warned,    \* what the operator was warned of
  phase,     \* where the goroutine of each listener is
  bound,     \* listeners that have a socket
  rejects    \* the channel the goroutines report to

startupVars == <<flags, main, exitCode, warned, phase, bound, rejects>>

AllListeners == ({"serve", "redirect"} \X (1..MaxAddrs)) \cup {<<"unix", 0>>}

(* The goroutines main launches. *)
Listeners(f) ==
  {l \in AllListeners :
     CASE l[1] = "serve"    -> l[2] <= Len(Addr(f))
       [] l[1] = "redirect" -> l[2] <= Len(Addr(f)) /\ f.redirPort # 0
       [] OTHER             -> f.unixSocket}

RejectCap(f) == 2 * Len(Addr(f)) + (IF f.unixSocket THEN 1 ELSE 0)

(* redirectAddress: the host of the address, the port of --redirport. *)
AddressOf(l) == CASE l[1] = "serve"    -> Addr(flags)[l[2]]
                  [] l[1] = "redirect" -> [Addr(flags)[l[2]] EXCEPT !.port = flags.redirPort]

(* An IPv6 address without brackets: "::1:8080" is no address. *)
Unbracketed == "::1"

(* The kernel refuses a second listener on a port of one host, or of all. *)
Conflict(a, b) == a.port = b.port /\ (a.host = b.host \/ a.host = "" \/ b.host = "")

MayListen(l) ==
  l[1] # "unix" =>
    /\ AddressOf(l).host # Unbracketed
    /\ \A k \in bound : k[1] # "unix" => ~Conflict(AddressOf(k), AddressOf(l))

MainStates == {"start", "parsed", "waiting", "exited"}
Phases == {"starting", "bound", "serving", "failed", "reported"}

StartupTypeOK ==
  /\ flags \in CommandLines
  /\ main \in MainStates
  /\ exitCode \in {-1, 0, 1, 2, 3, 4}
  /\ phase \in [Listeners(flags) -> Phases] \/ phase = <<>>
  /\ bound \subseteq DOMAIN phase
  /\ rejects \in Seq(AllListeners)

StartupInit ==
  /\ flags \in CommandLines
  /\ main = "start"
  /\ exitCode = -1
  /\ warned = [policy |-> FALSE, entries |-> {}]
  /\ phase = <<>>
  /\ bound = {}
  /\ rejects = <<>>

(* os.Exit: the kernel closes every socket. *)
Exit(code) ==
  /\ main' = "exited"
  /\ exitCode' = code
  /\ bound' = {}

-----------------------------------------------------------------------------
(* main.                                                                   *)

Parse ==
  /\ main = "start"
  /\ LET code == ParseCommandLine(flags)
     IN IF code = Returns THEN main' = "parsed" /\ UNCHANGED <<exitCode, bound>>
                          ELSE Exit(code)
  /\ UNCHANGED <<flags, warned, phase, rejects>>

(* Fault: the listeners are launched before the last check. *)
LaunchUnchecked ==
  /\ main = "parsed"
  /\ warned' = [policy  |-> WarnsOfNoPolicy(flags),
                entries |-> SchemelessOriginWarnings(flags.ssl, flags.allowed)]
  /\ phase' = [l \in Listeners(flags) |-> "starting"]
  /\ IF DevConsoleClash(flags)
       THEN Exit(4)
       ELSE main' = "waiting" /\ UNCHANGED <<exitCode, bound>>
  /\ UNCHANGED <<flags, rejects>>

(* Warnings, the last check, and all goroutines: that a goroutine runs     *)
(* only later is a step not yet taken.                                     *)
Launch ==
  /\ main = "parsed"
  /\ warned' = [policy  |-> WarnsOfNoPolicy(flags),
                entries |-> SchemelessOriginWarnings(flags.ssl, flags.allowed)]
  /\ IF DevConsoleClash(flags)
       THEN Exit(4) /\ UNCHANGED phase
       ELSE /\ main' = "waiting"
            /\ phase' = [l \in Listeners(flags) |-> "starting"]
            /\ UNCHANGED <<exitCode, bound>>
  /\ UNCHANGED <<flags, rejects>>

Receive ==
  /\ main = "waiting"
  /\ rejects # <<>>
  /\ Exit(3)
  /\ UNCHANGED <<flags, warned, phase, rejects>>

-----------------------------------------------------------------------------
(* The goroutine of one listener.                                          *)

At(l, p) == main = "waiting" /\ l \in DOMAIN phase /\ phase[l] = p

Become(l, p) ==
  /\ phase' = [phase EXCEPT ![l] = p]
  /\ UNCHANGED <<flags, main, exitCode, warned>>

(* net.Listen, or what serveUnixSocket does up to and with it. *)
Listen(l) ==
  /\ At(l, "starting")
  /\ MayListen(l)
  /\ Become(l, "bound")
  /\ bound' = bound \cup {l}
  /\ UNCHANGED rejects

(* The address does not parse or conflicts, somebody else has it, the      *)
(* user may not bind it, or a live server is behind the socket file.       *)
ListenFails(l) ==
  /\ At(l, "starting")
  /\ Become(l, "failed")
  /\ UNCHANGED <<bound, rejects>>

Accept(l) ==
  /\ At(l, "bound")
  /\ Become(l, "serving")
  /\ UNCHANGED <<bound, rejects>>

(* The mode of the socket file cannot be set: serve closes the listener. *)
ChmodFails(l) ==
  /\ At(l, "bound")
  /\ l[1] = "unix" /\ flags.socketMode # ""
  /\ Become(l, "failed")
  /\ bound' = bound \ {l}
  /\ UNCHANGED rejects

(* Certificate, key or CA cannot be used.  This is found out only after    *)
(* the port is bound, and the listener stays open.                         *)
TLSFails(l) ==
  /\ At(l, "bound")
  /\ l[1] # "redirect" /\ flags.ssl
  /\ Become(l, "failed")
  /\ UNCHANGED <<bound, rejects>>

(* Serve returns only with an error, and closes the listener. *)
ServeFails(l) ==
  /\ At(l, "serving")
  /\ Become(l, "failed")
  /\ bound' = bound \ {l}
  /\ UNCHANGED rejects

(* Fault: the error of redirectAddress is not sent. *)
ReportMainOnly(l) ==
  /\ At(l, "failed")
  /\ Len(rejects) < RejectCap(flags)
  /\ Become(l, "reported")
  /\ rejects' = IF l[1] = "redirect" THEN rejects ELSE Append(rejects, l)
  /\ UNCHANGED bound

Report(l) ==
  /\ At(l, "failed")
  /\ Len(rejects) < RejectCap(flags)
  /\ Become(l, "reported")
  /\ rejects' = Append(rejects, l)
  /\ UNCHANGED bound

ListenerStep(l) ==
  \/ Listen(l) \/ ListenFails(l)
  \/ Accept(l) \/ ChmodFails(l) \/ TLSFails(l)
  \/ Report(l)

MainStep == Parse \/ Launch \/ Receive

StartupNext ==
  \/ MainStep
  \/ \E l \in AllListeners : ListenerStep(l) \/ ServeFails(l)

MainFairness == WF_startupVars(MainStep)
ListenerFairness(l) == WF_startupVars(ListenerStep(l))
ListenersFairness == \A l \in AllListeners : ListenerFairness(l)

(* main and each goroutine run while they can; that an error ends Serve is *)
(* not owed to anybody.                                                    *)
StartupFairness == MainFairness /\ ListenersFairness

(* The guards of main and of the listeners are the conditions under which  *)
(* fairness makes them move.  For a listener that failed it takes room in  *)
(* the channel, which ReportsReachMain is about; the rest follows from the *)
(* definitions.  A premise of the theorem about liveness, because ENABLED  *)
(* is beyond the provers.                                                  *)
MainUnhindered ==
  main \in {"start", "parsed"} \/ (main = "waiting" /\ rejects # <<>>)
    => ENABLED <<MainStep>>_startupVars

ListenerUnhindered(l) ==
  At(l, "starting") \/ At(l, "bound") \/ At(l, "failed")
    => ENABLED <<ListenerStep(l)>>_startupVars

StartupUnhindered == MainUnhindered /\ \A l \in AllListeners : ListenerUnhindered(l)

-----------------------------------------------------------------------------
(* Properties.                                                             *)

(* Whatever the flags, when main waits for the first error there is a      *)
(* goroutine that could send one: a command line that is accepted opens a  *)
(* listener, and main is never stuck on a channel nobody knows of          *)
(* (wantsUnixSocketOnly against the two loops of main).  And whoever has   *)
(* one to send can: there is room for it even if every listener has failed *)
(* before main receives (comment on rejectCap).                            *)
ReportsReachMain ==
  main = "waiting" =>
    /\ DOMAIN phase # {}
    /\ \A l \in DOMAIN phase : phase[l] = "failed" => Len(rejects) < RejectCap(flags)

(* Exit code 3 has a listener that failed, and every other code is given   *)
(* before a single goroutine could open one (docsite, exit-codes.md).      *)
ExitHasItsReason ==
  main = "exited" =>
    IF exitCode = 3
      THEN \E l \in DOMAIN phase : phase[l] = "reported"
      ELSE DOMAIN phase = {}

FailureStops(l) == At(l, "failed") ~> (main = "exited" /\ exitCode = 3)

(* One failing listener stops the whole server, whoever else still serves. *)
FailureStopsAll == \A l \in AllListeners : FailureStops(l)
=============================================================================

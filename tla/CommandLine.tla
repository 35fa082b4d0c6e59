----------------------------- MODULE CommandLine -----------------------------
(***************************************************************************)
(* The command line: the flags of internal/cliflags and what config.go     *)
(* makes of them.  A flag that names a file, a directory or a command has  *)
(* as its value what the system says of it: "" (not given), "dir", "file", *)
(* "missing" or, for a path, "unresolvable".                               *)
(***************************************************************************)
EXTENDS Integers, Sequences

(* What Register gives when no flag is set. *)
Defaults == [
  ask |-> "serve", addrs |-> <<>>, port |-> 0, redirPort |-> 0,
  unixSocket |-> FALSE, socketMode |-> "", logLevel |-> "access",
  ssl |-> FALSE, sslCert |-> "", sslKey |-> "", sslCA |-> "",
  maxFrameSize |-> 1048576, binary |-> FALSE, raw |-> FALSE, passStderr |-> FALSE,
  sameOrigin |-> FALSE, anyOrigin |-> FALSE, allowed |-> <<>>,
  command |-> "", dir |-> "", staticDir |-> "", cgiDir |-> "", devConsole |-> FALSE,
  passEnv |-> <<<<"PATH">>, <<"LD", "LIBRARY", "PATH">>>>]

LogLevels == {"debug", "trace", "access", "info", "error", "fatal", "none"}

-----------------------------------------------------------------------------
(* Where to listen.                                                        *)

(* Fault: the test for --unixsocket itself is forgotten. *)
WantsNoTCP(f) == f.port = 0 /\ f.addrs = <<>> /\ f.redirPort = 0

WantsUnixSocketOnly(f) ==
  f.unixSocket /\ f.port = 0 /\ f.addrs = <<>> /\ f.redirPort = 0

ResolvePort(f) == CASE f.port # 0 -> f.port
                    [] f.port = 0 /\ f.ssl -> 443
                    [] OTHER -> 80

(* One address per --address, all with the same port, or the wildcard. *)
ResolveAddresses(f) ==
  LET hosts == IF f.addrs = <<>> THEN <<"">> ELSE f.addrs
  IN [i \in 1..Len(hosts) |-> [host |-> hosts[i], port |-> ResolvePort(f)]]

Addr(f) == IF WantsUnixSocketOnly(f) THEN <<>> ELSE ResolveAddresses(f)

-----------------------------------------------------------------------------
(* What is rejected, each by the function of its name.                     *)

ParseSocketModeFails(f) == f.socketMode \in {"0", "01000", "rwx"}

ValidateSSLFails(f) ==
  \/ f.ssl /\ (f.sslCert = "" \/ f.sslKey = "")
  \/ ~f.ssl /\ (f.sslCert # "" \/ f.sslKey # "" \/ f.sslCA # "")

ValidateModesFail(f) == f.binary /\ (f.passStderr \/ f.raw)

ValidateMaxFrameSizeFails(f) == f.maxFrameSize < 0

ValidateAnyOriginFails(f) == f.anyOrigin /\ (f.sameOrigin \/ f.allowed # <<>>)

NothingToServe(f) == f.command = "" /\ f.dir = "" /\ f.staticDir = "" /\ f.cgiDir = ""

ResolveCommandFails(f) == f.command # "" /\ (f.dir # "" \/ f.command = "missing")

ResolveScriptDirFails(f) == f.dir \notin {"", "dir"}

ValidateDirFails(d) == d \notin {"", "dir"}

Rejected(f) ==
  \/ f = Defaults  \* no arguments at all
  \/ ParseSocketModeFails(f)
  \/ f.logLevel \notin LogLevels
  \/ ValidateSSLFails(f)
  \/ ValidateModesFail(f)
  \/ ValidateMaxFrameSizeFails(f)
  \/ ValidateAnyOriginFails(f)
  \/ NothingToServe(f)
  \/ ResolveCommandFails(f)
  \/ ResolveScriptDirFails(f)
  \/ ValidateDirFails(f.cgiDir)
  \/ ValidateDirFails(f.staticDir)

(* parseCommandLine exits with a code or returns; every rejection has the  *)
(* same code, so their order shows only in the message.                    *)
Returns == -1

ParseCommandLine(f) ==
  CASE f.ask = "help" -> 0
    [] f.ask = "undefined flag" -> 2
    [] f.ask = "version" -> 0
    [] f.ask = "license" -> 0
    [] f.ask = "serve" /\ Rejected(f) -> 1
    [] OTHER -> Returns

(* main refuses this one combination later than all others. *)
DevConsoleClash(f) == f.devConsole /\ (f.staticDir # "" \/ f.cgiDir # "")
=============================================================================

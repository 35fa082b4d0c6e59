--------------------------- MODULE AdmissionProofs ---------------------------
(***************************************************************************)
(* Proofs about Startup and Admission.  Whatever the command lines, and    *)
(* however many addresses are given, main waits only for goroutines that   *)
(* exist, none of them blocks on its report, and the exit code has its     *)
(* reason; and for every page, request and environment the answers are     *)
(* those the documentation promises.                                       *)
(***************************************************************************)
EXTENDS Admission, FiniteSetTheorems, TLAPS

Reported == {l \in DOMAIN phase : phase[l] = "reported"}

(* What main knows when it gets where it is. *)
MainInv ==
  /\ main \in {"start", "parsed"} => phase = <<>>
  /\ main \in {"parsed", "waiting"} => ParseCommandLine(flags) = Returns
  /\ main = "waiting" =>
       /\ phase \in [Listeners(flags) -> Phases]
       /\ warned = [policy  |-> WarnsOfNoPolicy(flags),
                    entries |-> SchemelessOriginWarnings(flags.ssl, flags.allowed)]

(* A report is in the channel exactly if its goroutine is done with it. *)
ChannelInv == Len(rejects) = Cardinality(Reported)

(* Who accepts connections has a socket. *)
BoundInv ==
  main = "waiting" =>
    \A l \in DOMAIN phase : phase[l] \in {"bound", "serving"} => l \in bound

StartupInv ==
  /\ StartupTypeOK
  /\ MainInv
  /\ ChannelInv
  /\ BoundInv
  /\ ExitHasItsReason

-----------------------------------------------------------------------------
(* The listeners of a command line.                                        *)

(* A sequence of one element. *)
LEMMA OneTuple ==
  ASSUME NEW x, NEW s, s = <<x>>
  PROVE  Len(s) = 1
OBVIOUS

(* There is an address for each --address, or one. *)
LEMMA AddrLength ==
  ASSUME NEW f \in CommandLines
  PROVE  /\ Len(Addr(f)) \in 0..MaxAddrs
         /\ ~WantsUnixSocketOnly(f) => Len(Addr(f)) > 0
         /\ \A i \in 1..Len(Addr(f)) : Addr(f)[i].port = ResolvePort(f)
<1>1. /\ f.addrs \in Seq(STRING) /\ Len(f.addrs) <= MaxAddrs
      /\ MaxAddrs \in Nat \ {0}
  BY CommandLinesOK
<1>2. CASE WantsUnixSocketOnly(f)
  BY <1>1, <1>2 DEF Addr
<1>3. CASE ~WantsUnixSocketOnly(f)
  <2> DEFINE hosts == IF f.addrs = <<>> THEN <<"">> ELSE f.addrs
  <2>1. Len(hosts) \in 1..MaxAddrs
    <3>1. CASE f.addrs = <<>>
      <4>1. hosts = <<"">>
        BY <3>1
      <4> HIDE DEF hosts
      <4>2. Len(hosts) = 1
        BY <4>1, OneTuple, Zenon
      <4> QED
        BY <1>1, <4>2
    <3>2. CASE f.addrs # <<>>
      <4>1. hosts = f.addrs
        BY <3>2
      <4>2. Len(f.addrs) \in 1..MaxAddrs
        BY <1>1, <3>2
      <4> HIDE DEF hosts
      <4> QED
        BY <4>1, <4>2
    <3> QED
      BY <3>1, <3>2
  <2>2. Addr(f) = [i \in 1..Len(hosts) |-> [host |-> hosts[i], port |-> ResolvePort(f)]]
    BY <1>3 DEF Addr, ResolveAddresses
  <2> HIDE DEF hosts
  <2>3. Len(Addr(f)) = Len(hosts)
    BY <2>1, <2>2
  <2> QED
    BY <1>1, <2>1, <2>2, <2>3
<1> QED
  BY <1>2, <1>3

(* A command line opens at least one listener. *)
LEMMA ListenersExist ==
  ASSUME NEW f \in CommandLines
  PROVE  Listeners(f) # {}
<1>1. CASE WantsUnixSocketOnly(f)
  <2>1. <<"unix", 0>> \in Listeners(f)
    BY <1>1 DEF WantsUnixSocketOnly, Listeners, AllListeners
  <2> QED
    BY <2>1
<1>2. CASE ~WantsUnixSocketOnly(f)
  <2>1. <<"serve", 1>> \in Listeners(f)
    BY <1>2, AddrLength, CommandLinesOK DEF Listeners, AllListeners
  <2> QED
    BY <2>1
<1> QED
  BY <1>1, <1>2

(* The channel has room for a report of every goroutine: one for each      *)
(* address, one for its redirect, one for the socket.                      *)
LEMMA RejectCapSuffices ==
  ASSUME NEW f \in CommandLines
  PROVE  /\ IsFiniteSet(Listeners(f))
         /\ Cardinality(Listeners(f)) <= RejectCap(f)
<1> DEFINE n == Len(Addr(f))
           tcp == {"serve", "redirect"} \X (1..n)
           unix == IF f.unixSocket THEN {<<"unix", 0>>} ELSE {}
<1>1. n \in Nat /\ f.unixSocket \in BOOLEAN
  BY AddrLength, CommandLinesOK
<1>2. Listeners(f) \subseteq tcp \cup unix
  BY <1>1 DEF Listeners, AllListeners
<1>3. IsFiniteSet(tcp) /\ Cardinality(tcp) = 2 * n
  <2>1. IsFiniteSet(1..n) /\ Cardinality(1..n) = n
    <3>1. /\ IsFiniteSet(1..n)
          /\ Cardinality(1..n) = IF 1 > n THEN 0 ELSE n - 1 + 1
      BY SMTT(20), <1>1, FS_Interval
    <3> HIDE DEF n
    <3> QED
      BY <1>1, <3>1
  <2>2. IsFiniteSet({"serve", "redirect"}) /\ Cardinality({"serve", "redirect"}) = 2
    <3>1. IsFiniteSet({"serve"}) /\ Cardinality({"serve"}) = 1
      BY FS_Singleton
    <3>2. {"serve", "redirect"} = {"serve"} \cup {"redirect"}
      OBVIOUS
    <3> QED
      BY <3>1, <3>2, FS_AddElement
  <2> QED
    BY ZenonT(60), <2>1, <2>2, FS_Product
<1>4. IsFiniteSet(unix) /\ Cardinality(unix) = (IF f.unixSocket THEN 1 ELSE 0)
  BY FS_Singleton, FS_EmptySet
<1>5. /\ IsFiniteSet(tcp \cup unix)
      /\ Cardinality(tcp \cup unix) <= Cardinality(tcp) + Cardinality(unix)
  <2>1. IsFiniteSet(tcp \cup unix) /\ IsFiniteSet(tcp \cap unix)
    BY <1>3, <1>4, FS_Union, FS_Intersection
  <2>2. Cardinality(tcp \cup unix) = Cardinality(tcp) + Cardinality(unix) - Cardinality(tcp \cap unix)
    BY <1>3, <1>4, FS_Union
  <2>3. Cardinality(tcp \cap unix) \in Nat
    BY <2>1, FS_CardinalityType
  <2> HIDE DEF tcp, unix
  <2> QED
    BY <1>1, <1>3, <1>4, <2>1, <2>2, <2>3
<1>6. /\ IsFiniteSet(Listeners(f))
      /\ Cardinality(Listeners(f)) <= Cardinality(tcp \cup unix)
  BY <1>2, <1>5, FS_Subset
<1>7. Cardinality(Listeners(f)) \in Nat /\ Cardinality(tcp \cup unix) \in Nat
  BY <1>5, <1>6, FS_CardinalityType
<1> HIDE DEF tcp, unix
<1> QED
  BY <1>1, <1>3, <1>4, <1>5, <1>6, <1>7 DEF RejectCap

-----------------------------------------------------------------------------
(* The invariant is inductive.                                             *)

LEMMA StartupInvInit == StartupInit => StartupInv
<1> SUFFICES ASSUME StartupInit
             PROVE  StartupInv
  OBVIOUS
<1>1. DOMAIN phase = {} /\ Reported = {}
  BY DEF StartupInit, Reported
<1>2. Cardinality(Reported) = 0
  BY <1>1, FS_EmptySet
<1>3. ChannelInv
  BY <1>2 DEF StartupInit, ChannelInv
<1>4. StartupTypeOK
  BY <1>1 DEF StartupInit, StartupTypeOK, MainStates
<1> QED
  BY <1>3, <1>4 DEF StartupInit, StartupInv, MainInv, BoundInv, ExitHasItsReason

(* What a goroutine's change of place leaves alone, main's wait for one.   *)
LEMMA BecomeKeeps ==
  ASSUME StartupInv, NEW l, NEW p, NEW q \in Phases, At(l, p), Become(l, q)
  PROVE  /\ main' = "waiting" /\ flags' = flags
         /\ DOMAIN phase' = DOMAIN phase
         /\ phase' \in [Listeners(flags') -> Phases]
         /\ l \in DOMAIN phase /\ l \in AllListeners
         /\ phase'[l] = q
         /\ \A k \in DOMAIN phase : k # l => phase'[k] = phase[k]
         /\ MainInv'
         /\ ExitHasItsReason'
<1>1. /\ main = "waiting" /\ l \in DOMAIN phase
      /\ phase \in [Listeners(flags) -> Phases]
  BY DEF StartupInv, MainInv, At
<1>2. main' = main /\ flags' = flags /\ warned' = warned
  BY DEF Become
<1>3. phase' = [phase EXCEPT ![l] = q]
  BY DEF Become
<1>4. /\ DOMAIN phase' = DOMAIN phase
      /\ phase' \in [Listeners(flags) -> Phases]
      /\ phase'[l] = q
      /\ \A k \in DOMAIN phase : k # l => phase'[k] = phase[k]
  BY <1>1, <1>3
<1>5. l \in AllListeners
  BY <1>1 DEF Listeners
<1>6. phase' \in [Listeners(flags') -> Phases]
  BY <1>2, <1>4
<1>7. MainInv'
  BY <1>1, <1>2, <1>6 DEF StartupInv, MainInv
<1> QED
  BY <1>1, <1>2, <1>4, <1>5, <1>6, <1>7 DEF ExitHasItsReason

(* A goroutine that makes no report. *)
LEMMA QuietStepKeeps ==
  ASSUME StartupInv, NEW l, NEW p, NEW q \in Phases \ {"reported"},
         At(l, p), p # "reported", Become(l, q), UNCHANGED rejects,
         bound' \subseteq bound \cup {l},
         bound \ {l} \subseteq bound',
         q \in {"bound", "serving"} => l \in bound'
  PROVE  StartupInv'
<1>1. Reported' = Reported
  BY BecomeKeeps DEF Reported, At
<1>2. ChannelInv'
  BY <1>1 DEF StartupInv, ChannelInv
<1>3. StartupTypeOK'
  <2>1. /\ main' = "waiting" /\ flags' = flags /\ l \in DOMAIN phase
        /\ DOMAIN phase' = DOMAIN phase
        /\ phase' \in [Listeners(flags') -> Phases]
    BY BecomeKeeps
  <2>2. bound' \subseteq DOMAIN phase'
    BY <2>1 DEF StartupInv, StartupTypeOK
  <2> QED
    BY <2>1, <2>2 DEF StartupInv, StartupTypeOK, Become, MainStates
<1>4. BoundInv'
  BY BecomeKeeps DEF StartupInv, BoundInv, At
<1> QED
  BY <1>2, <1>3, <1>4, BecomeKeeps DEF StartupInv

LEMMA ReportKeeps ==
  ASSUME StartupInv, NEW l, Report(l)
  PROVE  StartupInv'
<1>1. At(l, "failed") /\ Become(l, "reported") /\ "reported" \in Phases
  BY DEF Report, Phases
<1>2. Reported' = Reported \cup {l} /\ l \notin Reported
  BY <1>1, BecomeKeeps DEF Reported, At
<1>3. Reported \subseteq Listeners(flags) /\ IsFiniteSet(Listeners(flags))
  BY <1>1, RejectCapSuffices DEF StartupInv, StartupTypeOK, MainInv, At, Reported
<1>4. Cardinality(Reported') = Cardinality(Reported) + 1
  BY <1>2, <1>3, FS_Subset, FS_AddElement
<1>5. /\ rejects' = Append(rejects, l) /\ bound' = bound
      /\ rejects \in Seq(AllListeners) /\ l \in AllListeners
  BY <1>1, BecomeKeeps DEF Report, StartupInv, StartupTypeOK
<1>6. rejects' \in Seq(AllListeners) /\ Len(rejects') = Len(rejects) + 1
  BY <1>5
<1>7. ChannelInv'
  BY <1>4, <1>6 DEF StartupInv, ChannelInv
<1>8. StartupTypeOK'
  BY <1>1, <1>5, <1>6, BecomeKeeps DEF StartupInv, StartupTypeOK, Become, MainStates
<1>9. BoundInv'
  BY <1>1, <1>5, BecomeKeeps DEF StartupInv, BoundInv, At
<1> QED
  BY <1>1, <1>7, <1>8, <1>9, BecomeKeeps DEF StartupInv

LEMMA ListenerStepKeeps ==
  ASSUME StartupInv, NEW l \in AllListeners, ListenerStep(l) \/ ServeFails(l)
  PROVE  StartupInv'
<1>1. CASE Listen(l)
  BY <1>1, QuietStepKeeps DEF Listen, Phases
<1>2. CASE ListenFails(l)
  BY <1>2, QuietStepKeeps DEF ListenFails, Phases
<1>3. CASE Accept(l)
  <2>1. l \in bound
    BY <1>3 DEF Accept, At, StartupInv, BoundInv
  <2> QED
    BY <1>3, <2>1, QuietStepKeeps DEF Accept, Phases
<1>4. CASE ChmodFails(l)
  BY <1>4, QuietStepKeeps DEF ChmodFails, Phases
<1>5. CASE TLSFails(l)
  BY <1>5, QuietStepKeeps DEF TLSFails, Phases
<1>6. CASE Report(l)
  BY <1>6, ReportKeeps
<1>7. CASE ServeFails(l)
  BY <1>7, QuietStepKeeps DEF ServeFails, Phases
<1> QED
  BY <1>1, <1>2, <1>3, <1>4, <1>5, <1>6, <1>7 DEF ListenerStep

LEMMA ParseKeeps == StartupInv /\ Parse => StartupInv'
<1> SUFFICES ASSUME StartupInv, Parse
             PROVE  StartupInv'
  OBVIOUS
<1>1. phase = <<>> /\ phase' = phase /\ flags' = flags /\ rejects' = rejects
  BY DEF Parse, StartupInv, MainInv
<1>2. \/ main' = "parsed" /\ ParseCommandLine(flags) = Returns /\ UNCHANGED <<exitCode, bound>>
      \/ /\ main' = "exited" /\ exitCode' = ParseCommandLine(flags)
         /\ bound' = {} /\ exitCode' \in {0, 1, 2}
  BY DEF Parse, ParseCommandLine, Exit, Returns
<1>3. DOMAIN phase = {} /\ Reported' = Reported
  BY <1>1 DEF Reported
<1>4. ChannelInv'
  BY <1>1, <1>3 DEF StartupInv, ChannelInv
<1>5. StartupTypeOK'
  BY <1>1, <1>2, <1>3 DEF StartupInv, StartupTypeOK, MainStates
<1>6. MainInv' /\ BoundInv' /\ ExitHasItsReason'
  BY <1>1, <1>2, <1>3 DEF MainInv, BoundInv, ExitHasItsReason
<1> QED
  BY <1>4, <1>5, <1>6 DEF StartupInv

LEMMA LaunchKeeps == StartupInv /\ Launch => StartupInv'
<1> SUFFICES ASSUME StartupInv, Launch
             PROVE  StartupInv'
  OBVIOUS
<1>1. /\ main = "parsed" /\ phase = <<>> /\ DOMAIN phase = {}
      /\ ParseCommandLine(flags) = Returns
      /\ flags' = flags /\ rejects' = rejects
  BY DEF Launch, StartupInv, MainInv
<1>2. Reported = {}
  BY <1>1 DEF Reported
<1>3. CASE DevConsoleClash(flags)
  <2>1. phase' = phase /\ main' = "exited" /\ exitCode' = 4 /\ bound' = {}
    BY <1>3 DEF Launch, Exit
  <2>2. Reported' = Reported
    BY <2>1 DEF Reported
  <2>3. ChannelInv'
    BY <1>1, <2>2 DEF StartupInv, ChannelInv
  <2>4. StartupTypeOK'
    BY <1>1, <2>1 DEF StartupInv, StartupTypeOK, MainStates
  <2>5. MainInv' /\ BoundInv' /\ ExitHasItsReason'
    BY <1>1, <2>1 DEF MainInv, BoundInv, ExitHasItsReason
  <2> QED
    BY <2>3, <2>4, <2>5 DEF StartupInv
<1>4. CASE ~DevConsoleClash(flags)
  <2>1. /\ phase' = [l \in Listeners(flags) |-> "starting"]
        /\ main' = "waiting" /\ UNCHANGED <<exitCode, bound>>
        /\ warned' = [policy  |-> WarnsOfNoPolicy(flags),
                      entries |-> SchemelessOriginWarnings(flags.ssl, flags.allowed)]
    BY <1>4 DEF Launch
  <2>2. Reported' = {}
    BY <2>1 DEF Reported
  <2>3. ChannelInv'
    BY <1>1, <1>2, <2>2 DEF StartupInv, ChannelInv
  <2>4. phase' \in [Listeners(flags') -> Phases]
    BY <1>1, <2>1 DEF Phases
  <2>5. bound' = {}
    BY <1>1, <2>1 DEF StartupInv, StartupTypeOK
  <2>6. StartupTypeOK'
    BY <1>1, <2>1, <2>4, <2>5 DEF StartupInv, StartupTypeOK, MainStates
  <2>7. MainInv' /\ BoundInv' /\ ExitHasItsReason'
    BY <1>1, <2>1, <2>4 DEF MainInv, BoundInv, ExitHasItsReason
  <2> QED
    BY <2>3, <2>6, <2>7 DEF StartupInv
<1> QED
  BY <1>3, <1>4

(* Exit code 3 comes with a report in the channel, which somebody sent. *)
LEMMA ReceiveKeeps == StartupInv /\ Receive => StartupInv'
<1> SUFFICES ASSUME StartupInv, Receive
             PROVE  StartupInv'
  OBVIOUS
<1>1. /\ phase' = phase /\ flags' = flags /\ rejects' = rejects
      /\ main' = "exited" /\ exitCode' = 3 /\ bound' = {}
  BY DEF Receive, Exit
<1>2. Cardinality(Reported) # 0
  BY DEF Receive, StartupInv, StartupTypeOK, ChannelInv
<1>3. Reported # {}
  BY <1>2, FS_EmptySet
<1>4. ExitHasItsReason'
  BY <1>1, <1>3 DEF ExitHasItsReason, Reported
<1>5. Reported' = Reported
  BY <1>1 DEF Reported
<1>6. ChannelInv'
  BY <1>1, <1>5 DEF StartupInv, ChannelInv
<1>7. StartupTypeOK'
  BY <1>1 DEF StartupInv, StartupTypeOK, MainStates
<1>8. MainInv' /\ BoundInv'
  BY <1>1 DEF MainInv, BoundInv
<1> QED
  BY <1>4, <1>6, <1>7, <1>8 DEF StartupInv

LEMMA StartupInvNext == StartupInv /\ [StartupNext]_startupVars => StartupInv'
<1> SUFFICES ASSUME StartupInv, [StartupNext]_startupVars
             PROVE  StartupInv'
  OBVIOUS
<1>1. CASE UNCHANGED startupVars
  <2>1. Reported' = Reported
    BY <1>1 DEF startupVars, Reported
  <2>2. ChannelInv'
    BY <1>1, <2>1 DEF startupVars, StartupInv, ChannelInv
  <2> QED
    BY <1>1, <2>2 DEF startupVars, StartupInv, StartupTypeOK, MainInv, BoundInv, ExitHasItsReason
<1>2. CASE Parse
  BY <1>2, ParseKeeps
<1>3. CASE Launch
  BY <1>3, LaunchKeeps
<1>4. CASE Receive
  BY <1>4, ReceiveKeeps
<1>5. CASE \E l \in AllListeners : ListenerStep(l) \/ ServeFails(l)
  BY <1>5, ListenerStepKeeps
<1> QED
  BY <1>1, <1>2, <1>3, <1>4, <1>5 DEF StartupNext, MainStep

(* A failed goroutine is one of those the capacity counts, and not yet one *)
(* of those in the channel.                                                *)
LEMMA RoomForReport ==
  StartupInv => \A l \in DOMAIN phase :
                  main = "waiting" /\ phase[l] = "failed" => Len(rejects) < RejectCap(flags)
<1> SUFFICES ASSUME StartupInv, NEW l \in DOMAIN phase,
                    main = "waiting", phase[l] = "failed"
             PROVE  Len(rejects) < RejectCap(flags)
  OBVIOUS
<1>1. DOMAIN phase = Listeners(flags) /\ flags \in CommandLines
  BY DEF StartupInv, MainInv, StartupTypeOK
<1>2. /\ IsFiniteSet(Listeners(flags))
      /\ Cardinality(Listeners(flags)) <= RejectCap(flags)
  BY <1>1, RejectCapSuffices
<1>3. Reported \subseteq Listeners(flags) \ {l} /\ l \in Listeners(flags)
  BY <1>1 DEF Reported
<1>4. /\ IsFiniteSet(Listeners(flags) \ {l})
      /\ Cardinality(Listeners(flags) \ {l}) = Cardinality(Listeners(flags)) - 1
  BY <1>2, <1>3, FS_RemoveElement
<1>5. Cardinality(Reported) <= Cardinality(Listeners(flags) \ {l}) /\ IsFiniteSet(Reported)
  BY <1>3, <1>4, FS_Subset
<1>6. /\ Cardinality(Reported) \in Nat /\ Cardinality(Listeners(flags)) \in Nat
      /\ RejectCap(flags) \in Int
  BY <1>1, <1>2, <1>5, FS_CardinalityType, AddrLength, CommandLinesOK DEF RejectCap
<1> QED
  BY <1>2, <1>4, <1>5, <1>6 DEF StartupInv, ChannelInv

LEMMA RoomForReports == StartupInv => ReportsReachMain
BY ListenersExist, RoomForReport DEF StartupInv, StartupTypeOK, MainInv, ReportsReachMain

-----------------------------------------------------------------------------
(* checkOrigin on what browsers send.                                      *)

(* A port left out because it is the default is put back. *)
LEMMA PortsRoundTrip ==
  ASSUME NEW url, url.port \in Nat \ {NoPort}, url.scheme \in {"http", "https"}
  PROVE  /\ TellHostPort(BrowserOrigin(url), BrowserOrigin(url).scheme = "https") =
              [server |-> url.host, port |-> url.port]
         /\ TellHostPort(BrowserHost(url), url.scheme = "https") =
              [server |-> url.host, port |-> url.port]
BY DEF TellHostPort, BrowserOrigin, BrowserHost, SpelledPort, DefaultPort, NoPort

(* matchOrigin's round is the documented reading of an entry. *)
LEMMA EntryMatchesIsLists ==
  ASSUME NEW page, page.port \in Nat \ {NoPort}, page.scheme \in {"http", "https"},
         NEW e, e.anyPort \in BOOLEAN
  PROVE  EntryMatches(e, [server |-> page.host, port |-> page.port], page.scheme)
           <=> Lists(e, page)
<1>1. CASE e.anyPort
  BY <1>1 DEF EntryMatches, Lists
<1>2. CASE ~e.anyPort /\ e.port # NoPort
  BY <1>2 DEF EntryMatches, Lists
<1>3. CASE ~e.anyPort /\ e.port = NoPort
  <2> DEFINE ports == {DefaultPort(s) : s \in IF e.scheme = "" THEN {"http", "https"} ELSE {e.scheme}}
  <2>1. Lists(e, page) <=>
          e.host = page.host /\ (e.scheme # "" => e.scheme = page.scheme) /\ page.port \in ports
    BY <1>3 DEF Lists
  <2>2. EntryMatches(e, [server |-> page.host, port |-> page.port], page.scheme) <=>
          /\ e.scheme \in {"", page.scheme}
          /\ e.host = page.host
          /\ \/ page.port = 80 /\ e.scheme \in {"", "http"}
             \/ page.port = 443 /\ e.scheme \in {"", "https"}
    BY <1>3 DEF EntryMatches
  <2>3. CASE e.scheme = ""
    <3>1. ports = {80, 443}
      BY ZenonT(60), <2>3 DEF DefaultPort
    <3> QED
      BY <2>1, <2>2, <2>3, <3>1
  <2>4. CASE e.scheme = page.scheme /\ e.scheme # ""
    <3>1. ports = {DefaultPort(page.scheme)}
      BY <2>4
    <3> QED
      BY ZenonT(60), <2>1, <2>2, <2>4, <3>1 DEF DefaultPort
  <2>5. CASE e.scheme \notin {"", page.scheme}
    BY <2>1, <2>2, <2>5
  <2> QED
    BY <2>3, <2>4, <2>5
<1> QED
  BY <1>1, <1>2, <1>3

(* A policy as far as checkOrigin reads it. *)
IsPolicy(policy) ==
  /\ policy.sameOrigin \in BOOLEAN
  /\ \A i \in DOMAIN policy.allowed : policy.allowed[i].anyPort \in BOOLEAN

LEMMA CheckOriginOfPage ==
  ASSUME NEW policy, IsPolicy(policy), NEW host, NEW tls,
         NEW page, page.port \in Nat \ {NoPort}, page.scheme \in {"http", "https"}
  PROVE  CheckOrigin(policy, BrowserOrigin(page), host, tls) <=>
           /\ policy.sameOrigin =>
                host.splits /\ [server |-> page.host, port |-> page.port] = TellHostPort(host, tls)
           /\ policy.allowed # <<>> =>
                \E i \in DOMAIN policy.allowed : Lists(policy.allowed[i], page)
<1> DEFINE o == BrowserOrigin(page)
           origin == [server |-> page.host, port |-> page.port]
<1>1. o.kind = "url" /\ o.scheme = page.scheme
  BY DEF BrowserOrigin
<1>2. OriginOf(o, policy.allowed) = o
  <2>1. Absent.kind = "absent" /\ NullOrigin.kind = "null"
    BY DEF Absent, NullOrigin
  <2>2. o # Absent /\ o # NullOrigin
    BY <1>1, <2>1
  <2> HIDE DEF o
  <2> QED
    BY <2>2 DEF OriginOf
<1>3. TellHostPort(o, o.scheme = "https") = origin
  BY PortsRoundTrip
<1>4. MatchOrigin(origin, page.scheme, policy.allowed) <=>
        \E i \in DOMAIN policy.allowed : Lists(policy.allowed[i], page)
  BY EntryMatchesIsLists DEF MatchOrigin, IsPolicy
<1> HIDE DEF o, origin
<1>5. CheckOrigin(policy, o, host, tls) <=>
        /\ policy.sameOrigin => host.splits /\ origin = TellHostPort(host, tls)
        /\ policy.allowed # <<>> => MatchOrigin(origin, page.scheme, policy.allowed)
  BY <1>1, <1>2, <1>3 DEF CheckOrigin
<1> QED
  BY <1>4, <1>5 DEF o, origin

LEMMA MayConnectByIndex ==
  ASSUME NEW policy, NEW page, NEW target
  PROVE  MayConnect(policy, page, target) <=>
           /\ policy.sameOrigin => page.host = target.host /\ page.port = target.port
           /\ policy.allowed # <<>> =>
                \E i \in DOMAIN policy.allowed : Lists(policy.allowed[i], page)
<1>1. (\E e \in {policy.allowed[i] : i \in DOMAIN policy.allowed} : Lists(e, page))
        <=> \E i \in DOMAIN policy.allowed : Lists(policy.allowed[i], page)
  OBVIOUS
<1> QED
  BY <1>1 DEF MayConnect

(* The Host header reads as the page's own or the target's address.        *)
LEMMA CheckOriginIsMayConnect ==
  ASSUME NEW policy, IsPolicy(policy), NEW host, NEW tls, host.splits = TRUE,
         NEW page, page.port \in Nat \ {NoPort}, page.scheme \in {"http", "https"},
         NEW target, TellHostPort(host, tls) = [server |-> target.host, port |-> target.port]
  PROVE  CheckOrigin(policy, BrowserOrigin(page), host, tls) <=> MayConnect(policy, page, target)
<1>1. ([server |-> page.host, port |-> page.port] = TellHostPort(host, tls))
        <=> page.host = target.host /\ page.port = target.port
  OBVIOUS
<1> QED
  BY <1>1, CheckOriginOfPage, MayConnectByIndex

-----------------------------------------------------------------------------
(* The environment of the program.                                         *)

Named(headers) == \A h \in headers : h.words \in Seq(STRING) /\ h.words # <<>>

(* No variable that createEnv sets itself begins like one of a header. *)
LEMMA NotHTTP ==
  /\ \A v \in ServerVars : v[1] # "HTTP"
  /\ \A v \in RequestVars : v[1] # "HTTP"
  /\ \A v \in ClearedVars : v[1] # "HTTP"
  /\ HTTPS[1] # "HTTP" /\ SoftwareVar[1] # "HTTP"
<1>1. \A v \in ServerVars : v[1] # "HTTP"
  BY DEF ServerVars
<1>2. \A v \in RequestVars : v[1] # "HTTP"
  BY DEF RequestVars
<1>3. \A v \in ClearedVars : v[1] # "HTTP"
  BY DEF ClearedVars
<1>4. HTTPS[1] # "HTTP" /\ SoftwareVar[1] # "HTTP"
  BY DEF HTTPS, SoftwareVar
<1> QED
  BY <1>1, <1>2, <1>3, <1>4

(* The variable of a header is none of the standard ones. *)
LEMMA HeaderVarIsApart ==
  ASSUME NEW h, h.words \in Seq(STRING), h.words # <<>>
  PROVE  /\ IsHeaderVar(VarName(h))
         /\ VarName(h) \notin ServerVars \cup RequestVars \cup ClearedVars \cup {HTTPS, SoftwareVar}
         /\ ~IsProxy(h) => VarName(h) # <<"HTTP", "PROXY">>
<1>1. /\ VarName(h)[1] = "HTTP"
      /\ Len(VarName(h)) = Len(h.words) + 1 /\ Len(h.words) > 0
      /\ VarName(h)[2] = h.words[1]
  BY DEF VarName
<1>2. IsHeaderVar(VarName(h))
  BY <1>1 DEF IsHeaderVar
<1>3. VarName(h) \notin ServerVars \cup RequestVars \cup ClearedVars \cup {HTTPS, SoftwareVar}
  BY <1>1, NotHTTP
<1>4. ~IsProxy(h) => VarName(h) # <<"HTTP", "PROXY">>
  <2> SUFFICES ASSUME VarName(h) = <<"HTTP", "PROXY">>
               PROVE  h.words = <<"PROXY">>
    BY DEF IsProxy
  <2> DEFINE v == VarName(h)
  <2>1. v = <<"HTTP", "PROXY">>
    OBVIOUS
  <2> HIDE DEF v
  <2>2. Len(v) = 2 /\ v[2] = "PROXY"
    BY <2>1
  <2>3. Len(h.words) = 1 /\ h.words[1] = "PROXY"
    <3>1. v[2] = h.words[1] /\ Len(v) = Len(h.words) + 1 /\ Len(h.words) \in Nat
      BY <1>1 DEF v
    <3>2. Len(h.words) = 1
      <4> DEFINE n == Len(h.words)
      <4>1. n \in Nat /\ 2 = n + 1
        BY <2>2, <3>1
      <4> HIDE DEF n
      <4>2. n = 1
        BY <4>1
      <4> QED
        BY <4>2 DEF n
    <3>3. h.words[1] = "PROXY"
      BY <2>2, <3>1
    <3> QED
      BY <3>2, <3>3
  <2> QED
    BY <2>3
<1> QED
  BY <1>2, <1>3, <1>4

(* Whose value a variable has. *)
LEMMA OverIs ==
  ASSUME NEW a, NEW b
  PROVE  /\ DOMAIN Over(b, a) = DOMAIN a \cup DOMAIN b
         /\ \A v \in DOMAIN b : Over(b, a)[v] = b[v]
         /\ \A v \in DOMAIN a \ DOMAIN b : Over(b, a)[v] = a[v]
BY DEF Over

LEMMA OfIs ==
  ASSUME NEW source, NEW names
  PROVE  DOMAIN Of(source, names) = names /\ \A v \in names : Of(source, names)[v] = <<source>>
BY DEF Of

(* The names createEnv sets itself are different ones. *)
LEMMA StandardIs ==
  /\ DOMAIN Standard = ServerVars \cup RequestVars \cup ClearedVars
  /\ \A v \in ServerVars  : Standard[v] = <<"server">>
  /\ \A v \in RequestVars : Standard[v] = <<"request">> /\ v \notin ServerVars
  /\ \A v \in ClearedVars : Standard[v] = <<"empty">> /\ v \notin ServerVars \cup RequestVars
  /\ HTTPS \notin DOMAIN Standard /\ SoftwareVar \notin DOMAIN Standard
<1>1. /\ \A v \in ServerVars : v \notin RequestVars \cup ClearedVars \cup {HTTPS, SoftwareVar}
      /\ \A v \in RequestVars : v \notin ClearedVars \cup {HTTPS, SoftwareVar}
      /\ HTTPS \notin ClearedVars /\ SoftwareVar \notin ClearedVars
  BY DEF ServerVars, RequestVars, ClearedVars, HTTPS, SoftwareVar
<1> DEFINE cleared == Of("empty", ClearedVars)
           both == Over(Of("request", RequestVars), cleared)
<1>2. /\ DOMAIN cleared = ClearedVars /\ \A v \in ClearedVars : cleared[v] = <<"empty">>
  BY OfIs
<1> HIDE DEF cleared
<1>3. /\ DOMAIN both = RequestVars \cup ClearedVars
      /\ \A v \in RequestVars : both[v] = <<"request">>
      /\ \A v \in ClearedVars : both[v] = <<"empty">>
  <2> DEFINE request == Of("request", RequestVars)
  <2>1. DOMAIN request = RequestVars /\ \A v \in RequestVars : request[v] = <<"request">>
    BY OfIs
  <2> HIDE DEF request
  <2>2. /\ DOMAIN Over(request, cleared) = DOMAIN cleared \cup DOMAIN request
        /\ \A v \in DOMAIN request : Over(request, cleared)[v] = request[v]
        /\ \A v \in DOMAIN cleared \ DOMAIN request : Over(request, cleared)[v] = cleared[v]
    BY OverIs
  <2>3. both = Over(request, cleared)
    BY DEF request
  <2> HIDE DEF both
  <2> QED
    BY <1>1, <1>2, <2>1, <2>2, <2>3
<1> HIDE DEF both
<1>4. Standard = Over(Of("server", ServerVars), both)
  BY DEF Standard, both, cleared
<1>5. /\ DOMAIN Standard = ServerVars \cup RequestVars \cup ClearedVars
      /\ \A v \in ServerVars  : Standard[v] = <<"server">>
      /\ \A v \in RequestVars : Standard[v] = <<"request">>
      /\ \A v \in ClearedVars : Standard[v] = <<"empty">>
  <2> DEFINE server == Of("server", ServerVars)
  <2>1. DOMAIN server = ServerVars /\ \A v \in ServerVars : server[v] = <<"server">>
    BY OfIs
  <2> HIDE DEF server
  <2>2. /\ DOMAIN Over(server, both) = DOMAIN both \cup DOMAIN server
        /\ \A v \in DOMAIN server : Over(server, both)[v] = server[v]
        /\ \A v \in DOMAIN both \ DOMAIN server : Over(server, both)[v] = both[v]
    BY OverIs
  <2>3. Standard = Over(server, both)
    BY <1>4 DEF server
  <2> QED
    BY <1>1, <1>3, <2>1, <2>2, <2>3
<1> QED
  BY <1>1, <1>5

(* The part of the list that websocketd makes for every request. *)
LEMMA FixedIs ==
  ASSUME NEW ssl \in BOOLEAN, NEW fixed,
         fixed = IF ssl THEN Over(Of("server", {HTTPS}), Standard) ELSE Standard
  PROVE  /\ DOMAIN fixed = DOMAIN Standard \cup (IF ssl THEN {HTTPS} ELSE {})
         /\ \A v \in DOMAIN Standard : fixed[v] = Standard[v]
         /\ ssl => fixed[HTTPS] = <<"server">>
<1>1. CASE ssl
  <2> DEFINE https == Of("server", {HTTPS})
  <2>1. DOMAIN https = {HTTPS} /\ https[HTTPS] = <<"server">>
    BY OfIs
  <2>2. fixed = Over(https, Standard)
    BY <1>1
  <2> HIDE DEF https
  <2>3. /\ DOMAIN Over(https, Standard) = DOMAIN Standard \cup DOMAIN https
        /\ \A v \in DOMAIN https : Over(https, Standard)[v] = https[v]
        /\ \A v \in DOMAIN Standard \ DOMAIN https : Over(https, Standard)[v] = Standard[v]
    BY OverIs
  <2> QED
    BY <1>1, <2>1, <2>2, <2>3, StandardIs
<1>2. CASE ~ssl
  BY <1>2
<1> QED
  BY <1>1, <1>2

LEMMA ParentIs ==
  ASSUME NEW passEnv, NEW environ, NEW parent, parent = BuildParentEnv(passEnv, environ)
  PROVE  \A v \in DOMAIN parent :
           /\ parent[v] = <<"parent">> /\ v # HTTPS
           /\ \E i \in DOMAIN passEnv : passEnv[i] = v
BY OfIs DEF BuildParentEnv

LEMMA HeaderPartIs ==
  ASSUME NEW headers, Named(headers), NEW part \in HeaderParts(headers)
  PROVE  /\ \A v \in DOMAIN part :
              /\ IsHeaderVar(v) /\ v # <<"HTTP", "PROXY">>
              /\ v \notin DOMAIN Standard \cup {HTTPS, SoftwareVar}
              /\ \E h \in headers : part[v] = <<"header", h>> /\ v = VarName(h)
         /\ \A h \in headers : IsProxy(h) \/ VarName(h) \in DOMAIN part
<1>1. /\ DOMAIN part = {VarName(h) : h \in Forwarded(headers)}
      /\ \A v \in DOMAIN part :
           /\ part[v] \in {<<"header", h>> : h \in headers}
           /\ VarName(part[v][2]) = v
  BY DEF HeaderParts
<1>2. \A h \in headers : IsProxy(h) \/ VarName(h) \in DOMAIN part
  BY <1>1 DEF Forwarded
<1>3. ASSUME NEW v \in DOMAIN part
      PROVE  /\ IsHeaderVar(v) /\ v # <<"HTTP", "PROXY">>
             /\ v \notin DOMAIN Standard \cup {HTTPS, SoftwareVar}
  <2>1. PICK h \in headers : ~IsProxy(h) /\ v = VarName(h)
    BY <1>1 DEF Forwarded
  <2> QED
    BY <2>1, HeaderVarIsApart, StandardIs DEF Named
<1>4. ASSUME NEW v \in DOMAIN part
      PROVE  \E h \in headers : part[v] = <<"header", h>> /\ v = VarName(h)
  <2>1. PICK h \in headers : part[v] = <<"header", h>>
    BY <1>1
  <2>2. part[v][2] = h
    BY <2>1
  <2> QED
    BY <1>1, <2>1, <2>2
<1> QED
  BY <1>2, <1>3, <1>4

LEMMA CreateEnvIsAsDocumented ==
  ASSUME NEW ssl \in BOOLEAN, NEW passEnv, NEW environ, NEW headers, Named(headers),
         NEW env \in CreateEnv(ssl, BuildParentEnv(passEnv, environ), headers)
  PROVE  /\ \A v \in DOMAIN env : AsDocumented(v, env[v], ssl, passEnv, headers)
         /\ DOMAIN Standard \subseteq DOMAIN env
         /\ ssl => HTTPS \in DOMAIN env
         /\ \A h \in headers : IsProxy(h) \/ env[VarName(h)][1] = "header"
<1> DEFINE parent == BuildParentEnv(passEnv, environ)
           fixed == IF ssl THEN Over(Of("server", {HTTPS}), Standard) ELSE Standard
           software == Of("server", {SoftwareVar})
           low == Over(parent, software)
           mid == Over(fixed, low)
<1>1. PICK part \in HeaderParts(headers) : env = Over(part, mid)
  BY DEF CreateEnv
<1>2. /\ DOMAIN software = {SoftwareVar} /\ software[SoftwareVar] = <<"server">>
      /\ DOMAIN low = DOMAIN software \cup DOMAIN parent
      /\ \A v \in DOMAIN parent : low[v] = parent[v]
      /\ \A v \in DOMAIN software \ DOMAIN parent : low[v] = software[v]
  <2>1. DOMAIN software = {SoftwareVar} /\ software[SoftwareVar] = <<"server">>
    BY OfIs
  <2> HIDE DEF parent, software
  <2>2. /\ DOMAIN low = DOMAIN software \cup DOMAIN parent
        /\ \A v \in DOMAIN parent : low[v] = parent[v]
        /\ \A v \in DOMAIN software \ DOMAIN parent : low[v] = software[v]
    BY OverIs
  <2> QED
    BY <2>1, <2>2
<1>3. \A v \in DOMAIN parent :
        /\ parent[v] = <<"parent">> /\ v # HTTPS
        /\ \E i \in DOMAIN passEnv : passEnv[i] = v
  BY ParentIs
<1>4. /\ DOMAIN fixed = DOMAIN Standard \cup (IF ssl THEN {HTTPS} ELSE {})
      /\ \A v \in DOMAIN Standard : fixed[v] = Standard[v]
      /\ ssl => fixed[HTTPS] = <<"server">>
  BY FixedIs
<1>5. /\ \A v \in DOMAIN part :
           /\ IsHeaderVar(v) /\ v # <<"HTTP", "PROXY">>
           /\ v \notin DOMAIN Standard \cup {HTTPS, SoftwareVar}
           /\ \E h \in headers : part[v] = <<"header", h>> /\ v = VarName(h)
      /\ \A h \in headers : IsProxy(h) \/ VarName(h) \in DOMAIN part
  BY HeaderPartIs
<1> HIDE DEF parent, fixed, software, low
<1>6. /\ DOMAIN mid = DOMAIN low \cup DOMAIN fixed
      /\ \A v \in DOMAIN fixed : mid[v] = fixed[v]
      /\ \A v \in DOMAIN low \ DOMAIN fixed : mid[v] = low[v]
  BY OverIs
<1> HIDE DEF mid
<1>7. /\ DOMAIN env = DOMAIN mid \cup DOMAIN part
      /\ \A v \in DOMAIN part : env[v] = part[v]
      /\ \A v \in DOMAIN mid \ DOMAIN part : env[v] = mid[v]
  BY ZenonT(60), <1>1, OverIs
<1>8. /\ DOMAIN Standard \subseteq DOMAIN env
      /\ ssl => HTTPS \in DOMAIN env
  BY <1>4, <1>6, <1>7
<1>9. ASSUME NEW h \in headers, ~IsProxy(h)
      PROVE  env[VarName(h)][1] = "header"
  <2>1. VarName(h) \in DOMAIN part
    BY <1>5, <1>9
  <2>2. PICK k \in headers : part[VarName(h)] = <<"header", k>>
    BY <1>5, <2>1
  <2> QED
    BY <1>7, <2>1, <2>2
<1>10. ASSUME NEW v \in DOMAIN env
       PROVE  AsDocumented(v, env[v], ssl, passEnv, headers)
  <2>1. CASE v \in DOMAIN part
    <3>1. env[v] = part[v]
      BY <1>7, <2>1
    <3>2. v \notin ServerVars \cup RequestVars \cup ClearedVars /\ v # HTTPS
      BY <1>5, <2>1, StandardIs
    <3>3. /\ IsHeaderVar(v) /\ v # <<"HTTP", "PROXY">>
          /\ \E h \in headers : env[v] = <<"header", h>> /\ v = VarName(h)
      BY <1>5, <2>1, <3>1
    <3> QED
      BY <3>2, <3>3 DEF AsDocumented
  <2>2. CASE v \notin DOMAIN part /\ v \in DOMAIN Standard
    <3>1. env[v] = Standard[v]
      BY <1>4, <1>6, <1>7, <2>2
    <3> QED
      BY <2>2, <3>1, StandardIs DEF AsDocumented
  <2>3. CASE v \notin DOMAIN part \cup DOMAIN Standard /\ v = HTTPS
    <3>1. v \in DOMAIN mid
      BY <1>7, <2>3
    <3>2. v \notin DOMAIN low
      BY <1>2, <1>3, <2>3 DEF HTTPS, SoftwareVar
    <3>3. ssl /\ v \in DOMAIN fixed
      BY <1>4, <1>6, <2>3, <3>1, <3>2
    <3>4. env[v] = <<"server">>
      BY <1>4, <1>6, <1>7, <2>3, <3>3
    <3> QED
      BY <2>3, <3>3, <3>4, StandardIs DEF AsDocumented
  <2>4. CASE v \notin DOMAIN part \cup DOMAIN Standard \cup {HTTPS}
    <3>1. v \notin ServerVars \cup RequestVars \cup ClearedVars /\ v # HTTPS
      BY <2>4, StandardIs
    <3>2. v \in DOMAIN low /\ env[v] = low[v]
      BY <1>4, <1>6, <1>7, <2>4
    <3>3. \/ v = SoftwareVar /\ env[v] = <<"server">>
          \/ env[v] = <<"parent">> /\ \E i \in DOMAIN passEnv : passEnv[i] = v
      BY <1>2, <1>3, <3>2
    <3> QED
      BY <3>1, <3>3 DEF AsDocumented
  <2> QED
    BY <2>1, <2>2, <2>3, <2>4
<1> QED
  BY <1>8, <1>9, <1>10

-----------------------------------------------------------------------------
(* The invariant: an answer is the one its handler computed, and a         *)
(* redirect was given while all listeners were up.                         *)

AnswerInv ==
  /\ answer.kind \in {"upgraded", "refused"} =>
       /\ answer.request \in Requests
       /\ answer.kind = "upgraded" <=>
            CheckOrigin(flags, answer.request.origin, answer.request.host, flags.ssl)
  /\ answer.kind = "upgraded" =>
       answer.env \in CreateEnv(flags.ssl, BuildParentEnv(flags.passEnv, Environ),
                                answer.request.headers)
  /\ answer.kind = "redirected" =>
       /\ main = "waiting"
       /\ answer.by \in DOMAIN phase /\ answer.by[1] = "redirect"
       /\ \A l \in DOMAIN phase : phase[l] = "serving"
       /\ answer.location = RedirectLocation([host |-> answer.host, port |-> flags.redirPort],
                                             Addr(flags)[answer.by[2]], flags.ssl)

IInv == StartupInv /\ AnswerInv

LEMMA IInvInit == Init => IInv
<1> SUFFICES ASSUME Init
             PROVE  IInv
  OBVIOUS
<1>1. answer.kind = "none"
  BY DEF Init, NoAnswer
<1>2. AnswerInv
  BY <1>1 DEF AnswerInv
<1> QED
  BY <1>2, StartupInvInit DEF Init, IInv

LEMMA UpgradeKeeps ==
  ASSUME IInv, NEW l, NEW r \in Requests, Upgrade(l, r)
  PROVE  AnswerInv'
<1>1. UNCHANGED startupVars
  BY DEF Upgrade
<1>2. CASE CheckOrigin(flags, r.origin, r.host, flags.ssl)
  <2>1. PICK env \in CreateEnv(flags.ssl, BuildParentEnv(flags.passEnv, Environ), r.headers) :
          answer' = [kind |-> "upgraded", request |-> r, env |-> env]
    BY <1>2 DEF Upgrade
  <2>2. answer'.kind = "upgraded" /\ answer'.request = r /\ answer'.env = env
    BY <2>1
  <2> QED
    BY <1>1, <1>2, <2>2 DEF AnswerInv, startupVars
<1>3. CASE ~CheckOrigin(flags, r.origin, r.host, flags.ssl)
  <2>1. answer' = [kind |-> "refused", request |-> r]
    BY <1>3 DEF Upgrade
  <2>2. answer'.kind = "refused" /\ answer'.request = r
    BY <2>1
  <2> QED
    BY <1>1, <1>3, <2>2 DEF AnswerInv, startupVars
<1> QED
  BY <1>2, <1>3

LEMMA RedirectKeeps ==
  ASSUME IInv, NEW l, NEW host, Redirect(l, host)
  PROVE  AnswerInv'
<1>1. /\ UNCHANGED startupVars
      /\ main = "waiting" /\ l \in DOMAIN phase /\ l[1] = "redirect"
      /\ \A k \in DOMAIN phase : phase[k] = "serving"
      /\ answer' = [kind     |-> "redirected", by |-> l, host |-> host,
                    location |-> RedirectLocation([host |-> host, port |-> flags.redirPort],
                                                  Addr(flags)[l[2]], flags.ssl)]
  BY DEF Redirect, Settled
<1>2. /\ answer'.kind = "redirected" /\ answer'.by = l /\ answer'.host = host
      /\ answer'.location = RedirectLocation([host |-> host, port |-> flags.redirPort],
                                             Addr(flags)[l[2]], flags.ssl)
  BY <1>1
<1> QED
  BY <1>1, <1>2 DEF AnswerInv, startupVars

LEMMA IInvNext == IInv /\ [Next]_vars => IInv'
<1> SUFFICES ASSUME IInv, [Next]_vars
             PROVE  IInv'
  OBVIOUS
<1>1. StartupInv'
  <2>1. [StartupNext]_startupVars
    BY DEF Next, vars, Upgrade, Redirect
  <2> QED
    BY <2>1, StartupInvNext DEF IInv
<1>2. AnswerInv'
  <2>1. CASE UNCHANGED vars
    BY <2>1 DEF vars, startupVars, IInv, AnswerInv
  <2>2. CASE StartupNext /\ answer' = NoAnswer
    <3>1. answer'.kind = "none"
      BY <2>2 DEF NoAnswer
    <3> QED
      BY <3>1 DEF AnswerInv
  <2>3. CASE \E l \in AllListeners, r \in Requests : Upgrade(l, r)
    BY <2>3, UpgradeKeeps
  <2>4. CASE \E l \in AllListeners, p \in Pages : Redirect(l, p.host)
    BY <2>4, RedirectKeeps
  <2> QED
    BY <2>1, <2>2, <2>3, <2>4 DEF Next
<1> QED
  BY <1>1, <1>2 DEF IInv

LEMMA AlwaysIInv == Spec => []IInv
<1> QED
  BY IInvInit, IInvNext, PTL DEF Spec

-----------------------------------------------------------------------------
(* What it shows of each answer.                                           *)

LEMMA OriginFromInv == IInv => OriginAsDocumented
<1> SUFFICES ASSUME IInv, answer.kind \in {"upgraded", "refused"},
                    NEW page \in Pages, NEW target \in Pages,
                    answer.request.origin = BrowserOrigin(page)
             PROVE  /\ target.scheme = Scheme /\ answer.request.host = BrowserHost(target) =>
                         (answer.kind = "upgraded" <=> MayConnect(flags, page, target))
                    /\ ~flags.ssl /\ page.scheme = "https" /\ target = page /\ page.port # 80 =>
                         /\ answer.request.host = [host |-> page.host, port |-> page.port, splits |-> TRUE] =>
                              (answer.kind = "upgraded" <=> MayConnect(flags, page, target))
                         /\ answer.request.host = [host |-> page.host, port |-> NoPort, splits |-> TRUE] =>
                              (flags.sameOrigin => answer.kind = "refused")
  BY DEF OriginAsDocumented
<1> DEFINE host == answer.request.host
<1>1. /\ flags \in CommandLines /\ IsPolicy(flags) /\ flags.ssl \in BOOLEAN
      /\ page.port \in Nat \ {NoPort} /\ page.scheme \in {"http", "https"}
      /\ target.port \in Nat \ {NoPort} /\ target.scheme \in {"http", "https"}
  BY PoliciesOK, PagesOK, CommandLinesOK DEF IInv, StartupInv, StartupTypeOK, IsPolicy
<1>2. answer.kind = "upgraded" <=> CheckOrigin(flags, BrowserOrigin(page), host, flags.ssl)
  BY DEF IInv, AnswerInv
<1> HIDE DEF host
<1>3. ASSUME target.scheme = Scheme, host = BrowserHost(target)
      PROVE  answer.kind = "upgraded" <=> MayConnect(flags, page, target)
  <2>1. flags.ssl <=> target.scheme = "https"
    BY <1>1, <1>3 DEF Scheme
  <2>2. host.splits = TRUE
    BY <1>3 DEF BrowserHost
  <2>3. TellHostPort(host, target.scheme = "https") = [server |-> target.host, port |-> target.port]
    BY <1>1, <1>3, PortsRoundTrip
  <2>4. flags.ssl = (target.scheme = "https")
    BY <1>1, <2>1
  <2>5. TellHostPort(host, flags.ssl) = [server |-> target.host, port |-> target.port]
    BY <2>3, <2>4
  <2> QED
    BY <1>1, <1>2, <2>2, <2>5, CheckOriginIsMayConnect
<1>4. ASSUME ~flags.ssl, host = [host |-> page.host, port |-> page.port, splits |-> TRUE]
      PROVE  answer.kind = "upgraded" <=> MayConnect(flags, page, page)
  <2>1. host.splits = TRUE
    BY <1>4
  <2>2. TellHostPort(host, flags.ssl) = [server |-> page.host, port |-> page.port]
    BY <1>1, <1>4 DEF TellHostPort, NoPort
  <2> QED
    BY <1>1, <1>2, <2>1, <2>2, CheckOriginIsMayConnect
<1>5. ASSUME ~flags.ssl, page.port # 80, flags.sameOrigin,
             host = [host |-> page.host, port |-> NoPort, splits |-> TRUE]
      PROVE  answer.kind = "refused"
  <2>1. TellHostPort(host, flags.ssl).port = 80
    BY <1>5 DEF TellHostPort, NoPort
  <2>2. [server |-> page.host, port |-> page.port] # TellHostPort(host, flags.ssl)
    BY <1>5, <2>1
  <2>3. ~CheckOrigin(flags, BrowserOrigin(page), host, flags.ssl)
    BY <1>1, <1>5, <2>2, CheckOriginOfPage
  <2> QED
    BY <1>2, <2>3
<1> QED
  BY <1>3, <1>4, <1>5 DEF host

LEMMA WarningsFromInv == IInv => WarningsAccurate
<1> DEFINE Accepted(page, target) ==
             CheckOrigin(flags, BrowserOrigin(page), BrowserHost(target), flags.ssl)
           targets == {t \in Pages : t.scheme = Scheme}
<1> SUFFICES ASSUME IInv, Settled
             PROVE  /\ warned.policy <=>
                         ~flags.anyOrigin /\ \A page \in Pages, target \in targets : Accepted(page, target)
                    /\ \A page \in Pages, target \in targets :
                         /\ flags.ssl /\ flags.allowed # <<>>
                         /\ page.scheme = "http" /\ Accepted(page, target)
                         => \E i \in DOMAIN flags.allowed :
                              /\ Lists(flags.allowed[i], page)
                              /\ flags.allowed[i].scheme = "http" \/ flags.allowed[i] \in warned.entries
  BY DEF WarningsAccurate
<1>1. /\ flags \in CommandLines /\ IsPolicy(flags) /\ flags.ssl \in BOOLEAN
      /\ \A p \in Pages : p.port \in Nat \ {NoPort} /\ p.scheme \in {"http", "https"}
  BY PoliciesOK, PagesOK, CommandLinesOK DEF IInv, StartupInv, StartupTypeOK, IsPolicy
<1>2. /\ warned.policy <=> WarnsOfNoPolicy(flags)
      /\ warned.entries = SchemelessOriginWarnings(flags.ssl, flags.allowed)
  <2>1. warned = [policy  |-> WarnsOfNoPolicy(flags),
                  entries |-> SchemelessOriginWarnings(flags.ssl, flags.allowed)]
    BY DEF IInv, StartupInv, MainInv, Settled
  <2>2. WarnsOfNoPolicy(flags) \in BOOLEAN
    BY DEF WarnsOfNoPolicy
  <2> QED
    BY <2>1, <2>2
<1>3. ASSUME NEW page \in Pages, NEW target \in targets
      PROVE  Accepted(page, target) <=> MayConnect(flags, page, target)
  <2>1. flags.ssl = (target.scheme = "https")
    BY <1>1 DEF Scheme
  <2>2. BrowserHost(target).splits = TRUE
    BY DEF BrowserHost
  <2>3. TellHostPort(BrowserHost(target), flags.ssl) = [server |-> target.host, port |-> target.port]
    BY <1>1, <2>1, PortsRoundTrip
  <2> QED
    BY <1>1, <2>2, <2>3, CheckOriginIsMayConnect
<1> HIDE DEF Accepted
<1>4. ASSUME WarnsOfNoPolicy(flags), NEW page \in Pages, NEW target \in targets
      PROVE  Accepted(page, target)
  BY <1>3, <1>4, MayConnectByIndex DEF WarnsOfNoPolicy
<1>5. ASSUME ~flags.anyOrigin, ~WarnsOfNoPolicy(flags)
      PROVE  \E page \in Pages, target \in targets : ~Accepted(page, target)
  <2>1. PICK p \in Pages, t \in targets :
          /\ p.host # t.host
          /\ flags.allowed # <<>> => \A i \in DOMAIN flags.allowed : ~Lists(flags.allowed[i], p)
    BY <1>1, StrangersOK DEF Scheme
  <2>2. flags.sameOrigin \/ flags.allowed # <<>>
    BY <1>5 DEF WarnsOfNoPolicy
  <2>3. ~MayConnect(flags, p, t)
    BY <2>1, <2>2, MayConnectByIndex
  <2> QED
    BY <1>3, <2>1, <2>3
<1>6. warned.policy <=>
        ~flags.anyOrigin /\ \A page \in Pages, target \in targets : Accepted(page, target)
  BY <1>2, <1>4, <1>5 DEF WarnsOfNoPolicy
<1>7. ASSUME NEW page \in Pages, NEW target \in targets,
             flags.ssl, flags.allowed # <<>>, page.scheme = "http", Accepted(page, target)
      PROVE  \E i \in DOMAIN flags.allowed :
               /\ Lists(flags.allowed[i], page)
               /\ flags.allowed[i].scheme = "http" \/ flags.allowed[i] \in warned.entries
  <2>1. PICK i \in DOMAIN flags.allowed : Lists(flags.allowed[i], page)
    BY <1>3, <1>7, MayConnectByIndex
  <2>2. flags.allowed[i].scheme \in {"", "http"}
    BY <1>7, <2>1 DEF Lists
  <2>3. flags.allowed[i].scheme = "" => flags.allowed[i] \in warned.entries
    BY <1>2, <1>7 DEF SchemelessOriginWarnings
  <2> QED
    BY <2>1, <2>2, <2>3
<1> QED
  BY <1>6, <1>7

LEMMA RedirectFromInv == IInv => RedirectLeadsHere
<1> SUFFICES ASSUME IInv, answer.kind = "redirected"
             PROVE  RedirectLeadsHere
  BY DEF RedirectLeadsHere
<1> DEFINE l == answer.by
           url == answer.location
           itsMain == <<"serve", l[2]>>
           same == [sameOrigin |-> TRUE, allowed |-> <<>>]
<1>1. /\ main = "waiting" /\ l \in DOMAIN phase /\ l[1] = "redirect"
      /\ \A k \in DOMAIN phase : phase[k] = "serving"
      /\ url = RedirectLocation([host |-> answer.host, port |-> flags.redirPort],
                                Addr(flags)[l[2]], flags.ssl)
      /\ flags \in CommandLines /\ DOMAIN phase = Listeners(flags)
  BY DEF IInv, StartupInv, StartupTypeOK, MainInv, AnswerInv
<1>2. l[2] \in 1..MaxAddrs /\ l[2] <= Len(Addr(flags))
  BY <1>1 DEF Listeners, AllListeners
<1>3. itsMain \in Listeners(flags)
  BY <1>2 DEF Listeners, AllListeners
<1>4. itsMain \in bound
  BY <1>1, <1>3 DEF IInv, StartupInv, BoundInv
<1>5. /\ url.scheme = Scheme /\ url.host = answer.host /\ url.port = Addr(flags)[l[2]].port
  BY <1>1 DEF RedirectLocation, Scheme
<1>6. AddressOf(itsMain).port = url.port
  BY <1>5 DEF AddressOf
<1>7. url.port \in Nat \ {NoPort}
  <2>1. Addr(flags)[l[2]].port = ResolvePort(flags)
    BY <1>1, <1>2, AddrLength, CommandLinesOK
  <2>2. ResolvePort(flags) \in Nat \ {0}
    BY <1>1, CommandLinesOK DEF ResolvePort
  <2> QED
    BY <1>5, <2>1, <2>2 DEF NoPort
<1>8. /\ url.scheme \in {"http", "https"}
      /\ flags.ssl = (url.scheme = "https")
  BY <1>1, <1>5, CommandLinesOK DEF Scheme
<1> HIDE DEF url
<1>9. CheckOrigin(same, BrowserOrigin(url), BrowserHost(url), flags.ssl)
  <2>1. IsPolicy(same)
    BY DEF IsPolicy
  <2>2. BrowserHost(url).splits = TRUE
    BY DEF BrowserHost
  <2>3. TellHostPort(BrowserHost(url), flags.ssl) = [server |-> url.host, port |-> url.port]
    BY <1>7, <1>8, PortsRoundTrip
  <2>4. same.allowed = <<>>
    OBVIOUS
  <2> HIDE DEF same
  <2> QED
    BY <1>7, <1>8, <2>1, <2>2, <2>3, <2>4, CheckOriginOfPage
<1> QED
  BY <1>4, <1>5, <1>6, <1>9 DEF RedirectLeadsHere, url

LEMMA EnvironmentFromInv == IInv => EnvironmentAsDocumented
<1> SUFFICES ASSUME IInv, answer.kind = "upgraded"
             PROVE  EnvironmentAsDocumented
  BY DEF EnvironmentAsDocumented
<1>1. /\ answer.env \in CreateEnv(flags.ssl, BuildParentEnv(flags.passEnv, Environ),
                                   answer.request.headers)
      /\ flags.ssl \in BOOLEAN
      /\ Named(answer.request.headers)
  BY RequestsOK, CommandLinesOK
     DEF IInv, AnswerInv, StartupInv, StartupTypeOK, Named
<1> QED
  BY <1>1, CreateEnvIsAsDocumented DEF EnvironmentAsDocumented

-----------------------------------------------------------------------------
(* The theorems.                                                           *)

(* No command line that is accepted leaves main waiting for a report that  *)
(* nobody can send; and however many listeners there are, even if all of   *)
(* them fail at once, the channel of errors has room for each report.      *)
THEOREM SomebodyReports == Spec => []ReportsReachMain
BY AlwaysIInv, RoomForReports, PTL DEF IInv

(* The exit code says whether a listener failed or none was opened.        *)
THEOREM ExitCodeIsTrue == Spec => []ExitHasItsReason
BY AlwaysIInv, PTL DEF IInv, StartupInv

(* checkOrigin decides as documented, for all origins, entries and ports.  *)
THEOREM OriginPolicyHolds == Spec => []OriginAsDocumented
BY AlwaysIInv, OriginFromInv, PTL

(* The warning of a policy that accepts all is printed exactly when it     *)
(* does, and no list lets insecure pages in without saying so.             *)
THEOREM WarningsAreTrue == Spec => []WarningsAccurate
BY AlwaysIInv, WarningsFromInv, PTL

(* A redirect leads to where its main server listens, and back in.         *)
THEOREM RedirectsArrive == Spec => []RedirectLeadsHere
BY AlwaysIInv, RedirectFromInv, PTL

(* No header, --passenv name or part of the parent's environment takes the *)
(* place of a variable that is not its own.                                *)
THEOREM EnvironmentIsSound == Spec => []EnvironmentAsDocumented
BY AlwaysIInv, EnvironmentFromInv, PTL

-----------------------------------------------------------------------------
(* A failure stops the server: the report goes into the channel, and main  *)
(* takes it out.                                                           *)

EndedByFailure == main = "exited" /\ exitCode = 3
Pending == main = "waiting" /\ rejects # <<>>

LEMMA FailureSteps ==
  ASSUME NEW l \in AllListeners, IInv, [Next]_vars, At(l, "failed")
  PROVE  At(l, "failed")' \/ Pending' \/ EndedByFailure'
<1>1. CASE UNCHANGED startupVars
  BY <1>1 DEF At, startupVars
<1>2. CASE MainStep
  BY <1>2 DEF MainStep, Parse, Launch, Receive, Exit, At, EndedByFailure
<1>3. CASE \E k \in AllListeners : ListenerStep(k) \/ ServeFails(k)
  <2>1. PICK k \in AllListeners : ListenerStep(k) \/ ServeFails(k)
    BY <1>3
  <2>2. CASE k = l
    <3>1. Report(l)
      BY <2>1, <2>2 DEF ListenerStep, Listen, ListenFails, Accept, ChmodFails, TLSFails,
                        ServeFails, At
    <3>2. rejects \in Seq(AllListeners)
      BY DEF IInv, StartupInv, StartupTypeOK
    <3> QED BY <3>1, <3>2 DEF Report, Become, At, Pending
  <2>3. CASE k # l
    <3>1. main' = main /\ \E p \in Phases : phase' = [phase EXCEPT ![k] = p]
      BY <2>1 DEF ListenerStep, Listen, ListenFails, Accept, ChmodFails, TLSFails, Report,
                  ServeFails, Become, Phases
    <3> QED BY <2>3, <3>1 DEF At
  <2> QED BY <2>2, <2>3
<1> QED
  BY <1>1, <1>2, <1>3 DEF Next, StartupNext, vars, Upgrade, Redirect

LEMMA FailureReports ==
  ASSUME NEW l \in AllListeners, IInv, <<ListenerStep(l)>>_startupVars, At(l, "failed")
  PROVE  Pending'
<1>1. Report(l)
  BY DEF ListenerStep, Listen, ListenFails, Accept, ChmodFails, TLSFails, At
<1>2. rejects \in Seq(AllListeners)
  BY DEF IInv, StartupInv, StartupTypeOK
<1> QED BY <1>1, <1>2 DEF Report, Become, At, Pending

LEMMA PendingSteps == IInv /\ [Next]_vars /\ Pending => Pending' \/ EndedByFailure'
<1> SUFFICES ASSUME IInv, [Next]_vars, Pending
             PROVE  Pending' \/ EndedByFailure'
  OBVIOUS
<1>1. CASE UNCHANGED startupVars
  BY <1>1 DEF Pending, startupVars
<1>2. CASE MainStep
  BY <1>2 DEF MainStep, Parse, Launch, Receive, Exit, Pending, EndedByFailure
<1>3. CASE \E k \in AllListeners : ListenerStep(k) \/ ServeFails(k)
  <2>1. PICK k \in AllListeners : ListenerStep(k) \/ ServeFails(k)
    BY <1>3
  <2>2. main' = main /\ (rejects' = rejects \/ rejects' = Append(rejects, k))
    BY <2>1 DEF ListenerStep, Listen, ListenFails, Accept, ChmodFails, TLSFails, Report,
                ServeFails, Become
  <2>3. rejects \in Seq(AllListeners)
    BY DEF IInv, StartupInv, StartupTypeOK
  <2> QED BY <2>2, <2>3 DEF Pending
<1> QED
  BY <1>1, <1>2, <1>3 DEF Next, StartupNext, vars, Upgrade, Redirect

LEMMA PendingIsReceived == Pending /\ <<MainStep>>_startupVars => EndedByFailure'
BY DEF Pending, MainStep, Parse, Launch, Receive, Exit, EndedByFailure

(* The listeners one by one: PTL sees a quantified formula only whole.     *)
Premise(l) == []IInv /\ [][Next]_vars /\ ListenerFairness(l) /\ MainFairness
              /\ []ListenerUnhindered(l) /\ []MainUnhindered

LEMMA OneFailureStops == ASSUME NEW l \in AllListeners PROVE Premise(l) => FailureStops(l)
<1>1. IInv /\ [Next]_vars /\ At(l, "failed") => At(l, "failed")' \/ Pending' \/ EndedByFailure'
  BY FailureSteps
<1>2. IInv /\ <<ListenerStep(l)>>_startupVars /\ At(l, "failed") => Pending'
  BY FailureReports
<1>3. ListenerUnhindered(l) /\ At(l, "failed") => ENABLED <<ListenerStep(l)>>_startupVars
  BY DEF ListenerUnhindered
<1>4. MainUnhindered /\ Pending => ENABLED <<MainStep>>_startupVars
  BY DEF MainUnhindered, Pending
<1>5. EndedByFailure <=> main = "exited" /\ exitCode = 3
  BY DEF EndedByFailure
<1> QED
  BY <1>1, <1>2, <1>3, <1>4, <1>5, PendingSteps, PendingIsReceived, PTL
     DEF Premise, FailureStops, ListenerFairness, MainFairness

(* One listener's failure ends the process with code 3, however many       *)
(* others serve, fail or report at the same time.  The premise is that no  *)
(* goroutine waits but where the code says so.                             *)
THEOREM FailureEndsProcess == FairSpec /\ []StartupUnhindered => FailureStopsAll
<1>1. StartupUnhindered => MainUnhindered /\ \A l \in AllListeners : ListenerUnhindered(l)
  BY DEF StartupUnhindered
<1> SUFFICES ASSUME NEW k \in AllListeners
             PROVE  FairSpec /\ []StartupUnhindered => FailureStops(k)
  BY DEF FailureStopsAll
<1>2. StartupUnhindered => MainUnhindered /\ ListenerUnhindered(k)
  BY <1>1
<1>3. ListenersFairness => ListenerFairness(k)
  BY DEF ListenersFairness
<1>4. Premise(k) => FailureStops(k)
  BY OneFailureStops
<1> QED BY <1>2, <1>3, <1>4, AlwaysIInv, PTL DEF FairSpec, Spec, StartupFairness, Premise
=============================================================================

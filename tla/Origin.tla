------------------------------- MODULE Origin -------------------------------
(***************************************************************************)
(* Who may open a WebSocket: checkOrigin, matchOrigin and tellHostPort     *)
(* (libwebsocketd/http.go), the policy warnings of the startup, and the    *)
(* redirect of --redirport (main.go).  All are functions of the command    *)
(* line and one request.  Names are compared whole, so a host is a value;  *)
(* a port is a number or absent.                                           *)
(***************************************************************************)
EXTENDS Naturals, Sequences

NoPort == 0

(* An Origin header is absent, the word "null", something that does not    *)
(* parse, or a URL.  Absent and null, and what file: parses to, have       *)
(* neither host nor port.                                                  *)
Absent    == [kind |-> "absent", scheme |-> "", host |-> "", port |-> NoPort]
NullOrigin == [Absent EXCEPT !.kind = "null"]
Malformed == [Absent EXCEPT !.kind = "malformed"]
FileOrigin == [kind |-> "url", scheme |-> "file", host |-> "", port |-> NoPort]

(* An entry of --origin has a scheme or "", a host, a port or none, and    *)
(* may end in ":*".  No --origin at all is the empty list.                 *)
Entry(scheme, host, port, anyPort) ==
  [scheme |-> scheme, host |-> host, port |-> port, anyPort |-> anyPort]

(* Host and port, with the default port of the scheme if none is given. *)
TellHostPort(hp, ssl) ==
  [server |-> hp.host,
   port   |-> CASE hp.port # NoPort -> hp.port
                [] hp.port = NoPort /\ ssl -> 443
                [] OTHER -> 80]

(* Fault: a portless entry matches every port of its host (issue #473). *)
EntryMatchesAnyPort(e, origin, scheme) ==
  /\ e.scheme \in {"", scheme}
  /\ e.host = origin.server
  /\ e.anyPort \/ e.port \in {NoPort, origin.port}

(* One round of matchOrigin's loop. *)
EntryMatches(e, origin, scheme) ==
  /\ e.scheme \in {"", scheme}
  /\ e.host = origin.server
  /\ \/ e.anyPort
     \/ e.port # NoPort /\ e.port = origin.port
     \/ e.port = NoPort /\ origin.port = 80 /\ e.scheme \in {"", "http"}
     \/ e.port = NoPort /\ origin.port = 443 /\ e.scheme \in {"", "https"}

MatchOrigin(origin, scheme, allowed) ==
  \E i \in DOMAIN allowed : EntryMatches(allowed[i], origin, scheme)

(* No header counts as "file:", and so does "null" unless there is a list  *)
(* to find it in.  It is then not found, as it does not parse.             *)
OriginOf(header, allowed) ==
  IF header = Absent \/ (header = NullOrigin /\ allowed = <<>>)
    THEN FileOrigin
    ELSE header

(* checkOrigin returns no error.  policy has the fields sameOrigin and     *)
(* allowed; host is the request's Host header, of which "splits" says that *)
(* net.SplitHostPort makes sense of it; tls says how the request came.     *)
CheckOrigin(policy, header, host, tls) ==
  LET o == OriginOf(header, policy.allowed)
      origin == TellHostPort(o, o.scheme = "https")
  IN /\ o.kind = "url"
     /\ policy.sameOrigin => host.splits /\ origin = TellHostPort(host, tls)
     /\ policy.allowed # <<>> => MatchOrigin(origin, o.scheme, policy.allowed)

-----------------------------------------------------------------------------
(* The warnings of the startup.                                            *)

(* originPolicyWarning is printed. *)
WarnsOfNoPolicy(policy) ==
  ~policy.sameOrigin /\ policy.allowed = <<>> /\ ~policy.anyOrigin

(* Fault: only entries without a port are reported. *)
SchemelessPortlessWarnings(ssl, allowed) ==
  {allowed[i] : i \in {j \in DOMAIN allowed :
                         ssl /\ allowed[j].scheme = "" /\ allowed[j].port = NoPort}}

(* schemelessOriginWarnings. *)
SchemelessOriginWarnings(ssl, allowed) ==
  {allowed[i] : i \in {j \in DOMAIN allowed : ssl /\ allowed[j].scheme = ""}}

-----------------------------------------------------------------------------
(* The redirect: the client's own host, the scheme of the main server and  *)
(* the port of the address this redirect belongs to.                       *)

(* Fault: the scheme is left as it is. *)
RedirectLocationSameScheme(clientHost, addr, ssl) ==
  [scheme |-> "http", host |-> clientHost.host, port |-> addr.port]

RedirectLocation(clientHost, addr, ssl) ==
  [scheme |-> IF ssl THEN "https" ELSE "http",
   host   |-> clientHost.host,
   port   |-> addr.port]

-----------------------------------------------------------------------------
(* What a browser sends.  A URL has the port it leads to; in the headers a *)
(* browser leaves out the port that is the scheme's default.               *)

DefaultPort(scheme) == IF scheme = "https" THEN 443 ELSE 80

SpelledPort(url) == IF url.port = DefaultPort(url.scheme) THEN NoPort ELSE url.port

BrowserOrigin(page) ==
  [kind |-> "url", scheme |-> page.scheme, host |-> page.host, port |-> SpelledPort(page)]

BrowserHost(target) == [host |-> target.host, port |-> SpelledPort(target), splits |-> TRUE]

-----------------------------------------------------------------------------
(* The policy as docsite/content/reference/cli-flags.md has it, in terms   *)
(* of the page's URL and the URL it opens.                                 *)

(* "matches the default port of a scheme it accepts": of its own scheme,   *)
(* or of either if it has none.                                            *)
Lists(e, page) ==
  /\ e.host = page.host
  /\ e.scheme # "" => e.scheme = page.scheme
  /\ page.port \in CASE e.anyPort -> {page.port}
                     [] ~e.anyPort /\ e.port # NoPort -> {e.port}
                     [] OTHER -> {DefaultPort(s) :
                                    s \in IF e.scheme = "" THEN {"http", "https"} ELSE {e.scheme}}

MayConnect(policy, page, target) ==
  /\ policy.sameOrigin => page.host = target.host /\ page.port = target.port
  /\ policy.allowed # <<>> =>
       \E e \in {policy.allowed[i] : i \in DOMAIN policy.allowed} : Lists(e, page)
=============================================================================

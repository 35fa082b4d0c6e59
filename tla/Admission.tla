------------------------------ MODULE Admission ------------------------------
(***************************************************************************)
(* A server from its command line to its answer to a request: Startup,     *)
(* then one upgrade or one request to a redirect server.  checkOrigin,     *)
(* createEnv and redirectTarget keep no state, so one request per          *)
(* behaviour stands for all.                                               *)
(***************************************************************************)
EXTENDS Startup, Environment

CONSTANTS
  Requests,  \* upgrade requests: [origin, host, headers]
  Pages,     \* URLs a browser may have loaded a page from, or open
  Environ    \* names that have a value in websocketd's own environment

ASSUME PoliciesOK ==
  \A f \in CommandLines :
    /\ f.sameOrigin \in BOOLEAN
    /\ f.anyOrigin \in BOOLEAN
    /\ \A i \in DOMAIN f.allowed : f.allowed[i].anyPort \in BOOLEAN

ASSUME PagesOK ==
  \A p \in Pages : p.scheme \in {"http", "https"} /\ p.port \in Nat \ {NoPort}

ASSUME RequestsOK ==
  \A r \in Requests : \A h \in r.headers : h.words \in Seq(STRING) /\ h.words # <<>>

(* Pages come from more than one host, and from some that no list names. *)
ASSUME StrangersOK ==
  \A f \in CommandLines, scheme \in {"http", "https"} :
    \E p, t \in Pages :
      /\ t.scheme = scheme /\ p.host # t.host
      /\ f.allowed # <<>> => \A i \in DOMAIN f.allowed : ~Lists(f.allowed[i], p)

VARIABLE answer

vars == <<startupVars, answer>>

NoAnswer == [kind |-> "none"]

Init == StartupInit /\ answer = NoAnswer

(* All listeners are up, and nothing was asked yet. *)
Settled ==
  /\ main = "waiting"
  /\ \A l \in DOMAIN phase : phase[l] = "serving"
  /\ answer = NoAnswer

(* An upgrade at a listener of the main server.  checkOrigin decides;      *)
(* createEnv makes the environment of the program that is then started.    *)
Upgrade(l, r) ==
  /\ Settled
  /\ l \in DOMAIN phase /\ l[1] # "redirect"
  /\ flags.command # "" \/ flags.dir # ""
  /\ IF CheckOrigin(flags, r.origin, r.host, flags.ssl)
       THEN \E env \in CreateEnv(flags.ssl, BuildParentEnv(flags.passEnv, Environ), r.headers) :
              answer' = [kind |-> "upgraded", request |-> r, env |-> env]
       ELSE answer' = [kind |-> "refused", request |-> r]
  /\ UNCHANGED startupVars

(* The handler of a redirect server, for a browser that asks it for a page. *)
Redirect(l, host) ==
  /\ Settled
  /\ l \in DOMAIN phase /\ l[1] = "redirect"
  /\ answer' = [kind     |-> "redirected", by |-> l, host |-> host,
                location |-> RedirectLocation([host |-> host, port |-> flags.redirPort],
                                              Addr(flags)[l[2]], flags.ssl)]
  /\ UNCHANGED startupVars

Next ==
  \/ StartupNext /\ answer' = NoAnswer
  \/ \E l \in AllListeners, r \in Requests : Upgrade(l, r)
  \/ \E l \in AllListeners, p \in Pages : Redirect(l, p.host)

Spec == Init /\ [][Next]_vars

FairSpec == Spec /\ StartupFairness

-----------------------------------------------------------------------------
(* Properties.                                                             *)

Scheme == IF flags.ssl THEN "https" ELSE "http"

(* A browser's upgrade is accepted exactly if the documented policy lets   *)
(* its page connect, whichever ports are spelled out in its headers.  The  *)
(* same through a proxy that terminates TLS and forwards a Host with the   *)
(* public port; if it forwards none, --sameorigin accepts nothing          *)
(* (docsite, cli-flags.md and tls.md; checkOrigin, matchOrigin,            *)
(* tellHostPort).                                                          *)
OriginAsDocumented ==
  answer.kind \in {"upgraded", "refused"} =>
    \A page \in Pages, target \in Pages :
      answer.request.origin = BrowserOrigin(page) =>
        /\ target.scheme = Scheme /\ answer.request.host = BrowserHost(target) =>
             (answer.kind = "upgraded" <=> MayConnect(flags, page, target))
        /\ ~flags.ssl /\ page.scheme = "https" /\ target = page /\ page.port # 80 =>
             /\ answer.request.host = [host |-> page.host, port |-> page.port, splits |-> TRUE] =>
                  (answer.kind = "upgraded" <=> MayConnect(flags, page, target))
             /\ answer.request.host = [host |-> page.host, port |-> NoPort, splits |-> TRUE] =>
                  (flags.sameOrigin => answer.kind = "refused")

(* The warnings tell the truth: "any origin" is printed exactly if every   *)
(* page is accepted and the operator did not ask for that, and under --ssl *)
(* an insecure page is accepted by the list only where a warning or the    *)
(* entry itself said so (originPolicyWarning, schemelessOriginWarnings).   *)
WarningsAccurate ==
  Settled =>
    LET Accepted(page, target) ==
          CheckOrigin(flags, BrowserOrigin(page), BrowserHost(target), flags.ssl)
        targets == {t \in Pages : t.scheme = Scheme}
    IN /\ warned.policy <=>
            ~flags.anyOrigin /\ \A page \in Pages, target \in targets : Accepted(page, target)
       /\ \A page \in Pages, target \in targets :
            /\ flags.ssl /\ flags.allowed # <<>>
            /\ page.scheme = "http" /\ Accepted(page, target)
            => \E i \in DOMAIN flags.allowed :
                 /\ Lists(flags.allowed[i], page)
                 /\ flags.allowed[i].scheme = "http" \/ flags.allowed[i] \in warned.entries

(* A redirect leads to a listener of the main server, under the scheme it  *)
(* speaks, and a page loaded from there passes --sameorigin when it opens  *)
(* its socket (redirectTarget, redirectLocation, checkOrigin).             *)
RedirectLeadsHere ==
  answer.kind = "redirected" =>
    LET url == answer.location
        itsMain == <<"serve", answer.by[2]>>
        same == [sameOrigin |-> TRUE, allowed |-> <<>>]
    IN /\ itsMain \in bound
       /\ AddressOf(itsMain).port = url.port
       /\ url.scheme = Scheme /\ url.host = answer.host
       /\ CheckOrigin(same, BrowserOrigin(url), BrowserHost(url), flags.ssl)

(* Every variable of the program has the origin environment-variables.md   *)
(* names for it: what a client sends stays in HTTP_ variables other than   *)
(* HTTP_PROXY and in those of the request line and Host, --passenv         *)
(* displaces no standard variable, HTTPS means --ssl, and every header but *)
(* Proxy has its variable (createEnv, buildParentEnv).                     *)
EnvironmentAsDocumented ==
  answer.kind = "upgraded" =>
    LET env == answer.env
        headers == answer.request.headers
    IN /\ \A v \in DOMAIN env : AsDocumented(v, env[v], flags.ssl, flags.passEnv, headers)
       /\ DOMAIN Standard \subseteq DOMAIN env
       /\ flags.ssl => HTTPS \in DOMAIN env
       /\ \A h \in headers : IsProxy(h) \/ env[VarName(h)][1] = "header"
=============================================================================

---------------------------- MODULE MCAdmission ----------------------------
(* A small instance of Admission for TLC.  The command lines are families: *)
(* every two settings together, every way to listen, every origin policy,  *)
(* and every use of --passenv, each on top of a command line that works.   *)
EXTENDS Admission

Ports == {80, 443, 8080}

(* Every spelling of one host, and another one to be told from it. *)
MCPages ==
  [scheme : {"http", "https"}, host : {"a"}, port : Ports]
    \cup [scheme : {"http", "https"}, host : {"b"}, port : {443, 8080}]

Working == [Defaults EXCEPT !.command = "file"]
WithSSL(f) == [f EXCEPT !.ssl = TRUE, !.sslCert = "file", !.sslKey = "file"]

(* The values tried for each flag, beside its default. *)
Tried == [
  ask |-> {"help", "undefined flag", "version", "license"}, port |-> {8080},
  addrs |-> {<<"a">>, <<"::1">>, <<"a", "b">>}, redirPort |-> {80, 8081},
  unixSocket |-> {TRUE}, socketMode |-> {"0700", "0", "01000", "rwx"}, logLevel |-> {"loud"},
  ssl |-> {TRUE}, sslCert |-> {"file"}, sslKey |-> {"file"}, sslCA |-> {"file"},
  maxFrameSize |-> {-1, 0}, binary |-> {TRUE}, raw |-> {TRUE}, passStderr |-> {TRUE},
  sameOrigin |-> {TRUE}, anyOrigin |-> {TRUE}, allowed |-> {<<Entry("", "a", NoPort, FALSE)>>},
  command |-> {"", "missing"}, dir |-> {"dir", "file", "missing"}, staticDir |-> {"dir", "file"},
  cgiDir |-> {"dir", "missing"}, devConsole |-> {TRUE}]

Settings == UNION {{<<flag, value>> : value \in Tried[flag]} : flag \in DOMAIN Tried}

Set(f, s) == [f EXCEPT ![s[1]] = s[2]]

Pairs ==
  LET base == {Working, WithSSL(Working), [Defaults EXCEPT !.staticDir = "dir"]}
  IN {Defaults} \cup {Set(Set(f, s), t) : f \in base, s \in Settings, t \in Settings}

OneAddress ==
  {[f EXCEPT !.addrs = as, !.port = p, !.redirPort = r, !.unixSocket = TRUE, !.socketMode = "0700"] :
     f \in {Working, WithSSL(Working)}, p \in {0, 8080}, r \in {0, 80},
     as \in {<<>>, <<"a">>, <<"::1">>}}

TwoAddresses ==
  {[Working EXCEPT !.addrs = as, !.port = 8080, !.redirPort = r] :
     r \in {8080, 8081}, as \in {<<"a", "b">>, <<"", "a">>, <<"a", "::1">>}}

Everything ==
  {[Working EXCEPT !.addrs = <<"a", "b">>, !.redirPort = 8081, !.unixSocket = TRUE]}

Entries ==
  {Entry(s, "a", p, FALSE) : s \in {"", "http", "https"}, p \in {NoPort} \cup Ports}
    \cup {Entry(s, "b", NoPort, FALSE) : s \in {"", "http", "https"}}
    \cup {Entry(s, "a", p, TRUE) : s \in {"", "http", "https"}, p \in {NoPort, 8080}}
    \cup {Entry("", "", NoPort, FALSE)}

Lists1 == {<<e>> : e \in Entries}
Lists2 == {<<Entry("https", "b", NoPort, FALSE), e>> : e \in Entries}

Policies ==
  {[f EXCEPT !.port = p, !.sameOrigin = s, !.allowed = l] :
     f \in {Working, WithSSL(Working)}, p \in {0, 8080}, s \in BOOLEAN,
     l \in {<<>>} \cup Lists1 \cup Lists2}

Passing ==
  {[f EXCEPT !.passEnv = list] :
     f \in {Working, WithSSL(Working)}, list \in
       {<<v, w>> : v \in {<<"PATH">>, HTTPS, SoftwareVar, <<"HTTP", "PROXY">>},
                   w \in {<<"QUERY", "STRING">>, <<"REMOTE", "ADDR">>, <<"CONTENT", "TYPE">>,
                          <<"HTTP", "X", "FOO">>, <<"HOME">>}}}

MCCommandLines == Pairs \cup OneAddress \cup TwoAddresses \cup Everything \cup Policies \cup Passing

MCEnviron == {<<"PATH">>, HTTPS, SoftwareVar, <<"HTTP", "PROXY">>, <<"HTTP", "X", "FOO">>,
              <<"QUERY", "STRING">>, <<"REMOTE", "ADDR">>, <<"CONTENT", "TYPE">>}

Header(words, sep) == [words |-> words, sep |-> sep]
Headers == {Header(<<"PROXY">>, ""), Header(<<"REMOTE", "ADDR">>, "-"),
            Header(<<"X", "FOO">>, "-"), Header(<<"X", "FOO">>, "_")}

HostHeaders == [host : {"a"}, port : {NoPort} \cup Ports, splits : {TRUE}]
                 \cup {[host |-> "", port |-> NoPort, splits |-> FALSE]}

MCRequests ==
  [origin : {BrowserOrigin(p) : p \in MCPages}, host : HostHeaders, headers : {{}}]
    \cup [origin : {Absent, NullOrigin, Malformed},
          host : {h \in HostHeaders : h.port = NoPort}, headers : {{}}]
    \cup [origin : {Absent}, host : {[host |-> "a", port |-> NoPort, splits |-> TRUE]},
          headers : SUBSET Headers]
=============================================================================

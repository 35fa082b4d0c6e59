----------------------------- MODULE Environment -----------------------------
(***************************************************************************)
(* The environment of a program: buildParentEnv (config.go) and createEnv  *)
(* (libwebsocketd/env.go).  A name is the sequence of its words, which "_" *)
(* joins in a variable and "-" or "_" in a header; letter case is dropped, *)
(* as it is by upper-casing.  A value is where it comes from.              *)
(*                                                                         *)
(* createEnv returns a list in which a name may occur several times;       *)
(* os/exec keeps the last.  Here each part of the list is a function, laid *)
(* over the parts before it.                                               *)
(***************************************************************************)
EXTENDS Naturals, Sequences

(* Part b of the list after part a. *)
Over(b, a) == [v \in DOMAIN a \cup DOMAIN b |-> IF v \in DOMAIN b THEN b[v] ELSE a[v]]

Of(source, names) == [v \in names |-> <<source>>]

HTTPS == <<"HTTPS">>
SoftwareVar == <<"SERVER", "SOFTWARE">>

(* What createEnv sets for every request: from websocketd and the          *)
(* connection, from the request line and the Host header, or to nothing.   *)
ServerVars == {
  <<"REMOTE", "ADDR">>, <<"REMOTE", "HOST">>, <<"REMOTE", "PORT">>, <<"UNIQUE", "ID">>,
  <<"SERVER", "PROTOCOL">>, <<"GATEWAY", "INTERFACE">>, <<"REQUEST", "METHOD">>}
RequestVars == {
  <<"SERVER", "NAME">>, <<"SERVER", "PORT">>, <<"SCRIPT", "NAME">>, <<"PATH", "INFO">>,
  <<"PATH", "TRANSLATED">>, <<"QUERY", "STRING">>, <<"REQUEST", "URI">>}
ClearedVars == {
  <<"AUTH", "TYPE">>, <<"CONTENT", "LENGTH">>, <<"CONTENT", "TYPE">>,
  <<"REMOTE", "IDENT">>, <<"REMOTE", "USER">>}

Standard ==
  Over(Of("server", ServerVars), Over(Of("request", RequestVars), Of("empty", ClearedVars)))

(* The names of --passenv that websocketd's own environment gives a value  *)
(* that is not blank.                                                      *)
BuildParentEnv(passEnv, environ) ==
  Of("parent", {passEnv[i] : i \in {j \in DOMAIN passEnv :
                                      passEnv[j] \in environ /\ passEnv[j] # HTTPS}})

(* A header has its words and the character between them. *)
VarName(h) == <<"HTTP">> \o h.words

IsProxy(h) == h.words = <<"PROXY">>

Forwarded(headers) == {h \in headers : ~IsProxy(h)}

(* The headers come in the order of a map walk: of two that make the same  *)
(* variable either may be the last.                                        *)
HeaderParts(headers) ==
  LET names == {VarName(h) : h \in Forwarded(headers)}
  IN {part \in [names -> {<<"header", h>> : h \in headers}] :
        \A v \in names : VarName(part[v][2]) = v}

(* Fault: the standard variables come before those of --passenv. *)
CreateEnvParentLast(ssl, parent, headers) ==
  LET fixed == IF ssl THEN Over(Of("server", {HTTPS}), Standard) ELSE Standard
  IN {Over(part, Over(parent, Over(fixed, Of("server", {SoftwareVar})))) :
        part \in HeaderParts(headers)}

(* Every environment the program may get for a request.  main never sets   *)
(* Config.Env, the last part.                                              *)
CreateEnv(ssl, parent, headers) ==
  LET fixed == IF ssl THEN Over(Of("server", {HTTPS}), Standard) ELSE Standard
  IN {Over(part, Over(fixed, Over(parent, Of("server", {SoftwareVar})))) :
        part \in HeaderParts(headers)}

-----------------------------------------------------------------------------
(* What docsite/content/reference/environment-variables.md says of a       *)
(* variable, and so where its value may come from.                         *)

IsHeaderVar(v) == Len(v) > 1 /\ v[1] = "HTTP"

AsDocumented(v, value, ssl, passEnv, headers) ==
  CASE v \in ServerVars  -> value = <<"server">>
    [] v \in RequestVars -> value = <<"request">>
    [] v \in ClearedVars -> value = <<"empty">>
    [] v = HTTPS         -> ssl /\ value = <<"server">>
    [] OTHER ->
         \/ v = SoftwareVar /\ value = <<"server">>
         \/ value = <<"parent">> /\ \E i \in DOMAIN passEnv : passEnv[i] = v
         \/ /\ IsHeaderVar(v) /\ v # <<"HTTP", "PROXY">>
            /\ \E h \in headers : value = <<"header", h>> /\ v = VarName(h)
=============================================================================

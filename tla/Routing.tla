------------------------------ MODULE Routing ------------------------------
(***************************************************************************)
(* Which file a request leads to and what is done with it: GetURLInfo      *)
(* (libwebsocketd/handler.go) for an upgrade, and serveCGI, then           *)
(* serveStatic (http.go) for any other request.  Requests are looked at    *)
(* one at a time; between any two steps a deployment may flip the link.    *)
(*                                                                         *)
(* A URL is the sequence of its names, among which ".." may be.  Slots and *)
(* the upgrade itself are in Server.tla.                                   *)
(***************************************************************************)
EXTENDS Containment

CONSTANTS
  Links,     \* the links there may be; a flip picks another at the same path
  Aliases,   \* the second names a directory may have
  Settings,  \* values of --staticdir, --cgidir and --dir
  URLs       \* the paths that are requested

ASSUME PathsOK ==
  /\ Dirs \subseteq Seq(STRING) /\ Files \subseteq Seq(STRING)
  /\ Dirs \cap Files = {}
  /\ URLs \subseteq Seq(STRING) /\ <<>> \in URLs
  /\ \A named \in Aliases : named.at \in Seq(STRING) /\ named.on \in Seq(STRING)
  /\ \A l \in Links : l.at \in Seq(STRING) /\ l.to \in Seq(STRING)
  /\ Settings \subseteq
       [static : Seq(STRING), cgi : Seq(STRING), script : Seq(STRING)]

(* A link leads to a path without a link in it, as EvalSymlinks does. *)
ASSUME LinksLeadToReal ==
  \A l \in Links, named \in Aliases : \A n \in 1..Len(l.to) :
    NamedUnder(named, SubSeq(l.to, 1, n)) # l.at

(* What the walk of dirRelationResolved relies on: a second name is as     *)
(* deep as the first, and no directory that is configured is the root.     *)
SameDepth == \A named \in Aliases : Len(named.at) = Len(named.on)

NotTheRoot ==
  /\ \A s \in Settings : <<>> \notin {s.static, s.cgi, s.script}
  /\ \A l \in Links : l.to # <<>>

(* A flag that is not given, and a prefix that was not looked for yet. *)
NoDir == <<"not given">>
NotResolved == <<"not resolved">>
Index == "index.html"

VARIABLES
  static, cgi, script,  \* the three flags
  prefix,   \* cgiMountCached: the URL at which cgi is found inside static
  moved,    \* whether the link was flipped since the prefix was resolved
  url,      \* the request being served
  upgrade,  \* whether it is an upgrade
  stage,    \* the handler that is next
  how,      \* what was done: "run", "accept", "serve", "refuse"
  file      \* with which file

vars == <<tree, static, cgi, script, prefix, moved, url, upgrade, stage, how, file>>
flags == <<static, cgi, script>>

TypeOK ==
  /\ link \in Links
  /\ alias \in Aliases
  /\ [static |-> static, cgi |-> cgi, script |-> script] \in Settings
  /\ moved \in BOOLEAN
  /\ url \in URLs
  /\ upgrade \in BOOLEAN
  /\ stage \in {"idle", "websocket", "cgi", "static"}
  /\ how \in {"none", "run", "accept", "serve", "refuse"}
  /\ prefix = NotResolved \/ IsSuffix(prefix, Resolve(cgi)) \/ moved
  /\ stage # "idle" => how = "none"  \* a request is answered once

(* validateDir and resolveScriptDir refuse to start without a directory. *)
Init ==
  /\ link \in Links
  /\ alias \in Aliases
  /\ \E s \in Settings : static = s.static /\ cgi = s.cgi /\ script = s.script
  /\ \A d \in {static, cgi, script} \ {NoDir} : IsDir(d)
  /\ prefix = NotResolved
  /\ moved = FALSE
  /\ url = <<>>
  /\ upgrade = FALSE
  /\ stage = "idle"
  /\ how = "none"
  /\ file = <<>>

(* path.Clean of a rooted path. *)
CleanStep(q, name) ==
  IF name # ".." THEN Append(q, name) ELSE IF q = <<>> THEN <<>> ELSE Front(q)

Clean(p) == FoldLeft(CleanStep, <<>>, p)

Answer(what, f) ==
  /\ how' = what
  /\ file' = f
  /\ stage' = "idle"

Refuse == Answer("refuse", <<>>)

-----------------------------------------------------------------------------
(* ServeHTTP tries the handlers in this order. *)

Arrive ==
  /\ stage = "idle"
  /\ url' \in URLs
  /\ upgrade' \in BOOLEAN
  /\ stage' = "websocket"
  /\ how' = "none"
  /\ file' = <<>>
  /\ UNCHANGED <<tree, flags, prefix, moved>>

(* A symlink to the current release is pointed at another one. *)
Flip ==
  /\ link' \in {l \in Links \ {link} : l.at = link.at}
  /\ moved' = (prefix # NotResolved)
  /\ UNCHANGED <<alias, flags, prefix, url, upgrade, stage, how, file>>

(* The parts of the URL are followed to the first that is no directory. *)
GetURLInfo ==
  LET At(i) == Clean(script \o SubSeq(url, 1, i))
      stops == {i \in 1..Len(url) : ~IsDir(At(i))}
  IN  IF stops # {} /\ IsFile(At(Min(stops))) /\ CheckPathBoundary(At(Min(stops)), script)
        THEN Answer("accept", At(Min(stops)))
        ELSE Refuse

ServeWebSocket ==
  /\ stage = "websocket"
  /\ IF script # NoDir /\ upgrade
       THEN GetURLInfo
       ELSE stage' = "cgi" /\ UNCHANGED <<how, file>>
  /\ UNCHANGED <<tree, flags, prefix, moved, url, upgrade>>

(* Fault: the two flags are compared as they are spelled. *)
SpelledMountPrefix ==
  IF static # NoDir /\ IsStrictPrefix(static, cgi)
    THEN SubSeq(cgi, Len(static) + 1, Len(cgi))
    ELSE <<>>

(* An empty prefix is none: cgi is static itself or not inside it. *)
CgiMountPrefix ==
  IF static # NoDir /\ DirRelation(cgi, static).answer = "inside"
    THEN DirRelation(cgi, static).rel
    ELSE <<>>

(* cgiMount resolves the prefix once, with the first request that asks. *)
CgiMount == IF prefix = NotResolved THEN CgiMountPrefix ELSE prefix

(* cgiURLCandidates: the path itself, then what follows the prefix. *)
Candidates(path, mount) ==
  IF mount # <<>> /\ IsPrefix(mount, path)
    THEN <<path, SubSeq(path, Len(mount) + 1, Len(path))>>
    ELSE <<path>>

Runnable(candidate) ==
  /\ candidate # <<>>
  /\ IsFile(cgi \o candidate)
  /\ CheckPathBoundary(cgi \o candidate, cgi)

ServeCGI ==
  /\ stage = "cgi"
  /\ IF cgi = NoDir
       THEN stage' = "static" /\ UNCHANGED <<prefix, how, file>>
       ELSE LET names == Candidates(Clean(url), CgiMount)
                fits == {i \in DOMAIN names : Runnable(names[i])}
            IN  /\ prefix' = CgiMount
                /\ IF fits # {}
                     THEN Answer("run", cgi \o names[Min(fits)])
                     ELSE stage' = "static" /\ UNCHANGED <<how, file>>
  /\ UNCHANGED <<tree, flags, moved, url, upgrade>>

-----------------------------------------------------------------------------
(* The static handler. *)

(* Fault: --dir is forgotten. *)
ExecDirsCgiOnly ==
  {d \in {cgi} \ {NoDir} : DirRelation(static, d).answer # "inside"}

(* staticExecExclusions: no file of these is served, unless the static     *)
(* root is itself inside.                                                  *)
ExecDirs ==
  {d \in {cgi, script} \ {NoDir} : DirRelation(static, d).answer # "inside"}

(* Dot files are refused, but for .well-known as the first name. *)
DotNames == {".env", ".well-known"}
HasDotSegment(path) ==
  \E i \in DOMAIN path : path[i] \in DotNames /\ ~(i = 1 /\ path[i] = ".well-known")

(* boundedDir.Open up to its look at directories. *)
MayOpen(path) ==
  /\ ~HasDotSegment(path)
  /\ Exists(static \o path)
  /\ CheckPathBoundary(static \o path, static)
  /\ \A d \in ExecDirs : DirRelation(static \o path, d).answer # "inside"

(* The index look of boundedDir.Open, for what http.FileServer makes of a  *)
(* path: a directory means its index, an index is redirected to it.        *)
Page(path) ==
  LET named == IF path # <<>> /\ Last(path) = Index THEN Front(path) ELSE path
  IN  IF IsDir(static \o named) THEN Append(named, Index) ELSE named

ServeStatic ==
  /\ stage = "static"
  /\ LET path == Page(Clean(url))
     IN  IF /\ static # NoDir
            /\ path # <<>>
            /\ MayOpen(path)
            /\ Last(path) = Index => MayOpen(Front(path))
            /\ IsFile(static \o path)
           THEN Answer("serve", static \o path)
           ELSE Refuse
  /\ UNCHANGED <<tree, flags, prefix, moved, url, upgrade>>

Next == Arrive \/ Flip \/ ServeWebSocket \/ ServeCGI \/ ServeStatic

Spec == Init /\ [][Next]_vars

-----------------------------------------------------------------------------
(* Properties.  What was done with a request is judged by the tree at that *)
(* moment.                                                                 *)

(* "Directories are compared by file identity ... not by string": whatever *)
(* names lead to them, dirRelation tells for the configured directories    *)
(* whether one lies in the other, and for a request's file whether it lies *)
(* in one of them (comment of dirRelation).                                *)
ContainmentByIdentity ==
  \A d \in {static, cgi, script}, p \in {static, cgi, script, static \o Clean(url)} :
    IsDir(d) /\ Exists(p) =>
      (DirRelation(p, d).answer = "inside" <=> Beneath(Resolve(p), Resolve(d)))

(* No file of a directory that is configured for execution is ever served  *)
(* as static content, whatever its URL and wherever the link points, but   *)
(* where the static root itself lies in that directory.                    *)
SourceNotServed ==
  [][how = "none" /\ how' = "serve" =>
       \A d \in {cgi, script} \ {NoDir} :
         IsDir(d) /\ Beneath(Resolve(file'), Resolve(d)) => Beneath(Resolve(static), Resolve(d))]_vars

(* What is run, accepted or served lies in the directory the handler is    *)
(* configured with, past every link and "..".                              *)
StaysInside ==
  [][\A home \in {<<"run", cgi>>, <<"accept", script>>, <<"serve", static>>} :
       how = "none" /\ how' = home[1] => Beneath(Resolve(file'), Resolve(home[2]))]_vars

(* A script of a CGI directory inside the static tree also answers "at     *)
(* [its] path there" (cli-flags.md): however the two flags are spelled, it *)
(* is run, never refused, for as long as the link is where it was when the *)
(* prefix was resolved.                                                    *)
NaturalURLRuns ==
  [][LET path == Clean(url)
         home == Resolve(cgi)
     IN  /\ stage = "cgi" /\ stage' # stage /\ ~moved
         /\ NoDir \notin {cgi, static} /\ IsDir(cgi) /\ IsDir(static)
         => \A k \in 1..Len(home) :
              LET mount == SubSeq(home, Len(home) - k + 1, Len(home))
                  named == home \o SubSeq(path, k + 1, Len(path))
              IN  /\ Node(Up(home, k)) = Node(Resolve(static))
                  /\ IsStrictPrefix(mount, path)
                  /\ IsFile(named) /\ Resolve(named) = named
                  => how' = "run"]_vars

=============================================================================

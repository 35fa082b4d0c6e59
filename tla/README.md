# websocketd: specification, checks and proofs

websocketd puts a program behind a WebSocket: for every connection it starts the
program, sends the client each line the program writes to stdout, and writes each
message of the client to the program's stdin.  The concurrency is in what happens
when one of the two ends, blocks or misbehaves.  This directory holds TLA+ modules of
that part of the code, TLC runs on small instances of them, and TLAPS proofs for all
values of their constants.  `PROJECT.json` maps each definition to the lines it
models and lists the hazards the properties are for.

    tlc -workers 2 -config process.cfg MCProcessEndpoint
    tlapm ProcessEndpointProofs.tla

## 1. The system

| Component | Code | State | Operations | Hard part |
|---|---|---|---|---|
| Process endpoint | `libwebsocketd/process_endpoint.go`, `launcher.go`, `proc_unix.go` | the child and its process group, three pipes, `output` and `done` channels | `StartReading` (one or two readers), `Send`, `Terminate` | two readers feed one channel; `Terminate` races readers, timers and `cmd.Wait`; descendants hold the pipes |
| WebSocket endpoint | `libwebsocketd/websocket_endpoint.go` | the connection, `output`, `done`, the read deadline | `readFrames`, `Send`, `Terminate`, `setupPingPong` | parked readers; pongs are handled only inside a read |
| Session | `libwebsocketd/endpoint.go`, `handler.go` (`accept`) | two relay goroutines and a buffered channel that counts those that stopped | `PipeEndpoints` | either side may block the other; teardown while both block |
| Server | `libwebsocketd/http.go`, `handler.go` | `forks`, a buffered channel of tokens | `ServeHTTP`, `serveWebSocket`, `serveCGI`, `noteForkCreated`/`Completed` | many goroutines compete; six ways out must each give the token back |
| Unix socket listener | `main.go` (`serveUnixSocket`, `serve`) | the file at the path, shared by processes | stat, probe, remove, bind, listen, chmod | two processes; crashes leave the file behind |
| Listeners, TLS, redirect | `main.go` | the goroutines and sockets of all listeners, the `rejects` channel | `main`, `serve`, the redirect servers | the first error ends the process, and all may fail before it is read; TLS fails after the port is bound |
| Routing | `http.go`, `handler.go` | `cgiMountCached`; the file system | `GetURLInfo`, `serveCGI`, `serveStatic`, `dirRelation`, `checkPathBoundary`, `boundedDir` | directories with several names; links that change under a running server |
| Origin check | `http.go`, warnings in `config.go` | none | `checkOrigin`, `matchOrigin`, `tellHostPort` | default ports of two schemes, left out by browsers and proxies; the warnings are other code |
| Message framing | `process_endpoint.go` (`trimEOL` and the reads), `readFrames` | buffered bytes | `ReadBytes`, `ReadSlice` | lines longer than the buffer, no final newline |
| Command line | `config.go`, `internal/cliflags` | none after start | `parseCommandLine`, `resolveAddresses`, `wantsUnixSocketOnly`, the `validate` functions | two pieces of code decide what is listened on |
| Environment | `libwebsocketd/env.go`, `config.go` (`buildParentEnv`) | none | `createEnv` | a list in which the last of a name counts; header names that clash |
| Logging, console, help, Windows stubs, tools | the rest | none that others read | | |

How they interact: `main` parses the command line, prints the warnings and starts one
goroutine per listener (each address, a redirect server for each, the Unix socket); all
of them share one `WebsocketdServer`.  `ServeHTTP` takes a fork slot for an upgrade or a CGI script and
runs the handler; after `checkOrigin` and `createEnv`, `accept` starts the program, wraps it and the connection as two
endpoints and calls `PipeEndpoints`, which starts both endpoints' readers and the two
relays, waits for one relay, terminates first the process and then the connection,
and waits for the other relay.  The slot is given back when all that has returned.

What makes each part correct:

- process endpoint: output is neither lost, doubled nor reordered; its channel is
  closed once and after the last send; `Terminate` returns, kills nothing too early
  and leaves nothing behind;
- WebSocket endpoint: messages in order, `Terminate` wakes `readFrames` wherever it
  waits, keepalive cuts off the dead and only them;
- session: both directions keep order; the end of either side ends everything;
- framing: a message is a line and a line a message, and on stderr a line longer than the
  buffer neither ends the relay nor loses a byte;
- server: tokens match handlers, and programs stay within `--maxforks`;
- routing: a script is run at every URL that names it and its source is not served,
  whatever names lead to it;
- Unix socket: a live server is never made unreachable, a plain file never removed,
  a stale socket never in the way;
- start: an accepted command line opens a listener, a failed one ends the process with
  the documented code and nobody blocks on the way;
- origin: a page connects exactly if the documented policy lets it, and the warnings and
  the redirect agree with that;
- environment: no part of it displaces what the documentation gives to another.

## 2. Modules

    ProcessEndpoint --+
    Framing ----------+-- ProcessEndpointProofs ----+
                                                    +-- SessionProofs
    WebSocketEndpoint --- WebSocketEndpointProofs --+
          (both endpoints composed in Session; Descent, a principle about measures,
           is used by their proof modules and by KeepaliveProofs)

    ForkSlots (abstract) <-- Server --- ServerProofs
    Keepalive  --- KeepaliveProofs
    UnixSocket --- UnixSocketProofs
    Containment --- Routing --- RoutingProofs

    CommandLine --+
    Origin -------+-- Startup --+
    Environment ----------------+-- Admission --- AdmissionProofs

**ProcessEndpoint.**  `alive`, `killed` and `fds` are the process group: `child` is
the process websocketd started, `kin` stands for whatever it forked that stayed in
its group, with the pipe ends it inherited.  `pipe`, `inPipe` are the kernel's pipes.
`reader`/`held` are the goroutines of `relayStdout` (or `readBinaryOutput`) and
`relayStderr`: "read" is the blocking read, "send" the `select` on output and done.
Without `--passstderr` stderr is only logged, so its goroutine never sends.
`ladder` is how far `Terminate` has got; `waiter` is the goroutine in `cmd.Wait`,
which closes websocketd's ends of the pipes as it returns.  A timer is not a clock:
`Escalate` may happen at any time, so that a child that exits early, late or never and
every race of the timer with the report are included.  A *unit* stands for what one
read returns.

**Framing** says which bytes a unit is: the reads of `bufio` by where they end, and on top
of them `relayStdout`, `relayStderr` and `trimEOL` as functions of the whole stream.  That
needs no state: a read waits for what it needs, so *what* it returns depends on the bytes
alone, and *when* on ProcessEndpoint.  `MCProcessEndpoint` describes the units a second
time, by where lines begin and end, and its assumptions compare the two on all short
streams.

**WebSocketEndpoint.**  `rf`/`rheld` are `readFrames`; frames are of the endpoint's
type ("msg"), of the other type, or over `--maxframesize`.  Gorilla's connection and
the client are modelled from how the endpoint uses them.  A client is here, gone, or
hung.  `DeadlinePasses` is the deadline cutting off a client that answers (see 4).

**Session** composes the two with INSTANCE and adds the relays and `PipeEndpoints`.
A handover through an unbuffered channel is one step of sender and receiver.  That the
composition uses each endpoint as its own module allows is checked as a refinement.

**Keepalive** looks at the same endpoint in time: `deadline` and `sincePing` count
units of which `Interval` make up `--pingms`.

**Server** has one request per goroutine and the tokens in `forks`.  Of a session it
uses what `Session!NothingLeftRunning` says.  **ForkSlots** is what `--maxforks`
promises: grant while not full, refuse only when full, give back once.

**UnixSocket** has one action per system call of `serveUnixSocket` and of `net.Listen`
and `os.Chmod` in `serve`; `path` is what is at the path.  A restart is another server.

**Containment** is `dirRelation` and `checkPathBoundary` over a small file system: a
path is the sequence of its names, `link` is one symbolic link, and `alias` gives one
directory a second name that no link explains (folded names, a second mount).  `Node`
is what `os.SameFile` compares.  **Routing** is `ServeHTTP` down to the file a request
leads to: upgrade under `--dir`, CGI, static, tried in that order.  `prefix` is
`cgiMountCached`; `Flip` repoints the link between any two handlers.  Each handler sees
one tree; a command, the developer console and the redirects of `http.FileServer`, which
only change which URL is asked for next, are left out.

**CommandLine** has the flags as one record: `Defaults` is what `Register` gives, the
other definitions are the functions of `config.go` that read it.  A flag that names a
file has as its value what `stat` or the lookup says of it.  Every rejection exits with
1, so `Rejected` is a disjunction; in which order the messages come is left out.
**Startup** is `main`: parse, warn, launch, and one goroutine per listener with its
ways to fail; `bound` is who has a socket, `rejects` the channel.  What UnixSocket has
call by call is one step here.

**Origin** is `checkOrigin` with what it calls, the two warnings, and where a redirect
leads.  Its second half is the reference: how a browser spells a URL in its headers
(`BrowserOrigin`, `BrowserHost`) and the policy in the words of `cli-flags.md` (`Lists`,
`MayConnect`).  **Environment** is `createEnv`: each part of the list is a function laid
over the parts before it, and the map walk over the headers is a choice.  `AsDocumented`
is the reference, from `environment-variables.md`.

**Admission** puts these together: a command line, its listeners, and one answer to an
upgrade or to a request at a redirect server.  The three functions keep no state, so one
request per behaviour stands for all; and it is asked when all listeners serve
(`Settled`), since none of them reads what the listeners are doing.

Definitions marked *Fault* are not part of a specification.  Each is one definition
with a plausible mistake; putting it in place of the original must make TLC report the
property named in `PROJECT.json`, which shows that the property is not vacuous.

## 3. Runs

| Run | What it asks | Bounds |
|---|---|---|
| `process` | Before the start, as assumptions: stdout is relayed by lines and stderr in chunks of the buffer, raw mode by bytes, and what a client posts and the program copies comes back.  With `--passstderr`: no send on a closed channel, output intact and complete, no survivors, SIGKILL last; `Terminate` returns and all goroutines end; stderr blocks the program only while the relay is behind | 1 unit on stdout, 2 on stderr, pipes of 1, 2 messages in, descendants, any descriptor may be closed early; streams of at most 6 bytes, buffers of at most 4, 3 messages of 2 bytes |
| `session_safety` | Without it: the client gets the output in order, nothing is left at the return, teardown completes | 2 units out, 2 messages in, pipes and connection of 1 |
| `session_refines` | With `--passstderr`: each endpoint is used as its specification allows; the program reads what was sent, in order, under frames of every kind; a client that stays and sends only messages gets stderr to the last unit, unless one of them could not be written (for all output: theorem) | 1 unit on stderr, 2 frames of any kind, descendants |
| `session_ends` | The program's end and the client's end each end the session; no goroutine is held up that has something to do | 1 unit out, 2 frames in, keepalive on |
| `session_wedged` | violated, see 4 | 3 frames in |
| `server_slots` | Tokens match holders, programs within the limit, ForkSlots implemented | 4 requests of all kinds, 2 slots, symmetric |
| `unix_socket` | Reachable, files survive, refusals justified, with starts that do not overlap | 4 servers, so 3 crashes or exits before a last start |
| `unix_socket_overlap` | violated, see 4 | 2 servers |
| `keepalive` | Answering clients are kept, mute ones cut off, nobody is cut off before two intervals, and the ping goroutine ends | interval 4, latency 3, 2 frames in flight |
| `keepalive_parked` | violated, see 4 | interval 2, latency 1 |
| `requests` | Containment goes by identity; what is configured for execution is run at its natural URL and never served; nothing leaves its directory | 5 directories, 6 files, 1 link of 4 kinds or none, 3 second names or none, all layouts of the 3 flags, 10 URLs |
| `startup` | An accepted command line opens a listener; reports never block, a failure ends the process, and every exit code has its reason; origin policy, warnings, redirects and environment as documented | 2384 command lines in six families, 2 addresses, 2 hosts, ports 80, 443 and 8080, what browsers, proxies and others send |

Why the bounds are enough: a pipe or connection of one unit blocks as soon as a second
is written, so with two units every writer is seen blocked, every reader is seen with
something buffered behind what it holds, and both can be lost, doubled or swapped.
Two processes of a group are enough for a child that dies before its descendants and
the other way round.  Four requests on two slots have two waiting behind two.  Four
time units with a latency of three put a pong on every side of a tick.  The bounds
`MaxIn` and `MaxSends` of the endpoints are assumed never to bite in a session
(`BoundsOK`).  In `requests` each flag may be spelled by the real path, through the link
or by the second name, every relation of two directories (same, inside, around, beside)
occurs, and links lead out of a directory, into it and to a file.  A second name there
is as deep as the first: `dirRelationResolved` stops its walk at the depth of the
directory, so that a mount of it nearer to the root is reported outside, and nothing
counts as inside `/`, whose one separator is also that of `/a`.
The command lines of `startup` are families, each on top of one that works, with TLS and
without: every two settings together (`Pairs`: rules that interact do so two at a time),
every way to listen (`OneAddress`, `TwoAddresses`, `Everything`: listeners that conflict,
one that is no address, a redirect to the port it listens on), every origin list of one
entry and of two (`Policies`), and `--passenv` with names that other parts set
(`Passing`).  Two hosts are enough to be the same or another; 80 and 443 are the two
defaults and 8080 is neither.

Deadlock checking is off everywhere but in `requests`, because every instance may stop:
a session ends, a client may keep silent for good, servers run out or serve on unasked.  That nothing stops *early* is what
the liveness properties are for.

### Fairness

Each goroutine gets weak fairness of its own: it runs as long as it has something to
do, which the Go scheduler gives.  `Escalate` and `GiveUp` are fair because timers
fire.  `KernelFairness` says that a process dies once SIGKILL is delivered.  Client
and program owe nothing: they may stop reading, ignore stdin and every other signal,
keep silent, hang.  Only `CooperativeSpec`, used in `session_ends`, adds a client that
reads and a program that reads its stdin.  In Keepalive, `Tick` is fair: time passes.  In
Startup, `main` and each listener's goroutine are; that an error ends `Serve` is not.

## 4. Where code and documentation disagree

1. **A program that does not read its stdin outlives its client** (`session_wedged`,
   `ClientEndEndsSession`).  The relay to the program sits in `stdin.Write`, which has
   no deadline; that the connection is gone reaches only `readFrames`, whose closed
   channel the relay never gets to see.  Program, connection and fork slot stay until
   the program reads or exits.  `docsite/.../process-lifecycle.md:7` bounds a program's
   life "exactly by one WebSocket connection".  The cooperative run shows that this is
   the only obstacle of its kind: with a program that reads, the property holds.
2. **Servers started together can make each other unreachable**
   (`unix_socket_overlap`, `ServingIsReachable`).  Probe, remove, bind and listen are
   separate calls; a probe between another server's bind and listen is refused, and the
   socket then removed is the one that server goes on to serve.  `cli-flags.md:252`
   promises exit code 3 instead.
3. **Keepalive can cut off a client that answered** (`keepalive_parked`,
   `AnsweringClientKept`).  While `readFrames` is parked on its channel no pong is
   handled; a program that leaves a message unread for two intervals makes the next
   read fail on the deadline, with the pongs unread.  `process-lifecycle.md:122` speaks
   of keepalives that "go unanswered".

## 5. Proofs

For all values of the constants, with no bound on steps:

- **ProcessEndpointProofs.**  `TypeOK` is inductive (`TypeCorrect`).  `ChannelSafe`
  needs only it.  `NoSurvivors` and `KillIsLastResort` are not inductive, as they say
  nothing of the rungs before the end: `LadderInv` adds which signals are sent at each
  rung and that the waiter's state goes with the child.  `OutputIntact` and
  `EndOfOutputIsComplete` need to know where each unit *is*: `PipeInv` says that the
  pipe holds the last units written, in order, `TakenInv` that per stream taken, held
  and piped units together count up to `wrote`, `DrainInv` that before `Terminate` an
  exited reader left an empty pipe that nobody can write to, and `LogInv` that what is
  not in the stderr pipe is logged.  Their conjunction with `OutputIntact` is inductive.
- **WebSocketEndpointProofs.**  That what was handed over is a prefix of what was sent
  (`MessagesInOrder`) says nothing of what is still under way.  `Inv` adds that the frames
  in flight are the last ones sent, with their numbers (`FlightInv`), and that what has
  left the connection is the first `Passed` messages of those posted, and while
  `readFrames` goes on all but those in flight (`PassedInv`).
- **SessionProofs.**  `SInv` is what both endpoint modules prove of themselves, what each
  relay holds, what each direction has in it (`ClientInv`, `ProgramInv`: end, pipe and
  what the relay holds together are what it took), and how many relays `PipeEndpoints`
  has waited for (`MainInv`).  A step of a session is for each endpoint a step of its own
  or none, so the endpoints' lemmas carry over, and `SessionUsesProcessEndpoint` and
  `SessionUsesWebSocketEndpoint` state it as a refinement.  Every safety property of a
  session follows.  `HeardClientGetsAll` is about a client that stays and sends nothing
  but messages.  For it a second invariant, `HeardInv`, says that `readFrames` goes on
  while the connection is open, so that the relay to the program stops only with a
  message it could not write.  Then that message is never in the pipe (`LostMessage`
  lasts), and otherwise only the end of the output starts the teardown (`AllSent`).
- **AdmissionProofs.**  The channel holds as many reports as goroutines have reported
  (`ChannelInv`, by cardinality), and there are at most `RejectCap` of them; main knows
  that the command line was accepted.  An answer is the one its handler computed
  (`AnswerInv`), from which the four properties of answers follow by lemmas about
  `CheckOrigin`, `RedirectLocation` and `CreateEnv`.  The assumptions are the types of
  command lines and requests, that pages are `http` or `https` with a port, and
  `StrangersOK`: `Pages` holds one that no list names, without which "every page is
  accepted" could be true by accident.
- **ServerProofs.**  The invariant adds that the holders are finitely many, that a
  running program has a handler in its session or script, and that a refused request
  holds nothing.  Cardinalities change by one with a grant or a release
  (`CountGrows`, `CountShrinks`).  `ServerImplementsForkSlots` maps every step to a step
  or a stutter of ForkSlots.  `Requests` may be infinite.
- **UnixSocketProofs.**  That a plain file survives needs no assumption: while one is at
  the path nobody is about to remove or to serve what is there (`FileStops`).  The other two
  assume `~Overlap`.  One server starts at a time; what a server bound is at the path; one
  past its probe has nobody to take it from; and the path is as it found it.
  `unix_socket_overlap` shows that reachability needs the assumption.
- **KeepaliveProofs** assume `PromptProgram`.  The deadline plus the time since the
  last ping is at least two intervals between pong and ping, at least one between ping
  and pong; silence plus deadline is two, except while a pong waits to be read, and then
  the deadline is not over (`SilenceCounts`, `Patient`): nobody is cut off late, and
  nobody early.  `keepalive_parked` shows that the assumption cannot be dropped.
- **ProcessEndpointProofs**, on Framing, for streams and buffers of any length:
  a read of stdout ends at the next newline and fails only if none is left
  (`StdoutReadsOneLine`); a read of stderr moves on, stays in its line and in the buffer, and
  the last one has all the rest (`StderrReadsOneChunk`); `trimEOL` takes one end of line and
  nothing else (`TrimTakesTheEndOnly`); a message that is one line and does not end in `\r`
  comes back whole from a program that copies it (`CopiedMessageComesBack`).  Each is about
  one read from any place; that the reads follow one another until the end is the recursion
  of the relays, an induction over data, which TLC checks.
- **RoutingProofs.**  The prefix test of `checkPathBoundary` implies the walk
  (`FastPathImpliesWalk`; the comment says so and a test samples it), whatever either
  accepts lies beneath the boundary, and the walk finds all that does
  (`BeneathIsInside`).  `Resolve` and `Clean` fold over the names of a path; that they
  go one name at a time is shown from the library's definition of a fold, with a least
  counterexample in place of induction.  From it: resolving what is resolved changes
  nothing, and a path below a directory resolves below it.  The inductive invariant
  `RInv` has the types and the cached prefix, which is still the prefix the tree would
  give until the link moves.  For paths of any depth, any URLs, links and second names
  under `PathsOK` and `LinksLeadToReal` (a link's target has no link in it, as what
  `EvalSymlinks` returns), `StaysInside` holds.  The other three need `SameDepth` (a
  second name is as deep as the first) and `NotTheRoot` (no configured directory is the
  root), which are hypotheses of the theorems: that is what the walk relies on.

### Liveness

ENABLED and induction over a behaviour are beyond these provers, so the theorems about
what must happen have those two as premises, and everything else is proved for all
values of the constants.

- *Nobody is held up.*  `Unhindered` (`AllUnhindered` in Session, `StartupUnhindered` in
  Startup) says for each goroutine: where its guard holds, as the code reads, its action
  is ENABLED; weak fairness then makes the goroutine move.  For one component alone this
  follows from its definitions and says nothing about the code; it is written down because
  the provers cannot evaluate ENABLED.  For a session it says a little more, that
  `PipeEndpoints` calls each `Terminate` in its turn and that the bounds on the endpoints'
  callers never bite, and `session_ends` checks it.
- *A measure does not fall for ever.*  `Descends` (module Descent) says it of one measure,
  a natural number.  It holds of every measure; the theorems name those they use.  That
  the measure never grows, and which step makes it fall, is proved.

What is proved from them, by rules for WF and the steps of the safety proofs:

- `TeardownEnds`: after `Terminate` begins, each rung of the ladder leads to the next
  (timers fire), the last kills the child, so `Wait` returns and closes the pipes, so
  each reader stops, as what is unread only falls (`Unread`), and then the channel is
  closed.  `StderrDrains`: a full stderr pipe gets room again, unless its reader
  is parked on a relay that is behind, or the teardown has begun.
- `ReadFramesEnds`: after the connection's `Terminate`, `readFrames` returns and its
  channel is closed, wherever it was parked and whether or not anybody receives.
- `SessionTeardownEnds`: when one relay has stopped, `PipeEndpoints` calls both
  `Terminate`s; the theorems of the endpoints carry over, since a step of the session is
  for each endpoint a step of its own or none; both channels are closed, so the other
  relay stops, and `PipeEndpoints` returns.
- `ProgramEndIsNoticed` (with keepalive) and `ClientEndIsNoticed` (with a program that
  forks nothing which keeps its stdin) are the two ends of a session that
  `session_ends` checks, for all pipes, capacities and messages: after the program's end
  every step of a reader, the relay or the client brings the rest of the output closer
  (`OutLeft`), until the relay sees the end of its channel; `InLeft` does the same for
  what the client has sent, through `readFrames`, the relay and the program that reads.
  Then `SessionTeardownEnds` does the rest.  The hypotheses `Pings` and `~CanSpawn` are
  the constants of the run: a silent client is noticed by keepalive only, and a
  descendant that keeps the pipe open may never read it.
- `FailureEndsProcess`: a listener that has failed reports it, since the channel has room
  for all (`SomebodyReports`), and main exits.
- `PingerStops`: on a closed connection nobody answers, so time passes until the next tick
  (`Left` falls), and the ping of that tick fails.

Only model-checked: `AllUnhindered`, and the assumptions of `MCProcessEndpoint` on whole
streams.

## 6. What is left out, and why

- Bytes other than `\n` and `\r`, UTF-8, the JSON of `--passstderr`, and payload limits
  beyond "too big".  The chunks of `--binary` are those of the kernel's reads.  The
  unterminated last line of stdout is dropped in Framing, as in the code, and so has no unit
  in ProcessEndpoint.  On stderr a `\r\n` that a full buffer cuts in two leaves a `\r` at the
  end of one chunk and an empty chunk after it; the documentation speaks of stdout only.
- Calls to `Terminate` from elsewhere than `PipeEndpoints`: there are none.
- Process group ids the kernel gives away again after the child is reaped: the window is
  in the model (`Escalate` after `Reap`), who else might get the id is not.  A
  descendant that leaves the group is outside; if it holds stdout it is covered by the
  fact that the readers' end does not depend on it once Wait closed the pipes.
- Whoever else changes the path of a Unix socket: a file that another program puts there
  between `stat` and `remove` is removed.
- Probes of a Unix socket that fail for another reason than "nobody listens" (a full
  backlog, a timeout, no permission): the code takes each as "nobody listens" and
  removes the socket; the model has the refusal only.
- A ping that times out behind a slow write: the ping goroutine exits then, as it does
  when the connection closes; in Keepalive pings do not time out.
- In Server, how a request is classified is a free choice: Routing has its path,
  Admission its origin.
- A request that comes while other listeners are still starting, and a listener that
  fails under a running session: the exit takes the session's goroutines with it and
  runs no `Terminate`; its program sees its pipes close.
- Of the command line: the order of the messages, values that are text (`--header` and its
  kin), and paths that change between their check and their use.
- Of the origin check: hosts are whole values, so upper and lower case are two hosts,
  which is what the code compares.  Outside the documented policy and so outside
  `OriginAsDocumented`: an entry without a scheme matches any scheme, not only the two of
  the web; an empty entry (`--origin=a,`) matches a page without an origin; and under
  `--sameorigin` so does a request with neither Origin nor Host.
- Of a redirect: the path and query it keeps.
- The environment of `--cgidir` scripts, which `net/http/cgi` makes; there `--passenv` comes
  after the standard variables, not before them.  Of the other one, the text of the values.
- A change of the tree within one handler, between `os.Stat` and the use of the file; and
  system calls that fail on a path that exists, for which `dirRel` has its third answer.
- The TLS handshake, logging, developer console, help texts, Windows: a library's, no
  shared state, or strings only; see `components` in `PROJECT.json`.

## 7. Plan

Done: ProcessEndpoint, Framing, WebSocketEndpoint, Session, Server with ForkSlots,
UnixSocket, Keepalive, Containment, Routing, CommandLine, Origin, Environment, Startup,
Admission; proofs of their safety properties, of the refinements, and of all liveness from
the two premises of section 5.  What is left, by importance:

1. **Listeners under live sessions**: Startup composed with Session (the exit cuts a
   session without its teardown) and with UnixSocket (the call by call steps in place of
   one).
2. **Routing in Server**: the classification of a request by path and origin in place of
   the free choice.

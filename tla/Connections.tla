---------------------------- MODULE Connections ----------------------------
(***************************************************************************)
(* The life of the process and of its HTTP requests: the start             *)
(* (src/src/cli.ts, cli/commands.ts, transports/stdio.ts and hosted.ts),   *)
(* the Node adapter with its limits and the shutdown                       *)
(* (transports/http-server.ts), and the order in which the app answers     *)
(* (fetch and serveMcp of transports/http-app.ts).                         *)
(*                                                                         *)
(* Node itself is external: a connection carries one request after the     *)
(* other, is closed when it has been idle for keepAliveTimeout, and one    *)
(* whose request has not arrived in full is closed after requestTimeout,   *)
(* until the server closes and looks no longer.                            *)
(***************************************************************************)
EXTENDS Configuration

CONSTANTS
  Conn,       \* connections
  Settings    \* configurations the process may be started with

VARIABLES
  proc,      \* starting, serving, closing (the app), draining, exited
  exitCode,
  mode,
  line       \* of each connection: the request it carries and what became of it

connVars == <<proc, exitCode, mode, line>>

\* `open` is the socket; `pc` where the listener is, which goes on when the
\* client has left; `large` a body of more bytes than are read.
NoLine ==
  [open |-> FALSE, pc |-> "none", uploaded |-> TRUE, large |-> FALSE, aborted |-> FALSE]

ConnInit ==
  /\ proc = "starting" /\ exitCode = 0 /\ mode \in Mode
  /\ line = [k \in Conn |-> NoLine]

InProgress(k) == line[k].pc \notin {"none", "idle"}
Set(k, l) == line' = [line EXCEPT ![k] = l]

-----------------------------------------------------------------------------
(* cli.ts: main, shutdown, and the exit codes of main().catch *)

\* The connections end with the process.
Exit(status) ==
  /\ proc' = "exited" /\ exitCode' = status
  /\ line' = [k \in Conn |-> NoLine] /\ UNCHANGED mode

UsageRefused == proc = "starting" /\ Exit(2)

\* runHosted and runStdio: the configuration, then discovery or the credential
\* store, then listening may fail.  A stored login that cannot be read does not
\* keep the stdio server from starting.
StartRefused(c) == proc = "starting" /\ Refused(mode, c) /\ Exit(1)
StartFails(c) == proc = "starting" /\ ~Refused(mode, c) /\ Exit(1)
Started(c) ==
  /\ proc = "starting" /\ ~Refused(mode, c) /\ proc' = "serving"
  /\ UNCHANGED <<exitCode, mode, line>>

\* SIGINT or SIGTERM; before the handlers are installed it kills the process,
\* and so does a second one of the same kind.
Signal ==
  /\ proc = "serving" /\ proc' = "closing"
  /\ UNCHANGED <<exitCode, mode, line>>
Killed == proc \in {"starting", "closing", "draining"} /\ Exit(128)

\* close: the app, the idle connections, and then the server, which waits for
\* the others.
AppCloses ==
  /\ proc = "closing" /\ proc' = "draining"
  /\ line' = [k \in Conn |-> IF line[k].pc = "idle" THEN NoLine ELSE line[k]]
  /\ UNCHANGED <<exitCode, mode>>
CloseFails == proc = "closing" /\ Exit(1)
Drained == proc = "draining" /\ (\A k \in Conn : ~line[k].open) /\ Exit(0)

-----------------------------------------------------------------------------
(* The client and Node *)

Running == proc \in {"serving", "closing", "draining"}
Listening == proc \in {"serving", "closing"} /\ mode = "http"

\* A request on a new connection, or on one that was kept.
Arrives(k, uploaded, large) ==
  /\ \/ line[k].pc = "none" /\ ~line[k].open /\ Listening
     \/ line[k].pc = "idle" /\ Running
  /\ Set(k, [NoLine EXCEPT !.open = TRUE, !.pc = "headers", !.uploaded = uploaded, !.large = large])
  /\ UNCHANGED <<proc, exitCode, mode>>

Uploads(k) ==
  /\ InProgress(k) /\ line[k].open /\ ~line[k].uploaded
  /\ Set(k, [line[k] EXCEPT !.uploaded = TRUE])
  /\ UNCHANGED <<proc, exitCode, mode>>

\* res 'close': what is in progress is cancelled.
Closed(l) == IF l.pc = "idle" THEN NoLine ELSE [l EXCEPT !.open = FALSE, !.aborted = TRUE]

Leaves(k) ==
  /\ line[k].open /\ Running /\ Set(k, Closed(line[k]))
  /\ UNCHANGED <<proc, exitCode, mode>>

KeepAliveEnds(k) == line[k].pc = "idle" /\ Leaves(k)
RequestTimesOut(k) == InProgress(k) /\ ~line[k].uploaded /\ proc = "serving" /\ Leaves(k)

-----------------------------------------------------------------------------
(* toNodeListener *)

\* The listener is done.  The connection is kept, unless the body was not read
\* to its end or the answer said it would not be.
Answered(l, kept) ==
  IF l.open /\ l.uploaded /\ kept THEN [l EXCEPT !.pc = "idle", !.aborted = FALSE] ELSE NoLine

\* sendPlain: an answer that closes the connection, or, when the head of
\* another has been sent, only that.
Plainly(l) == Answered(l, FALSE)

\* The timer runs until the listener is done.
Timed_UntilHead(k) == InProgress(k) /\ line[k].pc # "stream"
Timed(k) == InProgress(k)
DeadlinePasses(k) ==
  /\ Timed(k) /\ Running /\ ~line[k].aborted
  /\ Set(k, [line[k] EXCEPT !.aborted = TRUE])
  /\ UNCHANGED <<proc, exitCode, mode>>

Handles(k, pc) == line[k].pc = pc /\ Running /\ UNCHANGED <<proc, exitCode, mode>>

\* The app's answer is sent: at once when it has no body, else as a stream.
Respond(k) ==
  \/ Set(k, Answered(line[k], TRUE))
  \/ Set(k, [line[k] EXCEPT !.pc = "stream"])

\* What the headers alone decide: the path, the host, the origin, the method
\* and the credentials, in this order, after the declared length.
Request ==
  [path : {"healthz", "metadata", "mcp", "other"}, method : {"GET", "POST", "OPTIONS"},
   host : BOOLEAN, origin : BOOLEAN, bearer : BOOLEAN]

Status(r) ==
  CASE r.path = "healthz" -> 200
    [] r.path = "metadata" -> IF r.method = "OPTIONS" THEN 204 ELSE IF r.method = "GET" THEN 200 ELSE 405
    [] r.path = "other" -> 404
    [] r.path = "mcp" /\ ~(r.host /\ r.origin) -> 403
    [] r.path = "mcp" /\ r.host /\ r.origin /\ r.method = "OPTIONS" -> 204
    [] r.path = "mcp" /\ r.host /\ r.origin /\ r.method = "GET" -> 405
    [] r.path = "mcp" /\ r.host /\ r.origin /\ r.method = "POST" -> IF r.bearer THEN 0 ELSE 401

DeclaredTooLarge(k) == line[k].large /\ Handles(k, "headers") /\ Set(k, Plainly(line[k]))
\* Only a POST has a body to leave unread.
Fates == {[body |-> r.method = "POST", goesOn |-> Status(r) = 0] : r \in Request}
Routed(k, fate) ==
  /\ Handles(k, "headers")
  /\ ~fate.body => line[k].uploaded /\ ~line[k].large
  /\ IF fate.goesOn THEN Set(k, [line[k] EXCEPT !.pc = "verify"]) ELSE Respond(k)

\* verifyAccessToken and isRefused: 401, 503, or the body is read.
Verified(k) == Handles(k, "verify") /\ (Respond(k) \/ Set(k, [line[k] EXCEPT !.pc = "body"]))

\* readTextCapped over cappedBody: 413; a body that does not parse is a 400, a
\* call that lacks scopes a 403; else the MCP handler is called.
BodyTooLarge(k) == line[k].large /\ Handles(k, "body") /\ Set(k, Plainly(line[k]))
BodyRead(k) ==
  /\ line[k].uploaded /\ ~line[k].large /\ Handles(k, "body")
  /\ Respond(k) \/ Set(k, [line[k] EXCEPT !.pc = "tool"])
\* The client went away, and nobody hears the 504.
BodyBreaks(k) == ~line[k].open /\ Handles(k, "body") /\ Set(k, Plainly(line[k]))

\* handler.fetch answers (a refused token turns a plain answer into a 401) or
\* throws: 504 when the request was aborted, else 500.
ToolEnds(k) == Handles(k, "tool") /\ (Respond(k) \/ Set(k, Plainly(line[k])))

\* A stream ends by itself when the client reads it and it is no subscription;
\* an aborted one is cut, and so is one that fails: the head has been sent.
StreamEnds(k) == Handles(k, "stream") /\ line[k].open /\ Set(k, Answered(line[k], TRUE))
StreamCut(k) == line[k].aborted /\ Handles(k, "stream") /\ Set(k, Plainly(line[k]))
StreamFails(k) == Handles(k, "stream") /\ Set(k, Plainly(line[k]))

Served(k) ==
  \/ DeclaredTooLarge(k) \/ \E fate \in Fates : Routed(k, fate)
  \/ Verified(k) \/ BodyTooLarge(k) \/ BodyRead(k) \/ BodyBreaks(k)
  \/ ToolEnds(k) \/ StreamCut(k)

-----------------------------------------------------------------------------

ConnNext ==
  \/ UsageRefused \/ \E c \in Settings : StartRefused(c) \/ StartFails(c) \/ Started(c)
  \/ Signal \/ Killed \/ AppCloses \/ CloseFails \/ Drained
  \/ \E k \in Conn :
       \/ \E uploaded, large \in BOOLEAN : Arrives(k, uploaded, large)
       \/ Uploads(k) \/ Leaves(k) \/ KeepAliveEnds(k) \/ RequestTimesOut(k) \/ DeadlinePasses(k)
       \/ Served(k) \/ StreamEnds(k) \/ StreamFails(k)

\* The listener goes on, and timers fire; a client that has begun to upload a
\* body goes on or leaves.  Nobody has to read a stream to its end.
ConnFairness ==
  /\ WF_connVars(AppCloses \/ CloseFails) /\ WF_connVars(Drained)
  /\ \A k \in Conn : WF_connVars(Served(k)) /\ WF_connVars(KeepAliveEnds(k)) /\ WF_connVars(DeadlinePasses(k))
  /\ \A k \in Conn : WF_connVars(Uploads(k) \/ (~line[k].uploaded /\ Leaves(k)))

ConnSpec == ConnInit /\ [][ConnNext]_connVars /\ ConnFairness

-----------------------------------------------------------------------------
(* Properties *)

\* A request on a connection that was kept, after the idle ones were closed.
KeptInUse ==
  proc = "draining" /\ \E k \in Conn, u, l \in BOOLEAN : line[k].pc = "idle" /\ Arrives(k, u, l)

\* cli.ts: a server that is told to stop does, however many requests are under
\* way and whatever their clients do, unless one leaves an upload unfinished or
\* keeps sending requests for ever on connections that were kept: close
\* (http-server.ts:199) ends the idle ones once, and a kept one is closed only
\* when no request comes within keepAliveTimeout.
ShutdownEnds == []<><<KeptInUse>>_connVars \/ ((proc = "closing") ~> (proc = "exited"))
=============================================================================

------------------------------- MODULE FrontEnd --------------------------------
(***************************************************************************)
(* One listener, binary (internal/network) or RESP (internal/resp), with   *)
(* its event loops, its AUTH workers, the TLS handshake sweeper and its    *)
(* shutdown.                                                               *)
(*                                                                         *)
(* gnet runs the callbacks of one connection one after the other, so a     *)
(* connection is a sequential process that acts on events: bytes arrived   *)
(* (OnTraffic), a Wake (OnTraffic and then its callback), a Close.  Other  *)
(* goroutines touch it through gnet's queue and the channel authJobs only. *)
(*                                                                         *)
(* A client sends the requests of a script as a stream of cells, in pieces *)
(* of any size; SizeOf says how many cells a request has.  The server sees *)
(* positions in that stream.                                               *)
(***************************************************************************)
EXTENDS Requests, FiniteSets

CONSTANTS Conns,         \* connections; each is accepted once
          Workers,       \* numAuthWorkers
          QueueCap,      \* capacity of authJobs
          MaxAuthFails,  \* maxAuthFails
          Listeners,     \* the listeners considered, see ListenerType
          Clients,       \* for each, the clients its connections may have
          SizeOf,        \* the cells of a request
          BufCap,        \* capacity of the binary listener's TLS read buffer
          MaxMsg,        \* maxMsgSize: cells of the longest binary frame
          MaxTLSReadBuf, \* where the RESP read buffer stops growing
          None

ASSUME SizesPositive == SizeOf \in [RequestKinds -> Nat \ {0}]

ListenerType == [proto : {"binary", "resp"},
                 tls   : {"off", "on", "starttls"},
                 mode  : Configurations]

\* A pipelining client does not wait for a reply before it sends on.
ClientType == [script : Seq(RequestKinds), pipelined : BOOLEAN]

ASSUME Configured ==
  /\ MaxAuthFails \in Nat \ {0}
  /\ None \notin Conns
  /\ Listeners \subseteq ListenerType
  /\ \A l \in Listeners : Clients[l] \subseteq [Conns -> ClientType]

VARIABLES srv,      \* the listener
          client,   \* the client of each connection
          conn,     \* connState of each connection, with gnet's part of it
          jobs,     \* authJobs
          worker,   \* the connection each worker verifies for
          tracked,  \* handshakeSweeper.pending
          engine    \* gnet's engine, Shutdown and the state of authJobs

vars == <<srv, client, conn, jobs, worker, tracked, engine>>

New == [open    |-> "new",    \* "new", "open", "closed"
        sent    |-> 0,        \* cells that have arrived
        ready   |-> FALSE,    \* gnet has bytes to report
        seen    |-> 0,        \* cells in gnet's inbound buffer
        buf     |-> 0,        \* of these, decrypted into readBuf
        tls     |-> "plain",  \* "plain", "shaking", "up"
        hello   |-> FALSE,    \* the client's part of the handshake arrived
        late    |-> FALSE,    \* the handshake's deadline has passed
        kill    |-> FALSE,    \* the sweeper's Close is queued
        pc      |-> "idle",   \* "idle", "read" (tlsConn.Read), "frames"
        user    |-> NoUser,   \* authenticated and session
        fails   |-> 0,        \* authFails
        pending |-> FALSE,    \* authPending
        wake    |-> "none",   \* a queued Wake: "ok", "fail", "resume"
        over    |-> FALSE,    \* closeAfterReply
        answers |-> <<>>,     \* what the requests were answered, in order
        out     |-> <<>>,     \* RESP: the replies that are not written yet
        wire    |-> <<>>]     \* the replies written, each the number of a request

Closed == [New EXCEPT !.open = "closed"]

Init ==
  /\ srv \in Listeners
  /\ client \in Clients[srv]
  /\ conn = [c \in Conns |-> New]
  /\ jobs = <<>>
  /\ worker = [w \in Workers |-> None]
  /\ tracked = {}
  /\ engine = [up |-> FALSE, shutdown |-> "no", closed |-> FALSE,
               expired |-> FALSE, panicked |-> FALSE]

-------------------------------------------------------------------------------
(* Positions in the stream *)

Script(c) == client[c].script

\* The position after the first i requests.
EndOf(c, i) ==
  LET End[n \in 0 .. i] == IF n = 0 THEN 0 ELSE End[n - 1] + SizeOf[Script(c)[n]]
  IN End[i]

\* Requests taken from the stream: all that were answered, and the AUTH that
\* is being verified.
Taken(c) == Len(conn[c].answers) + IF conn[c].pending THEN 1 ELSE 0

\* What the parser is given: the inbound buffer, or readBuf.
Visible(c) == IF conn[c].tls = "plain" THEN conn[c].seen ELSE conn[c].buf

NextReq(c) == Script(c)[Taken(c) + 1]

\* The AUTH that is being verified.
NextPending(c) == Script(c)[Len(conn[c].answers) + 1]

HasNext(c) == Taken(c) < Len(Script(c))

Rest(c) == Visible(c) - EndOf(c, Taken(c))

Complete(c) == HasNext(c) /\ SizeOf[NextReq(c)] <= Rest(c)

Malformed(c) ==
  /\ HasNext(c) /\ Rest(c) > 0
  /\ \/ NextReq(c) = "garbage"
     \/ srv.proto = "binary" /\ SizeOf[NextReq(c)] > MaxMsg

-------------------------------------------------------------------------------
(* The client *)

\* The next cells arrive: one, or all that are missing of a request.  A client
\* speaks TLS once the server does, and does not speak during the handshake.
Send(c) ==
  LET k == conn[c]
      i == CHOOSE n \in 0 .. Len(Script(c)) :
             /\ EndOf(c, n) <= k.sent
             /\ n < Len(Script(c)) => k.sent < EndOf(c, n + 1)
  IN
  /\ k.open = "open" /\ k.tls # "shaking"
  /\ i < Len(Script(c))
  /\ client[c].pipelined \/ i = Len(k.wire)
  /\ \E n \in {k.sent + 1, EndOf(c, i + 1)} :
       conn' = [conn EXCEPT ![c].sent = n, ![c].ready = TRUE]
  /\ UNCHANGED <<srv, client, jobs, worker, tracked, engine>>

\* The client's part of the handshake arrives.  Nothing forces a client to.
Shake(c) ==
  /\ conn[c].open = "open" /\ conn[c].tls = "shaking" /\ ~conn[c].hello
  /\ conn' = [conn EXCEPT ![c].hello = TRUE, ![c].ready = TRUE]
  /\ UNCHANGED <<srv, client, jobs, worker, tracked, engine>>

-------------------------------------------------------------------------------
(* Accepting and closing *)

\* connectionAuth, and its counterpart in the binary OnOpen: only RESP starts
\* a connection as a user "default" without password.
StartUser ==
  IF \/ srv.mode = "open"
     \/ srv.proto = "resp" /\ srv.mode = "rbac_default"
    THEN "default" ELSE NoUser

\* Only the RESP listener puts its handshakes under a deadline.
Track(c) == IF srv.proto = "resp" THEN tracked \union {c} ELSE tracked

LoopsRun == engine.up /\ engine.shutdown \in {"no", "waiting", "stopping", "expired"}

OnOpen(c) ==
  /\ conn[c].open = "new"
  /\ engine.up /\ engine.shutdown = "no"
  /\ conn' = [conn EXCEPT ![c] =
       [New EXCEPT !.open = "open", !.user = StartUser,
                   !.tls = IF srv.tls = "on" THEN "shaking" ELSE "plain"]]
  /\ tracked' = IF srv.tls = "on" THEN Track(c) ELSE tracked
  /\ UNCHANGED <<srv, client, jobs, worker, engine>>

\* gnet closes the connection and calls OnClose; the context is gone.
Close(c) ==
  /\ conn' = [conn EXCEPT ![c] = Closed]
  /\ UNCHANGED <<srv, client, jobs, worker, tracked, engine>>

Idle(c) == conn[c].open = "open" /\ conn[c].pc = "idle" /\ LoopsRun

\* The peer hangs up, the sweeper's Close is executed, or the loop stops.
OnClose(c) == Idle(c) /\ Close(c)

-------------------------------------------------------------------------------
(* OnTraffic *)

\* The first STARTTLS among the complete commands in the buffer shares it with
\* something else.
HasPipelinedSTARTTLS(c, upto) ==
  LET from == EndOf(c, Taken(c))
      cand == {i \in Taken(c) + 1 .. Len(Script(c)) :
                 /\ EndOf(c, i) <= upto
                 /\ \A j \in Taken(c) + 1 .. i : Script(c)[j] # "garbage"
                 /\ Script(c)[i] = "starttls"}
  IN \E i \in cand : /\ \A j \in cand : i <= j
                     /\ EndOf(c, i - 1) # from \/ EndOf(c, i) # upto

Becomes(c, k) ==
  /\ conn' = [conn EXCEPT ![c] = k]
  /\ UNCHANGED <<srv, client, jobs, worker, tracked, engine>>

\* onTrafficPlaintext up to its loop: nothing while an AUTH is in flight.
OnPlaintext(c, k) ==
  CASE k.pending -> Becomes(c, k)
    [] ~k.pending /\ srv.proto = "resp" /\ srv.tls = "starttls"
       /\ HasPipelinedSTARTTLS(c, k.seen) -> Close(c)
    [] OTHER -> Becomes(c, [k EXCEPT !.pc = "frames"])

\* An event calls OnTraffic: bytes, of which gnet has then read all that
\* arrived, or the Wake(nil) that follows an AUTH.
OnTraffic(c) ==
  /\ Idle(c)
  /\ \E k \in (IF conn[c].ready
                 THEN {[conn[c] EXCEPT !.ready = FALSE, !.seen = conn[c].sent]}
                 ELSE {}) \union
               (IF conn[c].wake = "resume"
                 THEN {[conn[c] EXCEPT !.wake = "none"]} ELSE {}) :
       CASE k.tls = "plain" -> OnPlaintext(c, k)
         [] srv.proto = "resp" /\ k.tls = "shaking" /\ k.late -> Close(c)
         [] OTHER -> Becomes(c, [k EXCEPT !.pc = "read"])

\* tlsConn.Read drives the handshake first; cells that are no handshake end it.
\* Its deadline means nothing once it is complete.
ReadHandshake(c) ==
  LET k == conn[c] IN
  /\ k.pc = "read" /\ k.tls = "shaking"
  /\ IF k.seen > k.buf THEN Close(c)
     ELSE Becomes(c, IF k.hello THEN [k EXCEPT !.tls = "up", !.late = FALSE]
                                ELSE [k EXCEPT !.pc = "idle"])

\* Room in readBuf: the binary listener's never grows, the RESP listener's is
\* doubled until it holds MaxTLSReadBuf.
Room(c) == LET used == conn[c].buf - EndOf(c, Taken(c)) IN
           (IF srv.proto = "binary" THEN BufCap ELSE MaxTLSReadBuf) - used

\* Read with no room returns at once with nothing: OnTraffic loops.
ReadCells(c) ==
  LET k == conn[c]
      n == IF k.seen - k.buf < Room(c) THEN k.seen - k.buf ELSE Room(c)
  IN
  /\ k.pc = "read" /\ k.tls = "up"
  /\ IF Room(c) = 0
       THEN IF srv.proto = "resp" THEN Close(c) ELSE UNCHANGED vars
       ELSE Becomes(c, IF n = 0 THEN [k EXCEPT !.pc = "idle"]
                                ELSE [k EXCEPT !.buf = @ + n, !.pc = "frames"])

-------------------------------------------------------------------------------
(* Handling one frame: gateMessage and runHandler, dispatch *)

\* The binary listener writes each reply, RESP collects the replies of a batch.
Answer(k, reply) ==
  LET a == [k EXCEPT !.answers = Append(@, reply)]
      i == Len(a.answers)
  IN IF srv.proto = "binary" THEN [a EXCEPT !.wire = Append(@, i)]
                             ELSE [a EXCEPT !.out = Append(@, i)]

Flush(k) == [k EXCEPT !.wire = @ \o k.out, !.out = <<>>]

\* authFailed
AuthFailed(k) ==
  LET f == [k EXCEPT !.fails = @ + 1] IN
  Answer([f EXCEPT !.over = f.over \/ f.fails >= MaxAuthFails], "err")

\* A binary connection that is over is closed at once, a RESP connection when
\* the batch has been written.
Continue(c, k) ==
  IF srv.proto = "binary" /\ k.over THEN Close(c) ELSE Becomes(c, k)

\* The AUTHs that need no worker: without credentials to check AUTH succeeds,
\* unknown users fail, and RESP accepts a user without password on the spot.
AuthNow(r) ==
  \/ srv.mode = "open"
  \/ r = "auth_none"
  \/ r = "auth_default" /\ srv.mode = "rbac"
  \/ r = "auth_default" /\ srv.mode = "rbac_default" /\ srv.proto = "resp"

HandleAuthNow(c) ==
  LET k == conn[c] r == NextReq(c) IN
  /\ r \in Auths /\ AuthNow(r)
  /\ CASE srv.mode = "open" -> Continue(c, Answer(k, "ok"))
       [] srv.mode = "rbac_default" /\ r = "auth_default" ->
            Continue(c, Answer([k EXCEPT !.user = "default"], "ok"))
       [] OTHER -> Continue(c, AuthFailed(k))

\* dispatchAuth and dispatchOAuth: a send on authJobs that does not block.  A
\* send on the closed channel panics.
HandleAuthDispatch(c) ==
  LET k == conn[c] IN
  /\ NextReq(c) \in Auths /\ ~AuthNow(NextReq(c))
  /\ IF engine.closed
       THEN /\ engine' = [engine EXCEPT !.panicked = TRUE]
            /\ UNCHANGED <<srv, client, conn, jobs, worker, tracked>>
     ELSE IF Len(jobs) < QueueCap
       THEN /\ jobs' = Append(jobs, c)
            /\ conn' = [conn EXCEPT ![c].pending = TRUE]
            /\ UNCHANGED <<srv, client, worker, tracked, engine>>
       ELSE Continue(c, Answer(k, "err"))

\* opAuthorized; Execute's denyKey and authorizedCmd.
Authorized(k, r) == May(srv.mode, k.user, r)

\* The binary handler's pong has no payload, and a nil payload is not written.
HandlePing(c) ==
  /\ NextReq(c) = "ping"
  /\ Continue(c, IF srv.proto = "binary"
                   THEN [conn[c] EXCEPT !.answers = Append(@, "none")]
                   ELSE Answer(conn[c], "pong"))

\* gateMessage for everything but AUTH and PING.
Gate(k, r) == CASE k.user = NoUser -> "noauth"
                [] k.user # NoUser /\ ~Authorized(k, r) -> "noperm"
                [] OTHER -> "data"

HandleData(c) ==
  /\ NextReq(c) \in Datas
  /\ Continue(c, Answer(conn[c], Gate(conn[c], NextReq(c))))

HandleQuit(c) ==
  /\ NextReq(c) = "quit"
  /\ Continue(c, Answer([conn[c] EXCEPT !.over = TRUE], "ok"))

\* dispatchSTARTTLS accepts.
Upgrades(k) == srv.tls = "starttls" /\ k.tls = "plain"

\* upgradeToTLS writes the replies, drops the consumed cells
\* and installs TLS.  What else is in the inbound buffer is left to it.
HandleSTARTTLS(c) ==
  LET k == conn[c] IN
  /\ NextReq(c) = "starttls"
  /\ IF Upgrades(k)
       THEN LET a == Flush(Answer(k, "ok")) IN
            /\ conn' = [conn EXCEPT ![c] =
                 [a EXCEPT !.tls = "shaking",
                           !.buf = EndOf(c, Taken(c) + 1), !.pc = "idle"]]
            /\ tracked' = Track(c)
            /\ UNCHANGED <<srv, client, jobs, worker, engine>>
       ELSE Continue(c, Answer(k, IF srv.tls # "starttls" /\ k.user = NoUser
                                    THEN "noauth" ELSE "err"))

InFrames(c) == conn[c].pc = "frames" /\ LoopsRun

\* A mutant: commands behind an AUTH do not wait for it.
HandleFrame_Ungated(c) ==
  /\ InFrames(c) /\ ~conn[c].over
  /\ Complete(c) /\ ~Malformed(c)
  /\ \/ HandleAuthNow(c) \/ HandleAuthDispatch(c) \/ HandlePing(c)
     \/ HandleData(c) \/ HandleQuit(c) \/ HandleSTARTTLS(c)

\* One turn of the loop over the buffered frames.
HandleFrame(c) ==
  /\ InFrames(c) /\ ~conn[c].pending /\ ~conn[c].over
  /\ Complete(c) /\ ~Malformed(c)
  /\ \/ HandleAuthNow(c) \/ HandleAuthDispatch(c) \/ HandlePing(c)
     \/ HandleData(c) \/ HandleQuit(c) \/ HandleSTARTTLS(c)

\* A malformed frame closes the connection; RESP replies of the batch are lost.
BadFrame(c) ==
  /\ InFrames(c) /\ ~conn[c].pending /\ ~conn[c].over
  /\ Malformed(c)
  /\ Close(c)

\* A mutant: the batch is not written when an AUTH was dispatched.
EndFrames_KeepsBatch(c) ==
  LET k == conn[c] IN
  /\ InFrames(c)
  /\ k.pending \/ k.over \/ (~Complete(c) /\ ~Malformed(c))
  /\ IF k.over THEN Close(c)
     ELSE Becomes(c, [(IF k.pending THEN k ELSE Flush(k)) EXCEPT
                        !.pc = IF k.tls = "plain" THEN "idle" ELSE "read"])

\* The loop ends: no complete frame, an AUTH in flight, or QUIT.  RESP writes
\* the batch, and closes if it was the last.
EndFrames(c) ==
  LET k == conn[c] IN
  /\ InFrames(c)
  /\ k.pending \/ k.over \/ (~Complete(c) /\ ~Malformed(c))
  /\ IF k.over THEN Close(c)
     ELSE Becomes(c, [Flush(k) EXCEPT !.pc = IF k.tls = "plain" THEN "idle" ELSE "read"])

-------------------------------------------------------------------------------
(* authWorker *)

\* A mutant: workers leave without draining the closed channel.
WorkerTakes_Leaves(w) ==
  /\ worker[w] = None /\ jobs # <<>> /\ ~engine.closed
  /\ worker' = [worker EXCEPT ![w] = Head(jobs)]
  /\ jobs' = Tail(jobs)
  /\ UNCHANGED <<srv, client, conn, tracked, engine>>

WorkerTakes(w) ==
  /\ worker[w] = None /\ jobs # <<>>
  /\ worker' = [worker EXCEPT ![w] = Head(jobs)]
  /\ jobs' = Tail(jobs)
  /\ UNCHANGED <<srv, client, conn, tracked, engine>>

\* bcrypt, or the token's verification and its mapping to a role; then Wake,
\* which does nothing for a connection that has gone.
WorkerVerifies(w) ==
  LET c == worker[w] IN
  /\ c # None
  /\ worker' = [worker EXCEPT ![w] = None]
  /\ conn' = IF conn[c].open = "open"
               THEN [conn EXCEPT ![c].wake =
                       IF Accepts(srv.mode, NextPending(c)) THEN "ok" ELSE "fail"]
               ELSE conn
  /\ UNCHANGED <<srv, client, jobs, tracked, engine>>

\* A mutant: the callback does not wake the connection again.
AuthReply_NoWake(c) ==
  LET k == [conn[c] EXCEPT !.pending = FALSE, !.wake = "none"]
      a == IF conn[c].wake = "ok"
             THEN Answer([k EXCEPT !.user = Identity(srv.mode, NextPending(c))], "ok")
             ELSE AuthFailed(k)
  IN
  /\ Idle(c) /\ conn[c].wake \in {"ok", "fail"}
  /\ IF a.over THEN Close(c)
     ELSE Becomes(c, [a EXCEPT !.wire = Append(conn[c].wire, Len(a.answers)),
                               !.out = conn[c].out])

\* The callback of the worker's Wake: it writes the reply and wakes the
\* connection again for what was pipelined behind the AUTH.  OnTraffic, which
\* the Wake runs first, finds authPending and does nothing.
AuthReply(c) ==
  LET k == [conn[c] EXCEPT !.pending = FALSE, !.wake = "none"]
      a == IF conn[c].wake = "ok"
             THEN Answer([k EXCEPT !.user = Identity(srv.mode, NextPending(c))], "ok")
             ELSE AuthFailed(k)
  IN
  /\ Idle(c) /\ conn[c].wake \in {"ok", "fail"}
  /\ IF a.over THEN Close(c)
     ELSE Becomes(c, [a EXCEPT !.wire = Append(conn[c].wire, Len(a.answers)),
                               !.out = conn[c].out, !.wake = "resume"])

-------------------------------------------------------------------------------
(* The handshake sweeper *)

\* tlsHandshakeTimeout has passed for a connection.
DeadlinePasses(c) ==
  /\ conn[c].open = "open" /\ conn[c].tls = "shaking" /\ ~conn[c].late
  /\ srv.proto = "resp"
  /\ conn' = [conn EXCEPT ![c].late = TRUE]
  /\ UNCHANGED <<srv, client, jobs, worker, tracked, engine>>

Overdue(c) == conn[c].open = "open" /\ conn[c].tls = "shaking" /\ conn[c].late

\* A mutant: overdue connections are forgotten and not closed.
Sweep_NoClose ==
  /\ engine.up
  /\ \E c \in tracked : conn[c].open # "open" \/ conn[c].tls = "up" \/ conn[c].late
  /\ tracked' = {c \in tracked : /\ conn[c].open = "open"
                                 /\ conn[c].tls = "shaking" /\ ~conn[c].late}
  /\ UNCHANGED <<srv, client, conn, jobs, worker, engine>>

\* OnTick on a goroutine of its own: closed and completed connections are
\* forgotten, overdue ones are forgotten and their Close is queued.
Sweep ==
  /\ engine.up
  /\ \E c \in tracked : conn[c].open # "open" \/ conn[c].tls = "up" \/ conn[c].late
  /\ tracked' = {c \in tracked : /\ conn[c].open = "open"
                                 /\ conn[c].tls = "shaking" /\ ~conn[c].late}
  /\ conn' = [c \in Conns |-> IF c \in tracked /\ Overdue(c)
                                THEN [conn[c] EXCEPT !.kill = TRUE] ELSE conn[c]]
  /\ UNCHANGED <<srv, client, jobs, worker, engine>>

-------------------------------------------------------------------------------
(* Start and shutdown *)

OnBoot ==
  /\ ~engine.up
  /\ engine' = [engine EXCEPT !.up = TRUE]
  /\ UNCHANGED <<srv, client, conn, jobs, worker, tracked>>

\* Shutdown waits for OnBoot, then calls Stop, which waits for the loops.
ShutdownStarts ==
  /\ engine.shutdown = "no"
  /\ engine' = [engine EXCEPT !.shutdown = IF engine.up THEN "stopping" ELSE "waiting"]
  /\ UNCHANGED <<srv, client, conn, jobs, worker, tracked>>

StopEngine ==
  /\ engine.shutdown = "waiting" /\ engine.up
  /\ engine' = [engine EXCEPT !.shutdown = "stopping"]
  /\ UNCHANGED <<srv, client, conn, jobs, worker, tracked>>

StopReturns ==
  /\ engine.shutdown = "stopping"
  /\ \A c \in Conns : conn[c].open # "open"
  /\ engine' = [engine EXCEPT !.shutdown = "stopped"]
  /\ UNCHANGED <<srv, client, conn, jobs, worker, tracked>>

\* The context expires before OnBoot or before the loops have ended.
ShutdownExpires ==
  /\ engine.shutdown \in {"waiting", "stopping"}
  /\ engine' = [engine EXCEPT !.shutdown = "expired", !.expired = TRUE]
  /\ UNCHANGED <<srv, client, conn, jobs, worker, tracked>>

\* A mutant: the channel is closed before the loops have ended.
CloseJobs_Early ==
  /\ engine.shutdown \in {"stopping", "stopped", "expired"} /\ ~engine.closed
  /\ engine' = [engine EXCEPT !.closed = TRUE]
  /\ UNCHANGED <<srv, client, conn, jobs, worker, tracked>>

\* close(authJobs); workerWg.Wait returns when the queue has been drained.
CloseJobs ==
  /\ engine.shutdown \in {"stopped", "expired"} /\ ~engine.closed
  /\ engine' = [engine EXCEPT !.closed = TRUE]
  /\ UNCHANGED <<srv, client, conn, jobs, worker, tracked>>

ShutdownDone == engine.closed /\ jobs = <<>> /\ \A w \in Workers : worker[w] = None

-------------------------------------------------------------------------------
(* What the process does by itself, whatever the clients do; a late handshake *)
(* and an expired context are the passing of time.                            *)
SystemStep ==
  /\ ~engine.panicked
  /\ \/ \E c \in Conns :
          \/ OnTraffic(c) \/ ReadHandshake(c) \/ ReadCells(c)
          \/ HandleFrame(c) \/ BadFrame(c) \/ EndFrames(c) \/ AuthReply(c)
          \/ DeadlinePasses(c)
          \/ (conn[c].kill \/ engine.shutdown = "stopping") /\ OnClose(c)
     \/ \E w \in Workers : WorkerTakes(w) \/ WorkerVerifies(w)
     \/ Sweep
     \/ StopEngine \/ StopReturns \/ ShutdownExpires \/ CloseJobs

Next ==
  \/ SystemStep
  \/ /\ ~engine.panicked
     /\ \/ \E c \in Conns : Send(c) \/ Shake(c) \/ OnOpen(c) \/ OnClose(c)
        \/ OnBoot \/ ShutdownStarts

\* Some goroutine of the process runs as long as one can.  Nothing is assumed
\* about which one, and nothing about the clients.
Spec == Init /\ [][Next]_vars /\ WF_vars(SystemStep)

-------------------------------------------------------------------------------
(* What a listener promises *)

S == INSTANCE Session WITH
       mode    <- srv.mode,
       script  <- [c \in Conns |-> Script(c)],
       open    <- {c \in Conns : conn[c].open = "open"},
       user    <- [c \in Conns |-> conn[c].user],
       fails   <- [c \in Conns |-> conn[c].fails],
       answers <- [c \in Conns |-> conn[c].answers]

\* The asynchronous AUTH does not show: a request that was pipelined behind an
\* AUTH runs with the identity the AUTH gave or did not give, and never before
\* it; no request runs after QUIT or after the last permitted attempt
\* (authPending, closeAfterReply in both listeners).
IsSession == S!SessionSpec

\* The n-th reply a client reads answers its n-th request, for batches, for
\* replies written by the worker's callback and across STARTTLS.
InOrder == \A c \in Conns :
  conn[c].wire = [i \in DOMAIN conn[c].wire |-> i]

Halted == engine.panicked \/ engine.shutdown # "no"

\* A request has arrived as a whole and its reply has not been written.
Owed(c) == /\ conn[c].open = "open"
           /\ \E i \in DOMAIN Script(c) :
                /\ EndOf(c, i) <= conn[c].sent
                /\ \A j \in DOMAIN conn[c].wire : conn[c].wire[j] # i

\* A request that has arrived as a whole is answered, or its connection is
\* closed: no event is lost between the read buffers, the workers' wake-ups and
\* the loop's early returns.  (A script is finite, so a connection that has
\* caught up once for each piece of it has answered everything.)
EveryRequestAnswered == \A c \in Conns : Owed(c) ~> ~Owed(c) \/ Halted

\* A RESP connection that is late with its handshake does not stay so, and the
\* sweeper forgets every connection it was given (handshakeSweeper.sweep).
HandshakesEnd == \A c \in Conns :
  Overdue(c) \/ c \in tracked ~> (~Overdue(c) /\ c \notin tracked) \/ Halted

\* "no more concurrent sends to s.authJobs can occur" once Stop has returned:
\* true as long as Shutdown's context does not expire.
SendsOnOpenChannel == engine.panicked => engine.expired

\* Shutdown returns: the queue is drained and the workers end.
ShutdownEnds == engine.shutdown # "no" ~> ShutdownDone \/ engine.panicked
===============================================================================

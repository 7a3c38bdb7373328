--------------------------- MODULE FrontEnd_proofs ---------------------------
(***************************************************************************)
(* Proofs about one listener, for any number of connections and workers,   *)
(* any queue, any scripts and any sizes of requests.                       *)
(*                                                                         *)
(* The steps of a listener are sorted into eight kinds by what they do to  *)
(* the connections and to the queue of AUTHs (Kinds).  The invariant and   *)
(* the refinement are then proved kind by kind.                            *)
(***************************************************************************)
EXTENDS FrontEnd, TLAPS

-------------------------------------------------------------------------------
(* The invariant *)

Fields == {"open", "sent", "ready", "seen", "buf", "tls", "hello", "late", "kill",
           "pc", "user", "fails", "pending", "wake", "over", "answers", "out", "wire"}

\* The binary listener does not write the reply to a PING (see HandlePing), so
\* that what is said about replies is said of clients that send none there.
NoBinaryPing ==
  \A l \in Listeners : l.proto = "binary" =>
    \A cl \in Clients[l], c \in Conns :
      \A i \in DOMAIN cl[c].script : cl[c].script[i] # "ping"

Static == srv \in Listeners /\ client \in Clients[srv]

\* Connections that are not open hold nothing.
ShapeOf(k) ==
  /\ DOMAIN k = Fields
  /\ k.open \in {"new", "open", "closed"}
  /\ k.open = "new" => k = New
  /\ k.open = "closed" => k = Closed
  /\ k.pending \in BOOLEAN /\ k.over \in BOOLEAN
  /\ k.fails \in Nat
  /\ k.answers \in Seq(Replies) /\ k.wire \in Seq(Nat) /\ k.out \in Seq(Nat)

ShapeInv == DOMAIN conn = Conns /\ \A c \in Conns : ShapeOf(conn[c])

\* The replies written and those of the batch are numbered through; a batch
\* exists while its frames are handled only.
Numbered(answers, wire, out) ==
  /\ \A i \in 1 .. Len(wire) : wire[i] = i
  /\ \A i \in 1 .. Len(out) : out[i] = Len(wire) + i
  /\ Len(wire) + Len(out) = Len(answers)

OrderOf(k, proto) ==
  /\ Numbered(k.answers, k.wire, k.out)
  /\ k.out # <<>> => k.pc = "frames" /\ proto = "resp"

OrderInv == \A c \in Conns : OrderOf(conn[c], srv.proto)

InFlight(c) == \/ \E i \in 1 .. Len(jobs) : jobs[i] = c
               \/ \E w \in Workers : worker[w] = c

\* A connection is in the queue or with a worker at most once.
FlightInv ==
  /\ jobs \in Seq(Conns)
  /\ worker \in [Workers -> Conns \union {None}]
  /\ \A i, j \in 1 .. Len(jobs) : jobs[i] = jobs[j] => i = j
  /\ \A v, w \in Workers : worker[v] = worker[w] => v = w \/ worker[v] = None
  /\ \A i \in 1 .. Len(jobs), w \in Workers : jobs[i] # worker[w]
  /\ \A c \in Conns : conn[c].open = "new" => ~InFlight(c)

\* A connection that is not over may be served its next request.  While an AUTH
\* is pending, exactly its verification is under way or its result waits.
SessionOf(c) ==
  LET k == conn[c] IN k.open = "open" =>
    /\ ~k.over => /\ k.fails < MaxAuthFails
                  /\ Len(k.answers) > 0 => Script(c)[Len(k.answers)] # "quit"
    /\ k.pending => /\ ~k.over
                    /\ Len(k.answers) < Len(Script(c))
                    /\ NextPending(c) \in Auths /\ ~AuthNow(NextPending(c))
    /\ InFlight(c) => k.pending
    /\ k.wake \in {"ok", "fail"} =>
         /\ k.pending /\ ~InFlight(c)
         /\ k.wake = "ok" <=> Accepts(srv.mode, NextPending(c))

SessionInv == \A c \in Conns : SessionOf(c)

ListenerInv == Static /\ ShapeInv /\ OrderInv /\ FlightInv /\ SessionInv

-------------------------------------------------------------------------------
(* The kinds of steps *)

\* From k to l the session does not change; the batch may be written.
Moved(k, l) ==
  /\ DOMAIN l = Fields
  /\ l.open = k.open /\ l.user = k.user /\ l.fails = k.fails
  /\ l.pending = k.pending /\ l.over = k.over /\ l.answers = k.answers
  /\ l.wake = k.wake \/ (k.wake = "resume" /\ l.wake = "none")
  /\ \/ l.out = k.out /\ l.wire = k.wire /\ (k.pc = "frames" => l.pc = "frames")
     \/ l.out = <<>> /\ l.wire = k.wire \o k.out
  /\ k.open # "open" => l = k

Quiet ==
  /\ DOMAIN conn' = Conns
  /\ \A c \in Conns : Moved(conn[c], conn'[c])
  /\ UNCHANGED <<srv, client, jobs, worker>>

\* Only connection c changes.
Changes(c) ==
  /\ conn' = [conn EXCEPT ![c] = conn'[c]]
  /\ DOMAIN conn'[c] = Fields
  /\ UNCHANGED <<srv, client>>

Opens(c) ==
  /\ Changes(c) /\ UNCHANGED <<jobs, worker>>
  /\ conn[c].open = "new"
  /\ \E t \in {"plain", "shaking"} :
       conn'[c] = [New EXCEPT !.open = "open", !.user = StartUser, !.tls = t]

Closes(c) ==
  /\ Changes(c) /\ UNCHANGED <<jobs, worker>>
  /\ conn[c].open = "open"
  /\ conn'[c] = Closed

\* The next request may be handled.
Serving(c) ==
  /\ conn[c].open = "open" /\ conn[c].pc = "frames"
  /\ ~conn[c].pending /\ ~conn[c].over /\ HasNext(c)

\* Request number i is answered with reply, as Session permits.
Answered(k, l, r, reply) ==
  /\ l.answers = Append(k.answers, reply)
  /\ [reply |-> reply, user |-> l.user, fails |-> l.fails] \in S!Outcome(r, k.user, k.fails)
  /\ l.open = "open" /\ l.pending = FALSE
  /\ l.over \in BOOLEAN
  /\ ~l.over => l.fails < MaxAuthFails /\ r # "quit"

Serves(c) ==
  LET k == conn[c] l == conn'[c] n == Len(conn[c].answers) + 1 IN
  /\ Changes(c) /\ UNCHANGED <<jobs, worker>>
  /\ Serving(c)
  /\ \E reply \in Replies : Answered(k, l, NextReq(c), reply)
  /\ l.wake = k.wake
  /\ \/ l.wire = Append(k.wire, n) /\ l.out = k.out /\ srv.proto = "binary"
     \/ l.wire = k.wire /\ l.out = Append(k.out, n) /\ l.pc = "frames" /\ srv.proto = "resp"
     \/ l.wire = k.wire \o Append(k.out, n) /\ l.out = <<>>

Dispatches(c) ==
  /\ Changes(c) /\ UNCHANGED worker
  /\ Serving(c)
  /\ NextReq(c) \in Auths /\ ~AuthNow(NextReq(c))
  /\ conn'[c] = [conn[c] EXCEPT !.pending = TRUE]
  /\ jobs' = Append(jobs, c)

Replied(c) ==
  LET k == conn[c] l == conn'[c] IN
  /\ Changes(c) /\ UNCHANGED <<jobs, worker>>
  /\ k.open = "open" /\ k.wake \in {"ok", "fail"} /\ k.pc = "idle"
  /\ \E reply \in Replies : Answered(k, l, NextPending(c), reply)
  /\ l.wake = "resume"
  /\ l.wire = Append(k.wire, Len(k.answers) + 1) /\ l.out = k.out /\ l.pc = k.pc

Kinds ==
  \/ Quiet
  \/ \E c \in Conns : \/ Opens(c) \/ Closes(c) \/ Serves(c)
                       \/ Dispatches(c) \/ Replied(c)
  \/ \E w \in Workers : WorkerTakes(w) \/ WorkerVerifies(w)

-------------------------------------------------------------------------------
(* Every step is of one of the kinds *)

(* A step that leaves all connections as they are is quiet.                *)
LEMMA SameIsQuiet ==
  ASSUME ShapeInv, UNCHANGED <<srv, client, conn, jobs, worker>>
  PROVE  Quiet
  BY Zenon DEF ShapeInv, ShapeOf, Quiet, Moved

(* Becomes (the end of most callbacks) is quiet if it moves its connection *)
(* without touching the session.                                           *)
LEMMA BecomesIsQuiet ==
  ASSUME ShapeInv, NEW c \in Conns, NEW k, Moved(conn[c], k),
         conn' = [conn EXCEPT ![c] = k], UNCHANGED <<srv, client, jobs, worker>>
  PROVE  Quiet
  BY ZenonT(60) DEF ShapeInv, ShapeOf, Quiet, Moved

(* Close is what gnet does with a connection that is open.                 *)
LEMMA CloseCloses ==
  ASSUME ShapeInv, NEW c \in Conns, conn[c].open = "open", Close(c)
  PROVE  Closes(c)
  BY DEF ShapeInv, ShapeOf, Close, Closes, Changes, Closed, New, Fields

(* The callbacks of a connection run while it is open.                     *)
LEMMA BusyIsOpen ==
  ASSUME ShapeInv, NEW c \in Conns, conn[c].pc # "idle"
  PROVE  conn[c].open = "open"
  BY DEF ShapeInv, ShapeOf, New, Closed

(* Bytes arrive, a handshake message arrives, a deadline passes: nothing   *)
(* of the session changes (Send, Shake, DeadlinePasses).                   *)
LEMMA EventKinds ==
  ASSUME ShapeInv, NEW c \in Conns, Send(c) \/ Shake(c) \/ DeadlinePasses(c)
  PROVE  Quiet
  <1>1. CASE Send(c)
    <2>1. PICK n : conn' = [conn EXCEPT ![c].sent = n, ![c].ready = TRUE]
      BY <1>1, Zenon DEF Send
    <2>2. conn' = [conn EXCEPT ![c] = [conn[c] EXCEPT !.sent = n, !.ready = TRUE]]
      BY <2>1, Zenon DEF ShapeInv, ShapeOf
    <2>3. Moved(conn[c], [conn[c] EXCEPT !.sent = n, !.ready = TRUE])
      <3>1. conn[c].open = "open"
        BY <1>1 DEF Send
      <3> QED
        BY <3>1, ZenonT(60) DEF ShapeInv, ShapeOf, Moved, Fields
    <2> QED
      BY <1>1, <2>2, <2>3, BecomesIsQuiet, Zenon DEF Send
  <1>2. CASE Shake(c)
    <2>1. conn' = [conn EXCEPT ![c] = [conn[c] EXCEPT !.hello = TRUE, !.ready = TRUE]]
      BY <1>2, Zenon DEF Shake, ShapeInv, ShapeOf
    <2>2. Moved(conn[c], [conn[c] EXCEPT !.hello = TRUE, !.ready = TRUE])
      BY <1>2, ZenonT(60) DEF Shake, ShapeInv, ShapeOf, Moved, Fields
    <2> QED
      BY <1>2, <2>1, <2>2, BecomesIsQuiet, Zenon DEF Shake
  <1>3. CASE DeadlinePasses(c)
    <2>1. conn' = [conn EXCEPT ![c] = [conn[c] EXCEPT !.late = TRUE]]
      BY <1>3 DEF DeadlinePasses, ShapeInv, ShapeOf
    <2>2. Moved(conn[c], [conn[c] EXCEPT !.late = TRUE])
      BY <1>3, ZenonT(60) DEF DeadlinePasses, ShapeInv, ShapeOf, Moved, Fields
    <2> QED
      BY <1>3, <2>1, <2>2, BecomesIsQuiet, Zenon DEF DeadlinePasses
  <1> QED
    BY <1>1, <1>2, <1>3

(* The sweeper marks connections and forgets others (sweep).               *)
LEMMA SweepKind ==
  ASSUME ShapeInv, Sweep
  PROVE  Quiet
  <1>1. \A c \in Conns : Moved(conn[c], conn'[c])
    <2> SUFFICES ASSUME NEW c \in Conns
                 PROVE  Moved(conn[c], conn'[c])
      OBVIOUS
    <2>1. \/ conn'[c] = conn[c]
          \/ conn[c].open = "open" /\ conn'[c] = [conn[c] EXCEPT !.kill = TRUE]
      BY DEF Sweep, Overdue
    <2> QED
      BY <2>1, Zenon DEF ShapeInv, ShapeOf, Moved, Fields
  <1> QED
    BY <1>1 DEF Quiet, Sweep

(* A connection is accepted (OnOpen).                                      *)
LEMMA OpenKind ==
  ASSUME ShapeInv, NEW c \in Conns, OnOpen(c)
  PROVE  Opens(c)
  BY Zenon DEF ShapeInv, ShapeOf, OnOpen, Opens, Changes, New, Fields

(* An event reaches OnTraffic: it moves the connection on or closes it.    *)
LEMMA TrafficKinds ==
  ASSUME ShapeInv, NEW c \in Conns, OnTraffic(c)
  PROVE  Quiet \/ Closes(c)
  <1>1. conn[c].open = "open"
    BY DEF OnTraffic, Idle
  <1>2. PICK k \in (IF conn[c].ready
                      THEN {[conn[c] EXCEPT !.ready = FALSE, !.seen = conn[c].sent]}
                      ELSE {}) \union
                    (IF conn[c].wake = "resume"
                      THEN {[conn[c] EXCEPT !.wake = "none"]} ELSE {}) :
          CASE k.tls = "plain" -> OnPlaintext(c, k)
            [] srv.proto = "resp" /\ k.tls = "shaking" /\ k.late -> Close(c)
            [] OTHER -> Becomes(c, [k EXCEPT !.pc = "read"])
    BY Zenon DEF OnTraffic
  <1>3. \/ Close(c)
        \/ Becomes(c, k)
        \/ Becomes(c, [k EXCEPT !.pc = "frames"])
        \/ Becomes(c, [k EXCEPT !.pc = "read"])
    BY <1>2 DEF OnPlaintext
  <1>4. conn[c].pc = "idle"
    BY DEF OnTraffic, Idle
  <1>5. /\ Moved(conn[c], k)
        /\ Moved(conn[c], [k EXCEPT !.pc = "frames"])
        /\ Moved(conn[c], [k EXCEPT !.pc = "read"])
    BY <1>1, <1>2, <1>4, ZenonT(60) DEF ShapeInv, ShapeOf, Moved, Fields
  <1> QED
    BY <1>1, <1>3, <1>5, CloseCloses, BecomesIsQuiet DEF Becomes

(* tlsConn.Read: the handshake, and cells into readBuf.                    *)
LEMMA ReadKinds ==
  ASSUME ShapeInv, NEW c \in Conns, ReadHandshake(c) \/ ReadCells(c)
  PROVE  Quiet \/ Closes(c)
  <1>1. conn[c].pc = "read" /\ conn[c].open = "open"
    BY BusyIsOpen DEF ReadHandshake, ReadCells
  <1>2. CASE ReadHandshake(c)
    <2>1. \/ Close(c)
          \/ Becomes(c, [conn[c] EXCEPT !.tls = "up", !.late = FALSE])
          \/ Becomes(c, [conn[c] EXCEPT !.pc = "idle"])
      BY <1>2 DEF ReadHandshake
    <2>2. /\ Moved(conn[c], [conn[c] EXCEPT !.tls = "up", !.late = FALSE])
          /\ Moved(conn[c], [conn[c] EXCEPT !.pc = "idle"])
      BY <1>1 DEF ShapeInv, ShapeOf, Moved, Fields
    <2> QED
      BY <1>1, <2>1, <2>2, CloseCloses, BecomesIsQuiet, Zenon DEF Becomes
  <1>3. CASE ReadCells(c)
    <2>1. \/ Close(c)
          \/ UNCHANGED vars
          \/ Becomes(c, [conn[c] EXCEPT !.pc = "idle"])
          \/ \E n : Becomes(c, [conn[c] EXCEPT !.buf = n, !.pc = "frames"])
      BY <1>3, Zenon DEF ReadCells
    <2>2. /\ Moved(conn[c], [conn[c] EXCEPT !.pc = "idle"])
          /\ \A n : Moved(conn[c], [conn[c] EXCEPT !.buf = n, !.pc = "frames"])
      BY <1>1 DEF ShapeInv, ShapeOf, Moved, Fields
    <2>3. CASE UNCHANGED vars
      BY <2>3, SameIsQuiet DEF vars
    <2> QED
      BY <1>1, <2>1, <2>2, <2>3, CloseCloses, BecomesIsQuiet, Zenon DEF Becomes
  <1> QED
    BY <1>2, <1>3

(* The loop over the frames ends and the batch is written (EndFrames), or  *)
(* the connection is closed.                                               *)
LEMMA EndKinds ==
  ASSUME ShapeInv, NEW c \in Conns, EndFrames(c) \/ BadFrame(c)
  PROVE  Quiet \/ Closes(c)
  <1>1. conn[c].pc = "frames" /\ conn[c].open = "open"
    BY BusyIsOpen DEF EndFrames, BadFrame, InFrames
  <1>2. \/ Close(c)
        \/ \E p \in {"idle", "read"} : Becomes(c, [Flush(conn[c]) EXCEPT !.pc = p])
    BY DEF EndFrames, BadFrame
  <1>3. \A p \in {"idle", "read"} : Moved(conn[c], [Flush(conn[c]) EXCEPT !.pc = p])
    BY <1>1, ZenonT(60) DEF ShapeInv, ShapeOf, Moved, Fields, Flush
  <1> QED
    BY <1>1, <1>2, <1>3, CloseCloses, BecomesIsQuiet DEF Becomes

(* What Static says of the listener and of the scripts.                    *)
LEMMA StaticFacts ==
  ASSUME Static
  PROVE  /\ srv.proto \in {"binary", "resp"}
         /\ srv.mode \in Configurations
         /\ \A c \in Conns : Script(c) \in Seq(RequestKinds)
  <1>1. srv \in ListenerType /\ client \in [Conns -> ClientType]
    BY Configured DEF Static
  <1> QED
    BY <1>1 DEF ListenerType, ClientType, Script

(* Answer, field by field.                                                 *)
LEMMA AnswerFields ==
  ASSUME NEW k, NEW reply, DOMAIN k = Fields, k.answers \in Seq(Replies)
  PROVE  LET a == Answer(k, reply) IN
         /\ DOMAIN a = Fields
         /\ a.answers = Append(k.answers, reply)
         /\ srv.proto = "binary" => /\ a.wire = Append(k.wire, Len(k.answers) + 1)
                                    /\ a.out = k.out
         /\ srv.proto # "binary" => /\ a.out = Append(k.out, Len(k.answers) + 1)
                                    /\ a.wire = k.wire
         /\ a.open = k.open /\ a.pc = k.pc /\ a.user = k.user /\ a.fails = k.fails
         /\ a.pending = k.pending /\ a.wake = k.wake /\ a.over = k.over
  BY DEF Answer, Fields

\* k is the connection with its identity, its failures or its end changed.
Variant(c, k) ==
  /\ DOMAIN k = Fields
  /\ k.answers = conn[c].answers /\ k.wire = conn[c].wire /\ k.out = conn[c].out
  /\ k.open = conn[c].open /\ k.pc = conn[c].pc
  /\ k.pending = conn[c].pending /\ k.wake = conn[c].wake
  /\ k.over \in BOOLEAN

\* Session permits to answer r with reply when the connection is then like k.
Permitted(c, k, r, reply) ==
  /\ reply \in Replies
  /\ [reply |-> reply, user |-> k.user, fails |-> k.fails]
       \in S!Outcome(r, conn[c].user, conn[c].fails)
  /\ ~k.over => k.fails < MaxAuthFails /\ r # "quit"

(* A handler that answers and continues serves the request, or it closes   *)
(* the connection.                                                         *)
LEMMA AnswerServes ==
  ASSUME Static, ShapeInv, NEW c \in Conns, Serving(c), NEW k, Variant(c, k),
         NEW reply, Permitted(c, k, NextReq(c), reply), Continue(c, Answer(k, reply))
  PROVE  Serves(c) \/ Closes(c)
  <1>1. CASE Close(c)
    BY <1>1, CloseCloses DEF Serving
  <1>2. CASE Becomes(c, Answer(k, reply))
    <2> DEFINE a == Answer(k, reply)
    <2>1. conn[c].answers \in Seq(Replies) /\ DOMAIN conn = Conns
      BY DEF ShapeInv, ShapeOf
    <2>a. DOMAIN k = Fields /\ k.answers \in Seq(Replies)
      BY <2>1 DEF Variant
    <2>b. /\ DOMAIN a = Fields
          /\ a.answers = Append(k.answers, reply)
          /\ srv.proto = "binary" => /\ a.wire = Append(k.wire, Len(k.answers) + 1)
                                     /\ a.out = k.out
          /\ srv.proto # "binary" => /\ a.out = Append(k.out, Len(k.answers) + 1)
                                     /\ a.wire = k.wire
          /\ a.open = k.open /\ a.pc = k.pc /\ a.user = k.user /\ a.fails = k.fails
          /\ a.pending = k.pending /\ a.wake = k.wake /\ a.over = k.over
      BY <2>a, AnswerFields, Zenon
    <2> HIDE DEF a
    <2>2. /\ DOMAIN a = Fields
          /\ a.answers = Append(conn[c].answers, reply)
          /\ srv.proto = "binary" => /\ a.wire = Append(conn[c].wire, Len(conn[c].answers) + 1)
                                     /\ a.out = conn[c].out
          /\ srv.proto # "binary" => /\ a.out = Append(conn[c].out, Len(conn[c].answers) + 1)
                                     /\ a.wire = conn[c].wire
          /\ a.open = conn[c].open /\ a.pc = conn[c].pc /\ a.user = k.user
          /\ a.fails = k.fails /\ a.pending = conn[c].pending
          /\ a.wake = conn[c].wake /\ a.over = k.over
      BY <2>b DEF Variant
    <2>3. conn' = [conn EXCEPT ![c] = a] /\ conn'[c] = a
      BY <1>2, <2>1 DEF Becomes, a
    <2>4. Changes(c) /\ UNCHANGED <<jobs, worker>>
      BY <1>2, <2>1, <2>2, <2>3 DEF Becomes, Changes
    <2>5. Answered(conn[c], conn'[c], NextReq(c), reply)
      <3>1. a.pending = FALSE
        BY <2>2 DEF Serving, ShapeInv, ShapeOf
      <3> QED
        BY <2>2, <2>3, <3>1 DEF Answered, Permitted, Variant, Serving
    <2>6. \E x \in Replies : Answered(conn[c], conn'[c], NextReq(c), x)
      BY <2>5 DEF Permitted
    <2> QED
      BY <2>2, <2>3, <2>4, <2>6, StaticFacts, Zenon DEF Serves, Serving
  <1> QED
    BY <1>1, <1>2 DEF Continue

(* What holds when a frame is handled: the connection is served.           *)
LEMMA FrameServing ==
  ASSUME ShapeInv, SessionInv, NEW c \in Conns, HandleFrame(c)
  PROVE  /\ Serving(c)
         /\ Variant(c, conn[c])
         /\ conn[c].fails < MaxAuthFails /\ conn[c].fails \in Nat
         /\ NextReq(c) = NextPending(c)
  <1>1. /\ conn[c].pc = "frames" /\ ~conn[c].pending /\ ~conn[c].over /\ HasNext(c)
    BY DEF HandleFrame, InFrames, Complete
  <1>2. conn[c].open = "open"
    BY <1>1, BusyIsOpen
  <1>3. Taken(c) = Len(conn[c].answers)
    BY <1>1 DEF Taken, ShapeInv, ShapeOf
  <1> QED
    BY <1>1, <1>2, <1>3 DEF Serving, Variant, ShapeInv, ShapeOf, SessionInv, SessionOf, NextReq, NextPending

(* The outcomes Session permits, in terms of this module's Requests.       *)
LEMMA OutcomeFacts ==
  ASSUME NEW u, NEW f \in Nat
  PROVE  /\ \A r \in Auths : srv.mode = "open" =>
              [reply |-> "ok", user |-> u, fails |-> f] \in S!Outcome(r, u, f)
         /\ \A r \in Auths : srv.mode # "open" =>
              [reply |-> "err", user |-> u, fails |-> f] \in S!Outcome(r, u, f)
         /\ \A r \in Auths : srv.mode # "open" /\ Accepts(srv.mode, r) =>
              [reply |-> "ok", user |-> Identity(srv.mode, r), fails |-> f]
                \in S!Outcome(r, u, f)
         /\ \A r \in Auths : srv.mode # "open" /\ ~Accepts(srv.mode, r) =>
              [reply |-> "err", user |-> u, fails |-> f + 1] \in S!Outcome(r, u, f)
         /\ [reply |-> "pong", user |-> u, fails |-> f] \in S!Outcome("ping", u, f)
         /\ [reply |-> "ok", user |-> u, fails |-> f] \in S!Outcome("quit", u, f)
         /\ \A x \in {"ok", "err", "noauth"} :
              [reply |-> x, user |-> u, fails |-> f] \in S!Outcome("starttls", u, f)
         /\ \A r \in Datas :
              LET x == CASE u = NoUser -> "noauth"
                         [] u # NoUser /\ May(srv.mode, u, r) -> "data"
                         [] OTHER -> "noperm"
              IN [reply |-> x, user |-> u, fails |-> f] \in S!Outcome(r, u, f)
  <1> USE DEF S!Auths, S!Passwords, S!Tokens, S!Datas, Auths, Passwords, Tokens, Datas
  <1>1. ASSUME NEW r \in Auths, srv.mode = "open"
        PROVE  [reply |-> "ok", user |-> u, fails |-> f] \in S!Outcome(r, u, f)
    BY <1>1 DEF S!Outcome
  <1>2. ASSUME NEW r \in Auths, srv.mode # "open"
        PROVE  [reply |-> "err", user |-> u, fails |-> f] \in S!Outcome(r, u, f)
    BY <1>2 DEF S!Outcome
  <1>3. ASSUME NEW r \in Auths, srv.mode # "open", Accepts(srv.mode, r)
        PROVE  [reply |-> "ok", user |-> Identity(srv.mode, r), fails |-> f]
                 \in S!Outcome(r, u, f)
    <2>1. S!Accepts(srv.mode, r) /\ S!Identity(srv.mode, r) = Identity(srv.mode, r)
      BY <1>3 DEF S!Accepts, Accepts, S!HasPolicy, HasPolicy, S!Identity, Identity,
                  S!UserOf, UserOf
    <2> QED
      BY <1>3, <2>1 DEF S!Outcome
  <1>4. ASSUME NEW r \in Auths, srv.mode # "open", ~Accepts(srv.mode, r)
        PROVE  [reply |-> "err", user |-> u, fails |-> f + 1] \in S!Outcome(r, u, f)
    <2>1. ~S!Accepts(srv.mode, r)
      BY <1>4 DEF S!Accepts, Accepts, S!HasPolicy, HasPolicy
    <2> QED
      BY <1>4, <2>1 DEF S!Outcome
  <1>5. /\ [reply |-> "pong", user |-> u, fails |-> f] \in S!Outcome("ping", u, f)
        /\ [reply |-> "ok", user |-> u, fails |-> f] \in S!Outcome("quit", u, f)
        /\ \A x \in {"ok", "err", "noauth"} :
             [reply |-> x, user |-> u, fails |-> f] \in S!Outcome("starttls", u, f)
    BY DEF S!Outcome
  <1>6. ASSUME NEW r \in Datas
        PROVE  LET x == CASE u = NoUser -> "noauth"
                          [] u # NoUser /\ May(srv.mode, u, r) -> "data"
                          [] OTHER -> "noperm"
               IN [reply |-> x, user |-> u, fails |-> f] \in S!Outcome(r, u, f)
    <2>1. S!NoUser = NoUser /\ (S!May(srv.mode, u, r) <=> May(srv.mode, u, r))
      BY DEF S!NoUser, NoUser, S!May, May, S!HasPolicy, HasPolicy
    <2> QED
      BY <2>1 DEF S!Outcome
  <1> QED
    BY <1>1, <1>2, <1>3, <1>4, <1>5, <1>6

(* authFailed: a variant of the connection that Session permits for every  *)
(* AUTH that must not succeed.                                             *)
LEMMA FailurePermitted ==
  ASSUME NEW c \in Conns, NEW k, Variant(c, k), k.user = conn[c].user,
         k.fails = conn[c].fails, conn[c].fails \in Nat, NEW r \in Auths, ~k.over,
         srv.mode # "open", ~Accepts(srv.mode, r)
  PROVE  \E v : /\ AuthFailed(k) = Answer(v, "err")
                /\ Variant(c, v) /\ Permitted(c, v, r, "err")
  <1> DEFINE f == [k EXCEPT !.fails = @ + 1]
             v == [f EXCEPT !.over = f.over \/ f.fails >= MaxAuthFails]
  <1>1. AuthFailed(k) = Answer(v, "err")
    BY DEF AuthFailed
  <1>2. /\ DOMAIN v = Fields
        /\ v.answers = k.answers /\ v.wire = k.wire /\ v.out = k.out
        /\ v.open = k.open /\ v.pc = k.pc /\ v.pending = k.pending /\ v.wake = k.wake
        /\ v.user = k.user /\ v.fails = conn[c].fails + 1
        /\ v.over = (k.over \/ conn[c].fails + 1 >= MaxAuthFails)
    BY DEF Variant, Fields
  <1> HIDE DEF v
  <1>3. Variant(c, v)
    BY <1>2 DEF Variant
  <1>4. [reply |-> "err", user |-> v.user, fails |-> v.fails]
          \in S!Outcome(r, conn[c].user, conn[c].fails)
    BY <1>2, OutcomeFacts, Zenon
  <1>5. ~v.over => v.fails < MaxAuthFails /\ r # "quit"
    <2>1. ~v.over => ~(conn[c].fails + 1 >= MaxAuthFails)
      BY <1>2, Zenon
    <2>2. ~(conn[c].fails + 1 >= MaxAuthFails) => conn[c].fails + 1 < MaxAuthFails
      BY Configured
    <2>3. r # "quit"
      BY DEF Auths, Passwords, Tokens
    <2> QED
      BY <1>2, <2>1, <2>2, <2>3, Zenon
  <1> QED
    BY <1>1, <1>3, <1>4, <1>5 DEF Permitted, Replies

(* The AUTHs that need no worker (HandleAuthNow).                          *)
LEMMA AuthNowKinds ==
  ASSUME Static, ShapeInv, NEW c \in Conns, Serving(c), Variant(c, conn[c]),
         conn[c].fails < MaxAuthFails, conn[c].fails \in Nat, HandleAuthNow(c)
  PROVE  Serves(c) \/ Closes(c)
  <1> DEFINE k == conn[c] r == NextReq(c)
  <1>1. r \in Auths /\ AuthNow(r) /\ r # "quit" /\ ~k.over
    BY DEF HandleAuthNow, Auths, Passwords, Tokens, Serving
  <1>2. CASE srv.mode = "open"
    <2>1. Continue(c, Answer(k, "ok"))
      BY <1>2 DEF HandleAuthNow
    <2>2. Permitted(c, k, r, "ok")
      BY <1>1, <1>2, OutcomeFacts, Zenon DEF Permitted, Replies
    <2> QED
      BY <2>1, <2>2, AnswerServes
  <1>3. CASE srv.mode = "rbac_default" /\ r = "auth_default"
    <2> DEFINE v == [k EXCEPT !.user = "default"]
    <2>1. Continue(c, Answer(v, "ok"))
      BY <1>3 DEF HandleAuthNow
    <2>2. Variant(c, v) /\ v.user = "default" /\ v.fails = k.fails /\ v.over = k.over
      BY DEF Variant, Fields
    <2>3. Accepts(srv.mode, r) /\ Identity(srv.mode, r) = "default"
      BY <1>3 DEF Accepts, Identity, HasPolicy, UserOf, Tokens
    <2> HIDE DEF v
    <2>4. Permitted(c, v, r, "ok")
      BY <1>1, <1>3, <2>2, <2>3, OutcomeFacts, Zenon DEF Permitted, Replies
    <2> QED
      BY <2>1, <2>2, <2>4, AnswerServes
  <1>4. CASE srv.mode # "open" /\ ~(srv.mode = "rbac_default" /\ r = "auth_default")
    <2>1. Continue(c, AuthFailed(k))
      BY <1>4 DEF HandleAuthNow
    <2>2. ~Accepts(srv.mode, r)
      BY <1>1, <1>4 DEF AuthNow, Accepts, HasPolicy
    <2>3. PICK v : /\ AuthFailed(k) = Answer(v, "err")
                   /\ Variant(c, v) /\ Permitted(c, v, r, "err")
      BY <1>1, <1>4, <2>2, FailurePermitted
    <2> QED
      BY <2>1, <2>3, AnswerServes
  <1> QED
    BY <1>2, <1>3, <1>4

(* An AUTH goes to the workers, or finds their queue full or closed        *)
(* (dispatchAuth, dispatchOAuth).                                          *)
LEMMA AuthDispatchKinds ==
  ASSUME Static, ShapeInv, NEW c \in Conns, Serving(c), Variant(c, conn[c]),
         conn[c].fails < MaxAuthFails, conn[c].fails \in Nat, HandleAuthDispatch(c)
  PROVE  Quiet \/ Dispatches(c) \/ Serves(c) \/ Closes(c)
  <1>1. NextReq(c) \in Auths /\ ~AuthNow(NextReq(c))
    BY DEF HandleAuthDispatch
  <1>2. CASE engine.closed
    BY <1>2, SameIsQuiet DEF HandleAuthDispatch
  <1>3. CASE ~engine.closed /\ Len(jobs) < QueueCap
    <2>1. /\ conn' = [conn EXCEPT ![c] = [conn[c] EXCEPT !.pending = TRUE]]
          /\ jobs' = Append(jobs, c) /\ UNCHANGED <<srv, client, worker>>
      BY <1>3 DEF HandleAuthDispatch, ShapeInv, ShapeOf
    <2>2. conn'[c] = [conn[c] EXCEPT !.pending = TRUE] /\ DOMAIN conn'[c] = Fields
      BY <2>1 DEF ShapeInv, ShapeOf
    <2> QED
      BY <1>1, <2>1, <2>2 DEF Dispatches, Changes, ShapeInv, ShapeOf
  <1>4. CASE ~engine.closed /\ ~(Len(jobs) < QueueCap)
    <2>1. Continue(c, Answer(conn[c], "err"))
      BY <1>4 DEF HandleAuthDispatch
    <2>2. srv.mode # "open" /\ NextReq(c) # "quit"
      BY <1>1 DEF AuthNow, Auths, Passwords, Tokens
    <2>3. Permitted(c, conn[c], NextReq(c), "err")
      BY <1>1, <2>2, OutcomeFacts, Zenon DEF Permitted, Replies
    <2> QED
      BY <2>1, <2>3, AnswerServes
  <1> QED
    BY <1>2, <1>3, <1>4

(* STARTTLS: the upgrade writes the batch; otherwise it is answered like   *)
(* any request (dispatchSTARTTLS, upgradeToTLS).                           *)
LEMMA StartTLSKinds ==
  ASSUME Static, ShapeInv, OrderInv, NEW c \in Conns, Serving(c), Variant(c, conn[c]),
         conn[c].fails < MaxAuthFails, conn[c].fails \in Nat, HandleSTARTTLS(c)
  PROVE  Serves(c) \/ Closes(c)
  <1> DEFINE k == conn[c] n == Len(conn[c].answers) + 1
  <1>1. NextReq(c) = "starttls"
    BY DEF HandleSTARTTLS
  <1>2. \A x \in {"ok", "err", "noauth"} : Permitted(c, k, NextReq(c), x)
    BY <1>1, OutcomeFacts, ZenonT(60) DEF Permitted, Replies
  <1>3. CASE ~Upgrades(k)
    <2>1. PICK x \in {"err", "noauth"} : Continue(c, Answer(k, x))
      BY <1>3 DEF HandleSTARTTLS
    <2> QED
      BY <1>2, <2>1, AnswerServes
  <1>4. CASE Upgrades(k)
    <2> DEFINE a == Answer(k, "ok")
    <2>1. PICK e : conn' = [conn EXCEPT ![c] =
                     [Flush(a) EXCEPT !.tls = "shaking", !.buf = e, !.pc = "idle"]]
      BY <1>4, Zenon DEF HandleSTARTTLS
    <2>2. UNCHANGED <<srv, client, jobs, worker>>
      BY <1>4 DEF HandleSTARTTLS
    <2>3. DOMAIN k = Fields /\ k.answers \in Seq(Replies)
      BY DEF ShapeInv, ShapeOf
    <2>4. /\ DOMAIN a = Fields
          /\ a.answers = Append(k.answers, "ok")
          /\ srv.proto = "binary" => a.wire = Append(k.wire, n) /\ a.out = k.out
          /\ srv.proto # "binary" => a.out = Append(k.out, n) /\ a.wire = k.wire
          /\ a.open = k.open /\ a.pc = k.pc /\ a.user = k.user /\ a.fails = k.fails
          /\ a.pending = k.pending /\ a.wake = k.wake /\ a.over = k.over
      BY <2>3, AnswerFields, Zenon
    <2> HIDE DEF a
    <2> DEFINE l == [Flush(a) EXCEPT !.tls = "shaking", !.buf = e, !.pc = "idle"]
    <2>5. /\ DOMAIN l = Fields
          /\ l.answers = Append(k.answers, "ok")
          /\ l.wire = a.wire \o a.out /\ l.out = <<>>
          /\ l.open = k.open /\ l.user = k.user /\ l.fails = k.fails
          /\ l.pending = k.pending /\ l.wake = k.wake /\ l.over = k.over
      BY <2>4 DEF Flush, Fields
    <2>6. conn' = [conn EXCEPT ![c] = l] /\ conn'[c] = l
      BY <2>1 DEF ShapeInv, ShapeOf
    <2> HIDE DEF l
    <2>7. \/ l.wire = Append(k.wire, n) /\ l.out = k.out /\ srv.proto = "binary"
          \/ l.wire = k.wire \o Append(k.out, n) /\ l.out = <<>>
      <3>1. CASE srv.proto = "binary"
        <4>1. k.out = <<>> /\ k.wire \in Seq(Nat) /\ n \in Nat
          <5>1. k.out = <<>>
            BY <3>1 DEF OrderInv, OrderOf
          <5> QED
            BY <5>1 DEF ShapeInv, ShapeOf
        <4>2. Append(k.wire, n) \in Seq(Nat)
          BY <4>1
        <4>3. Append(k.wire, n) \o <<>> = Append(k.wire, n)
          BY <4>2
        <4> QED
          BY <2>4, <2>5, <3>1, <4>1, <4>3, Zenon
      <3>2. CASE srv.proto # "binary"
        BY <2>4, <2>5, <3>2, Zenon
      <3> QED
        BY <3>1, <3>2, Zenon
    <2>8. Changes(c)
      BY <2>2, <2>5, <2>6, Zenon DEF Changes
    <2>9. Answered(k, conn'[c], NextReq(c), "ok")
      <3>1. k.pending = FALSE
        BY DEF Serving, ShapeInv, ShapeOf
      <3> QED
        BY <1>1, <1>2, <2>5, <2>6, <3>1 DEF Answered, Permitted, Serving, Variant
    <2>10. \E reply \in Replies : Answered(k, conn'[c], NextReq(c), reply)
      BY <2>9 DEF Replies
    <2> QED
      BY <2>2, <2>5, <2>6, <2>7, <2>8, <2>10, Zenon DEF Serves
  <1> QED
    BY <1>3, <1>4

(* The requests that are answered on the spot: PING, QUIT and the data     *)
(* commands behind their gate (gateMessage, Execute).                      *)
LEMMA PlainKinds ==
  ASSUME NoBinaryPing, Static, ShapeInv, NEW c \in Conns, Serving(c), Variant(c, conn[c]),
         conn[c].fails < MaxAuthFails, conn[c].fails \in Nat,
         HandlePing(c) \/ HandleData(c) \/ HandleQuit(c)
  PROVE  Serves(c) \/ Closes(c)
  <1> DEFINE k == conn[c] r == NextReq(c)
  <1>1. CASE HandlePing(c)
    <2>1. Script(c) \in Seq(RequestKinds) /\ k.answers \in Seq(Replies)
      BY StaticFacts DEF ShapeInv, ShapeOf
    <2>2. Taken(c) + 1 \in DOMAIN Script(c)
      BY <2>1 DEF Serving, HasNext, Taken
    <2>3. srv.proto # "binary"
      BY <1>1, <2>2 DEF HandlePing, NextReq, NoBinaryPing, Static, Script
    <2>4. r = "ping" /\ Continue(c, Answer(k, "pong"))
      BY <1>1, <2>3 DEF HandlePing
    <2>5. Permitted(c, k, r, "pong")
      BY <2>4, OutcomeFacts, Zenon DEF Permitted, Replies
    <2> QED
      BY <2>4, <2>5, AnswerServes
  <1>2. CASE HandleData(c)
    <2>1. r \in Datas /\ r # "quit" /\ Continue(c, Answer(k, Gate(k, r)))
      BY <1>2 DEF HandleData, Datas
    <2>2. Gate(k, r) = CASE k.user = NoUser -> "noauth"
                         [] k.user # NoUser /\ May(srv.mode, k.user, r) -> "data"
                         [] OTHER -> "noperm"
      BY DEF Gate, Authorized
    <2>3. [reply |-> Gate(k, r), user |-> k.user, fails |-> k.fails]
            \in S!Outcome(r, k.user, k.fails)
      BY <2>1, <2>2, OutcomeFacts, Zenon
    <2>4. Permitted(c, k, r, Gate(k, r))
      BY <2>1, <2>2, <2>3 DEF Permitted, Replies
    <2> QED
      BY <2>1, <2>4, AnswerServes
  <1>3. CASE HandleQuit(c)
    <2> DEFINE v == [k EXCEPT !.over = TRUE]
    <2>1. r = "quit" /\ Continue(c, Answer(v, "ok"))
      BY <1>3 DEF HandleQuit
    <2>2. Variant(c, v) /\ v.user = k.user /\ v.fails = k.fails /\ v.over
      BY DEF Variant, Fields
    <2> HIDE DEF v
    <2>3. Permitted(c, v, r, "ok")
      BY <2>1, <2>2, OutcomeFacts, Zenon DEF Permitted, Replies
    <2> QED
      BY <2>1, <2>2, <2>3, AnswerServes
  <1> QED
    BY <1>1, <1>2, <1>3

(* One turn of the loop over the frames.                                   *)
LEMMA FrameKinds ==
  ASSUME NoBinaryPing, Static, ShapeInv, OrderInv, SessionInv,
         NEW c \in Conns, HandleFrame(c)
  PROVE  Quiet \/ Dispatches(c) \/ Serves(c) \/ Closes(c)
  BY FrameServing, AuthNowKinds, AuthDispatchKinds, PlainKinds, StartTLSKinds
  DEF HandleFrame

(* The callback of a worker's Wake answers the AUTH that was pending, or   *)
(* closes the connection after the last attempt.                           *)
LEMMA ReplyKinds ==
  ASSUME Static, ShapeInv, SessionInv, NEW c \in Conns, AuthReply(c)
  PROVE  Replied(c) \/ Closes(c)
  <1> DEFINE k == [conn[c] EXCEPT !.pending = FALSE, !.wake = "none"]
             r == NextPending(c)
             a == IF conn[c].wake = "ok"
                    THEN Answer([k EXCEPT !.user = Identity(srv.mode, r)], "ok")
                    ELSE AuthFailed(k)
             l == [a EXCEPT !.wire = Append(conn[c].wire, Len(a.answers)),
                            !.out = conn[c].out, !.wake = "resume"]
             f == [k EXCEPT !.fails = @ + 1]
             v == IF conn[c].wake = "ok" THEN [k EXCEPT !.user = Identity(srv.mode, r)]
                  ELSE [f EXCEPT !.over = f.over \/ f.fails >= MaxAuthFails]
             x == IF conn[c].wake = "ok" THEN "ok" ELSE "err"
  <1>1. /\ conn[c].open = "open" /\ conn[c].wake \in {"ok", "fail"} /\ conn[c].pc = "idle"
        /\ IF a.over THEN Close(c) ELSE Becomes(c, l)
    BY DEF AuthReply, Idle
  <1>2. /\ ~conn[c].over /\ conn[c].fails < MaxAuthFails /\ conn[c].fails \in Nat
        /\ r \in Auths /\ ~AuthNow(r)
        /\ conn[c].wake = "ok" <=> Accepts(srv.mode, r)
    BY <1>1 DEF SessionInv, SessionOf, ShapeInv, ShapeOf
  <1>3. srv.mode # "open" /\ r # "quit"
    BY <1>2 DEF AuthNow, Auths, Passwords, Tokens
  <1>4. a = Answer(v, x)
    BY DEF AuthFailed
  <1>5. /\ DOMAIN v = Fields /\ v.answers = conn[c].answers /\ v.wire = conn[c].wire
        /\ v.open = "open" /\ v.pc = conn[c].pc /\ v.pending = FALSE
        /\ conn[c].wake = "ok" => /\ v.user = Identity(srv.mode, r)
                                  /\ v.fails = conn[c].fails /\ v.over = conn[c].over
        /\ conn[c].wake # "ok" => /\ v.user = conn[c].user /\ v.fails = conn[c].fails + 1
                                  /\ v.over = (conn[c].over \/ conn[c].fails + 1 >= MaxAuthFails)
    BY <1>1 DEF ShapeInv, ShapeOf, Fields
  <1>6. conn[c].answers \in Seq(Replies) /\ v.over \in BOOLEAN
    BY <1>5, Zenon DEF ShapeInv, ShapeOf
  <1>x. x \in {"ok", "err"}
    OBVIOUS
  <1> HIDE DEF v, x, a
  <1>7. /\ DOMAIN a = Fields /\ a.answers = Append(conn[c].answers, x)
        /\ a.open = "open" /\ a.pc = conn[c].pc /\ a.user = v.user /\ a.fails = v.fails
        /\ a.pending = FALSE /\ a.over = v.over
    <2>1. DOMAIN v = Fields /\ v.answers \in Seq(Replies)
      BY <1>5, <1>6
    <2>2. LET b == Answer(v, x) IN
          /\ DOMAIN b = Fields /\ b.answers = Append(v.answers, x)
          /\ b.open = v.open /\ b.pc = v.pc /\ b.user = v.user /\ b.fails = v.fails
          /\ b.pending = v.pending /\ b.over = v.over
      BY <2>1, AnswerFields
    <2> QED
      BY <1>4, <1>5, <2>2
  <1>8. /\ DOMAIN l = Fields /\ l.answers = Append(conn[c].answers, x)
        /\ l.open = "open" /\ l.pc = conn[c].pc /\ l.user = v.user /\ l.fails = v.fails
        /\ l.pending = FALSE /\ l.over = a.over /\ l.wake = "resume"
        /\ l.wire = Append(conn[c].wire, Len(a.answers)) /\ l.out = conn[c].out
    BY <1>7 DEF Fields
  <1>9. Len(a.answers) = Len(conn[c].answers) + 1
    BY <1>6, <1>7
  <1> HIDE DEF l
  <1>10. CASE a.over
    BY <1>1, <1>10, CloseCloses, Zenon
  <1>11. CASE ~a.over
    <2>1. Becomes(c, l)
      BY <1>1, <1>11
    <2>2. conn' = [conn EXCEPT ![c] = l] /\ conn'[c] = l /\ UNCHANGED <<jobs, worker>>
      BY <2>1 DEF Becomes, ShapeInv, ShapeOf
    <2>3. Changes(c)
      BY <1>8, <2>1, <2>2, Zenon DEF Changes, Becomes
    <2>4. [reply |-> x, user |-> l.user, fails |-> l.fails]
            \in S!Outcome(r, conn[c].user, conn[c].fails)
      <3>1. CASE conn[c].wake = "ok"
        BY <1>2, <1>3, <1>5, <1>8, <3>1, OutcomeFacts, ZenonT(60) DEF x
      <3>2. CASE conn[c].wake # "ok"
        BY <1>2, <1>3, <1>5, <1>8, <3>2, OutcomeFacts, ZenonT(60) DEF x
      <3> QED
        BY <3>1, <3>2
    <2>5. l.fails < MaxAuthFails
      <3>1. CASE conn[c].wake = "ok"
        BY <1>2, <1>5, <1>8, <3>1, Zenon
      <3>2. CASE conn[c].wake # "ok"
        <4>1. ~(conn[c].fails + 1 >= MaxAuthFails)
          BY <1>5, <1>7, <1>11, <3>2, ZenonT(60)
        <4> QED
          BY <1>2, <1>5, <1>8, <3>2, <4>1, Configured
      <3> QED
        BY <3>1, <3>2
    <2>6. Answered(conn[c], conn'[c], r, x) /\ x \in Replies
      BY <1>3, <1>6, <1>7, <1>8, <1>x, <2>2, <2>4, <2>5, SMTT(30) DEF Answered, Replies
    <2> QED
      BY <1>1, <1>8, <1>9, <2>2, <2>3, <2>6 DEF Replied
  <1> QED
    BY <1>10, <1>11

(* Every step of the listener is of one of the kinds.                      *)
LEMMA StepKinds ==
  ASSUME NoBinaryPing, ListenerInv, [Next]_vars
  PROVE  Kinds
  <1> USE DEF ListenerInv
  <1>1. CASE UNCHANGED vars
    BY <1>1, SameIsQuiet DEF vars, Kinds
  <1>2. ASSUME NEW c \in Conns,
               \/ OnTraffic(c) \/ ReadHandshake(c) \/ ReadCells(c) \/ HandleFrame(c)
               \/ BadFrame(c) \/ EndFrames(c) \/ AuthReply(c) \/ DeadlinePasses(c)
               \/ Send(c) \/ Shake(c) \/ OnOpen(c) \/ OnClose(c)
        PROVE  Kinds
    <2>1. CASE OnClose(c)
      BY <2>1, CloseCloses DEF OnClose, Idle, Kinds
    <2> QED
      BY <1>2, <2>1, TrafficKinds, ReadKinds, FrameKinds, EndKinds, ReplyKinds,
         EventKinds, OpenKind DEF Kinds
  <1>3. CASE Sweep
    BY <1>3, SweepKind DEF Kinds
  <1>4. CASE \/ StopEngine \/ StopReturns \/ ShutdownExpires \/ CloseJobs
             \/ OnBoot \/ ShutdownStarts
    BY <1>4, SameIsQuiet
    DEF StopEngine, StopReturns, ShutdownExpires, CloseJobs, OnBoot, ShutdownStarts, Kinds
  <1>5. CASE \E w \in Workers : WorkerTakes(w) \/ WorkerVerifies(w)
    BY <1>5 DEF Kinds
  <1> QED
    BY <1>1, <1>2, <1>3, <1>4, <1>5 DEF Next, SystemStep

-------------------------------------------------------------------------------
(* Every kind of step preserves the invariant *)

(* A connection without requests, new, open or closed.                     *)
LEMMA EmptyConn ==
  /\ ShapeOf(New) /\ ShapeOf(Closed)
  /\ \A proto : OrderOf(New, proto) /\ OrderOf(Closed, proto)
  /\ \A k : /\ DOMAIN k = Fields /\ k.open = "open" /\ k.fails = 0
            /\ k.pending = FALSE /\ k.over = FALSE
            /\ k.answers = <<>> /\ k.wire = <<>> /\ k.out = <<>>
            => ShapeOf(k) /\ \A proto : OrderOf(k, proto)
  <1>1. <<>> \in Seq(Nat) /\ <<>> \in Seq(Replies) /\ Len(<<>>) = 0
    OBVIOUS
  <1>2. /\ DOMAIN New = Fields /\ DOMAIN Closed = Fields
        /\ New.open = "new" /\ Closed.open = "closed" /\ New.fails = 0 /\ Closed.fails = 0
        /\ New.pending = FALSE /\ Closed.pending = FALSE
        /\ New.over = FALSE /\ Closed.over = FALSE
        /\ New.answers = <<>> /\ New.wire = <<>> /\ New.out = <<>>
        /\ Closed.answers = <<>> /\ Closed.wire = <<>> /\ Closed.out = <<>>
    BY DEF New, Closed, Fields
  <1>3. ShapeOf(New) /\ ShapeOf(Closed)
    <2>1. 0 \in Nat /\ FALSE \in BOOLEAN
      OBVIOUS
    <2> QED
      BY <1>1, <1>2, <2>1, Zenon DEF ShapeOf
  <1>4. Numbered(<<>>, <<>>, <<>>)
    BY <1>1 DEF Numbered
  <1>5. \A k, proto : k.answers = <<>> /\ k.wire = <<>> /\ k.out = <<>> => OrderOf(k, proto)
    BY <1>4 DEF OrderOf
  <1> QED
    BY <1>1, <1>2, <1>3, <1>5, Zenon DEF ShapeOf

(* A listener starts without connections and without jobs.                 *)
LEMMA InitInv ==
  ASSUME Init
  PROVE  ListenerInv
  <1>1. Static
    BY DEF Init, Static
  <1>2. ShapeInv
    BY EmptyConn DEF Init, ShapeInv
  <1>3. OrderInv
    BY EmptyConn DEF Init, OrderInv
  <1>4. FlightInv
    <2>1. \A c \in Conns : ~InFlight(c)
      BY Configured, SMTT(30) DEF Init, InFlight
    <2> QED
      BY <2>1, SMTT(30) DEF Init, FlightInv
  <1>5. SessionInv
    BY DEF Init, SessionInv, SessionOf, New
  <1> QED
    BY <1>1, <1>2, <1>3, <1>4, <1>5 DEF ListenerInv

(* The listener and the scripts stay what they are.                        *)
LEMMA KindsStatic ==
  ASSUME Kinds, Static
  PROVE  Static' /\ srv' = srv /\ client' = client
  BY Zenon DEF Kinds, Static, Quiet, Changes, Opens, Closes, Serves, Dispatches, Replied,
         WorkerTakes, WorkerVerifies

(* A batch that is written continues the numbers of the replies.           *)
LEMMA FlushOrder ==
  ASSUME NEW answers \in Seq(Replies), NEW wire \in Seq(Nat), NEW out \in Seq(Nat),
         Numbered(answers, wire, out)
  PROVE  wire \o out \in Seq(Nat) /\ Numbered(answers, wire \o out, <<>>)
  <1> DEFINE w == wire \o out
  <1>1. w \in Seq(Nat) /\ Len(w) = Len(wire) + Len(out)
    OBVIOUS
  <1>2. ASSUME NEW i \in 1 .. Len(w)
        PROVE  w[i] = i
    <2>1. CASE i <= Len(wire)
      BY <1>1, <2>1 DEF Numbered
    <2>2. CASE i > Len(wire)
      <3>1. i - Len(wire) \in 1 .. Len(out)
        BY <1>1, <2>2
      <3>2. w[i] = out[i - Len(wire)]
        BY <1>1, <2>2, <3>1
      <3> QED
        BY <3>1, <3>2 DEF Numbered
    <2> QED
      BY <2>1, <2>2
  <1>3. Len(w) + Len(<<>>) = Len(answers)
    BY <1>1 DEF Numbered
  <1> HIDE DEF w
  <1> QED
    BY <1>1, <1>2, <1>3 DEF Numbered, w

(* A reply that joins the batch, or is written when there is no batch, has *)
(* the number of its request.                                              *)
LEMMA ReplyOrder ==
  ASSUME NEW answers \in Seq(Replies), NEW wire \in Seq(Nat), NEW out \in Seq(Nat),
         Numbered(answers, wire, out), NEW reply \in Replies
  PROVE  LET n == Len(answers) + 1 a == Append(answers, reply) IN
         /\ a \in Seq(Replies)
         /\ Append(out, n) \in Seq(Nat) /\ Numbered(a, wire, Append(out, n))
         /\ out = <<>> => Append(wire, n) \in Seq(Nat) /\ Numbered(a, Append(wire, n), out)
  <1> DEFINE n == Len(answers) + 1 a == Append(answers, reply)
             o == Append(out, n) w == Append(wire, n)
  <1>1. a \in Seq(Replies) /\ Len(a) = n
    OBVIOUS
  <1>2. n \in Nat /\ n = Len(wire) + Len(out) + 1
    <2>1. Len(wire) + Len(out) = Len(answers)
      BY Zenon DEF Numbered
    <2>2. Len(wire) \in Nat /\ Len(out) \in Nat /\ Len(answers) \in Nat
      OBVIOUS
    <2> QED
      BY <2>1, <2>2
  <1> HIDE DEF a, n
  <1>3. o \in Seq(Nat) /\ Len(o) = Len(out) + 1 /\ w \in Seq(Nat) /\ Len(w) = Len(wire) + 1
    BY <1>2
  <1>4. ASSUME NEW i \in 1 .. Len(o)
        PROVE  o[i] = Len(wire) + i
    <2>1. CASE i \in 1 .. Len(out)
      <3>1. o[i] = out[i]
        BY <2>1, <1>2
      <3> QED
        BY <2>1, <3>1, Zenon DEF Numbered
    <2>2. CASE i = Len(out) + 1
      <3>1. o[i] = n
        BY <2>2, <1>2
      <3> QED
        BY <1>2, <2>2, <3>1
    <2> QED
      BY <1>3, <2>1, <2>2, SMTT(60)
  <1>5. Numbered(a, wire, o)
    BY <1>1, <1>2, <1>3, <1>4 DEF Numbered
  <1>6. ASSUME out = <<>>
        PROVE  Numbered(a, w, out)
    <2>1. Len(out) = 0
      BY <1>6
    <2>2. \A i \in 1 .. Len(w) : w[i] = i
      BY <1>2, <1>3, <2>1 DEF Numbered
    <2> QED
      BY <1>1, <1>2, <1>3, <2>1, <2>2 DEF Numbered
  <1> QED
    BY <1>1, <1>3, <1>5, <1>6 DEF a, n

(* Quiet steps: what the callbacks do besides answering.                   *)
LEMMA QuietInv ==
  ASSUME ListenerInv, Quiet
  PROVE  ListenerInv'
  <1> USE DEF ListenerInv
  <1>1. Static' /\ srv' = srv /\ client' = client /\ jobs' = jobs /\ worker' = worker
    BY KindsStatic DEF Kinds, Quiet
  <1>2. \A c \in Conns : Moved(conn[c], conn'[c])
    BY DEF Quiet
  <1>3. ASSUME NEW c \in Conns
        PROVE  /\ conn'[c].wire \in Seq(Nat) /\ conn'[c].out \in Seq(Nat)
               /\ OrderOf(conn'[c], srv.proto)
    <2> DEFINE k == conn[c] l == conn'[c]
    <2>1. /\ k.answers \in Seq(Replies) /\ k.wire \in Seq(Nat) /\ k.out \in Seq(Nat)
          /\ OrderOf(k, srv.proto)
      BY DEF ShapeInv, ShapeOf, OrderInv
    <2>3. l.answers = k.answers
      BY <1>2, ZenonT(60) DEF Moved
    <2>4. CASE l.out = k.out /\ l.wire = k.wire /\ (k.pc = "frames" => l.pc = "frames")
      BY <2>1, <2>3, <2>4 DEF OrderOf
    <2>5. CASE l.out = <<>> /\ l.wire = k.wire \o k.out
      <3>1. l.wire \in Seq(Nat) /\ Numbered(l.answers, l.wire, <<>>)
        BY <2>1, <2>3, <2>5, FlushOrder DEF OrderOf
      <3>2. <<>> \in Seq(Nat)
        OBVIOUS
      <3> QED
        BY <2>5, <3>1, <3>2 DEF OrderOf
    <2> QED
      BY <1>2, <2>4, <2>5, ZenonT(60) DEF Moved
  <1>4. ShapeInv'
    <2>1. DOMAIN conn' = Conns
      BY DEF Quiet
    <2>2. ASSUME NEW c \in Conns
          PROVE  ShapeOf(conn'[c])
      <3> DEFINE k == conn[c] l == conn'[c]
      <3>1. ShapeOf(k) /\ Moved(k, l) /\ l.wire \in Seq(Nat) /\ l.out \in Seq(Nat)
        BY <1>2, <1>3 DEF ShapeInv
      <3> HIDE DEF k, l
      <3>2. l.open = "new" \/ l.open = "closed" => l = k
        BY <3>1, Zenon DEF Moved
      <3>3. ShapeOf(l)
        BY <3>1, <3>2, Zenon DEF ShapeOf, Moved
      <3> QED
        BY <3>3 DEF l
    <2> QED
      BY <2>1, <2>2 DEF ShapeInv
  <1>5. OrderInv'
    BY <1>1, <1>3 DEF OrderInv
  <1>6. \A c \in Conns : InFlight(c)' <=> InFlight(c)
    BY <1>1 DEF InFlight
  <1>7. FlightInv'
    <2>1. \A c \in Conns : conn'[c].open = "new" => ~InFlight(c)'
      BY <1>2, <1>6, ZenonT(60) DEF FlightInv, Moved
    <2> QED
      BY <1>1, <2>1 DEF FlightInv
  <1>8. SessionInv'
    <2> SUFFICES ASSUME NEW c \in Conns
                 PROVE  SessionOf(c)'
      BY Zenon DEF SessionInv
    <2>1. SessionOf(c) /\ Moved(conn[c], conn'[c])
      BY <1>2, Zenon DEF SessionInv
    <2>2. Script(c)' = Script(c) /\ NextPending(c)' = NextPending(c)
      BY <1>1, <2>1, Zenon DEF Moved, NextPending, Script
    <2>3. \A r : AuthNow(r)' <=> AuthNow(r)
      BY <1>1 DEF AuthNow
    <2> QED
      BY <1>1, <1>6, <2>1, <2>2, <2>3, Zenon DEF SessionOf, Moved
  <1> QED
    BY <1>1, <1>4, <1>5, <1>7, <1>8

(* A step that changes one connection has to keep the conditions on that   *)
(* connection and those on the queue and the workers.                      *)
LEMMA OneChanges ==
  ASSUME ListenerInv, NEW c \in Conns, Changes(c)
  PROVE  /\ DOMAIN conn' = Conns
         /\ \A d \in Conns : d # c => conn'[d] = conn[d]
         /\ srv' = srv /\ client' = client
         /\ \A d \in Conns : Script(d)' = Script(d)
         /\ \A r : AuthNow(r)' <=> AuthNow(r)
         /\ (/\ ShapeOf(conn'[c]) /\ OrderOf(conn'[c], srv.proto) /\ SessionOf(c)'
             /\ FlightInv'
             /\ \A d \in Conns : d # c => (InFlight(d)' <=> InFlight(d)))
            => ListenerInv'
  <1> USE DEF ListenerInv
  <1>1. DOMAIN conn' = Conns /\ \A d \in Conns : d # c => conn'[d] = conn[d]
    BY DEF Changes, ShapeInv
  <1>2. srv' = srv /\ client' = client
    BY DEF Changes
  <1>3. /\ \A d \in Conns : Script(d)' = Script(d)
        /\ \A r : AuthNow(r)' <=> AuthNow(r)
    BY <1>2 DEF Script, AuthNow
  <1>4. ASSUME ShapeOf(conn'[c]), OrderOf(conn'[c], srv.proto), SessionOf(c)', FlightInv',
               \A d \in Conns : d # c => (InFlight(d)' <=> InFlight(d))
        PROVE  ListenerInv'
    <2>1. Static'
      BY <1>2 DEF Static
    <2>2. ShapeInv'
      BY <1>1, <1>4 DEF ShapeInv
    <2>3. OrderInv'
      BY <1>1, <1>2, <1>4, Zenon DEF OrderInv
    <2>4. ASSUME NEW d \in Conns, d # c
          PROVE  SessionOf(d)'
      <3>1. SessionOf(d) /\ conn'[d] = conn[d] /\ NextPending(d)' = NextPending(d)
        BY <1>1, <1>3, <2>4, Zenon DEF SessionInv, NextPending
      <3> QED
        BY <1>2, <1>3, <1>4, <2>4, <3>1, Zenon DEF SessionOf
    <2>5. SessionInv'
      BY <1>4, <2>4, Zenon DEF SessionInv
    <2> QED
      BY <1>4, <2>1, <2>2, <2>3, <2>5
  <1> QED
    BY <1>1, <1>2, <1>3, <1>4, Zenon

(* The queue and the workers as they were: connection c is not new, or it  *)
(* is new and was so before.                                               *)
LEMMA FlightKept ==
  ASSUME ListenerInv, NEW c \in Conns, Changes(c), UNCHANGED <<jobs, worker>>,
         conn'[c].open # "new"
  PROVE  FlightInv' /\ \A d \in Conns : InFlight(d)' <=> InFlight(d)
  <1>1. \A d \in Conns : InFlight(d)' <=> InFlight(d)
    BY Zenon DEF InFlight
  <1>2. \A d \in Conns : conn'[d].open = "new" => ~InFlight(d)'
    BY <1>1, OneChanges, Zenon DEF ListenerInv, FlightInv
  <1>3. FlightInv
    BY DEF ListenerInv
  <1> QED
    BY <1>1, <1>2, <1>3, Zenon DEF FlightInv

(* A connection is accepted.                                               *)
LEMMA OpensInv ==
  ASSUME ListenerInv, NEW c \in Conns, Opens(c)
  PROVE  ListenerInv'
  <1>1. Changes(c) /\ UNCHANGED <<jobs, worker>> /\ conn[c].open = "new"
    BY DEF Opens
  <1>2. LET l == conn'[c] IN
        /\ DOMAIN l = Fields /\ l.open = "open" /\ l.pending = FALSE /\ l.over = FALSE
        /\ l.fails = 0 /\ l.answers = <<>> /\ l.wire = <<>> /\ l.out = <<>>
        /\ l.wake = "none"
    BY DEF Opens, New, Fields
  <1>3. FlightInv' /\ \A d \in Conns : InFlight(d)' <=> InFlight(d)
    BY <1>1, <1>2, FlightKept
  <1>4. ShapeOf(conn'[c]) /\ OrderOf(conn'[c], srv.proto)
    BY <1>2, EmptyConn, Zenon
  <1>5. ~InFlight(c)'
    BY <1>1, <1>3, Zenon DEF ListenerInv, FlightInv
  <1>6. SessionOf(c)'
    <2>1. 0 < MaxAuthFails /\ ~(Len(<<>>) > 0) /\ "none" \notin {"ok", "fail"}
      BY Configured
    <2> QED
      BY <1>2, <1>5, <2>1, Zenon DEF SessionOf
  <1> QED
    BY <1>1, <1>3, <1>4, <1>6, OneChanges, Zenon

(* A connection is closed: nothing is left of it.                          *)
LEMMA ClosesInv ==
  ASSUME ListenerInv, NEW c \in Conns, Closes(c)
  PROVE  ListenerInv'
  <1>1. Changes(c) /\ UNCHANGED <<jobs, worker>> /\ conn'[c] = Closed
    BY DEF Closes
  <1>2. Closed.open = "closed"
    BY DEF Closed, New
  <1>3. FlightInv' /\ \A d \in Conns : InFlight(d)' <=> InFlight(d)
    BY <1>1, <1>2, FlightKept, Zenon
  <1>4. ShapeOf(conn'[c]) /\ OrderOf(conn'[c], srv.proto)
    BY <1>1, EmptyConn, Zenon
  <1>5. SessionOf(c)'
    BY <1>1, <1>2 DEF SessionOf
  <1> QED
    BY <1>1, <1>3, <1>4, <1>5, OneChanges, Zenon

(* An outcome that Session permits counts attempts.                        *)
LEMMA OutcomeFails ==
  ASSUME NEW r, NEW u, NEW f \in Nat, NEW o \in S!Outcome(r, u, f)
  PROVE  o.fails \in Nat
  <1>1. o.fails \in {f, f + 1}
    BY SMTT(60) DEF S!Outcome
  <1> QED
    BY <1>1

(* A connection whose next request was answered, and written or put into   *)
(* the batch in its place, is as the invariant says.                       *)
LEMMA AnsweredInv ==
  ASSUME ListenerInv, NEW c \in Conns, Changes(c), UNCHANGED <<jobs, worker>>,
         conn[c].open = "open", ~InFlight(c), NEW reply \in Replies,
         Answered(conn[c], conn'[c], NextPending(c), reply),
         conn'[c].wake \notin {"ok", "fail"},
         conn'[c].wire \in Seq(Nat), conn'[c].out \in Seq(Nat),
         OrderOf(conn'[c], srv.proto)
  PROVE  ListenerInv'
  <1> DEFINE k == conn[c] l == conn'[c]
  <1>1. /\ k.answers \in Seq(Replies) /\ k.fails \in Nat
    BY Zenon DEF ListenerInv, ShapeInv, ShapeOf
  <1>2. /\ l.answers = Append(k.answers, reply) /\ l.open = "open" /\ l.pending = FALSE
        /\ l.over \in BOOLEAN /\ DOMAIN l = Fields
        /\ ~l.over => l.fails < MaxAuthFails /\ NextPending(c) # "quit"
    BY Zenon DEF Answered, Changes
  <1>3. l.fails \in Nat
    <2> DEFINE o == [reply |-> reply, user |-> l.user, fails |-> l.fails]
    <2>1. o \in S!Outcome(NextPending(c), k.user, k.fails)
      BY Zenon DEF Answered
    <2>2. o.fails = l.fails
      BY Zenon
    <2> HIDE DEF o
    <2> QED
      BY <1>1, <2>1, <2>2, OutcomeFails, Zenon
  <1>4. l.answers \in Seq(Replies) /\ Len(l.answers) = Len(k.answers) + 1
    BY <1>1, <1>2
  <1> HIDE DEF l
  <1>5. ShapeOf(l)
    <2>1. l.pending \in BOOLEAN /\ l.open # "new" /\ l.open # "closed"
      BY <1>2, ZenonT(60)
    <2>2. l.wire \in Seq(Nat) /\ l.out \in Seq(Nat)
      BY Zenon DEF l
    <2> QED
      BY <1>2, <1>3, <1>4, <2>1, <2>2, Zenon DEF ShapeOf
  <1>6. FlightInv' /\ \A d \in Conns : InFlight(d)' <=> InFlight(d)
    BY <1>2, FlightKept DEF l
  <1>7. SessionOf(c)'
    <2>1. Script(c)' = Script(c)
      BY OneChanges, Zenon
    <2>2. Script(c)'[Len(l.answers)] = NextPending(c)
      BY <1>4, <2>1, Zenon DEF NextPending
    <2>3. ~InFlight(c)'
      BY <1>6, Zenon
    <2>4. l.wake \notin {"ok", "fail"}
      BY DEF l
    <2> QED
      BY <1>2, <2>2, <2>3, <2>4, Zenon DEF SessionOf, l
  <1>8. OrderOf(l, srv.proto)
    BY Zenon DEF l
  <1> QED
    BY <1>5, <1>6, <1>7, <1>8, OneChanges, Zenon DEF l

(* A request is answered on the event loop.                                *)
LEMMA ServesInv ==
  ASSUME ListenerInv, NEW c \in Conns, Serves(c)
  PROVE  ListenerInv'
  <1> DEFINE k == conn[c] l == conn'[c] n == Len(conn[c].answers) + 1
  <1>1. /\ Changes(c) /\ UNCHANGED <<jobs, worker>> /\ k.open = "open" /\ ~k.pending
        /\ k.pc = "frames" /\ l.wake = k.wake
    BY ZenonT(60) DEF Serves, Serving
  <1>2. PICK reply \in Replies : Answered(k, l, NextReq(c), reply)
    BY Zenon DEF Serves
  <1>3. NextReq(c) = NextPending(c)
    BY <1>1, SMTT(60) DEF NextReq, NextPending, Taken, ListenerInv, ShapeInv, ShapeOf
  <1>4. ~InFlight(c) /\ l.wake \notin {"ok", "fail"}
    BY <1>1, Zenon DEF ListenerInv, SessionInv, SessionOf
  <1>5. /\ k.answers \in Seq(Replies) /\ k.wire \in Seq(Nat) /\ k.out \in Seq(Nat)
        /\ Numbered(k.answers, k.wire, k.out)
        /\ k.out # <<>> => srv.proto = "resp"
    BY DEF ListenerInv, ShapeInv, ShapeOf, OrderInv, OrderOf
  <1>6. l.answers = Append(k.answers, reply)
    BY <1>2, Zenon DEF Answered
  <1>7. /\ Append(k.out, n) \in Seq(Nat) /\ Numbered(l.answers, k.wire, Append(k.out, n))
        /\ Append(k.answers, reply) \in Seq(Replies)
        /\ k.out = <<>> => /\ Append(k.wire, n) \in Seq(Nat)
                           /\ Numbered(l.answers, Append(k.wire, n), k.out)
    BY <1>5, <1>6, ReplyOrder, SMTT(60)
  <1>8. l.wire \in Seq(Nat) /\ l.out \in Seq(Nat) /\ OrderOf(l, srv.proto)
    <2>1. CASE l.wire = Append(k.wire, n) /\ l.out = k.out /\ srv.proto = "binary"
      <3>1. k.out = <<>>
        BY <1>5, <2>1
      <3> QED
        BY <1>5, <1>7, <2>1, <3>1, Zenon DEF OrderOf
    <2>2. CASE l.wire = k.wire /\ l.out = Append(k.out, n) /\ l.pc = "frames"
               /\ srv.proto = "resp"
      BY <1>5, <1>7, <2>2, Zenon DEF OrderOf
    <2>3. CASE l.wire = k.wire \o Append(k.out, n) /\ l.out = <<>>
      <3>1. /\ k.wire \o Append(k.out, n) \in Seq(Nat)
            /\ Numbered(l.answers, k.wire \o Append(k.out, n), <<>>)
        BY <1>5, <1>6, <1>7, FlushOrder, Zenon
      <3>2. <<>> \in Seq(Nat)
        OBVIOUS
      <3> QED
        BY <2>3, <3>1, <3>2, Zenon DEF OrderOf
    <2> QED
      BY <2>1, <2>2, <2>3, Zenon DEF Serves
  <1> QED
    BY <1>1, <1>2, <1>3, <1>4, <1>8, AnsweredInv, Zenon

(* The callback of a worker's Wake answers an AUTH.                        *)
LEMMA RepliedInv ==
  ASSUME ListenerInv, NEW c \in Conns, Replied(c)
  PROVE  ListenerInv'
  <1> DEFINE k == conn[c] l == conn'[c] n == Len(conn[c].answers) + 1
  <1>1. /\ Changes(c) /\ UNCHANGED <<jobs, worker>> /\ k.open = "open"
        /\ k.wake \in {"ok", "fail"} /\ k.pc = "idle" /\ l.wake = "resume"
        /\ l.wire = Append(k.wire, n) /\ l.out = k.out
    BY Zenon DEF Replied
  <1>2. PICK reply \in Replies : Answered(k, l, NextPending(c), reply)
    BY Zenon DEF Replied
  <1>3. SessionOf(c)
    BY Zenon DEF ListenerInv, SessionInv
  <1>4. ~InFlight(c) /\ l.wake \notin {"ok", "fail"}
    <2>1. ~InFlight(c)
      BY <1>1, <1>3, Zenon DEF SessionOf
    <2>2. l.wake \notin {"ok", "fail"}
      BY <1>1, Zenon
    <2> QED
      BY <2>1, <2>2
  <1>5. /\ k.answers \in Seq(Replies) /\ k.wire \in Seq(Nat) /\ k.out \in Seq(Nat)
        /\ Numbered(k.answers, k.wire, k.out) /\ k.out = <<>>
    BY <1>1, Zenon DEF ListenerInv, ShapeInv, ShapeOf, OrderInv, OrderOf
  <1>6. l.answers = Append(k.answers, reply)
    BY <1>2, Zenon DEF Answered
  <1>7. /\ Append(k.wire, n) \in Seq(Nat)
        /\ Numbered(l.answers, Append(k.wire, n), k.out)
    BY <1>5, <1>6, ReplyOrder, Zenon
  <1>8. l.wire \in Seq(Nat) /\ l.out \in Seq(Nat) /\ OrderOf(l, srv.proto)
    BY <1>1, <1>5, <1>7, Zenon DEF OrderOf
  <1> QED
    BY <1>1, <1>2, <1>4, <1>8, AnsweredInv, ZenonT(60)

(* An AUTH goes to the workers: its connection was not with them before.   *)
LEMMA DispatchesInv ==
  ASSUME ListenerInv, NEW c \in Conns, Dispatches(c)
  PROVE  ListenerInv'
  <1> DEFINE k == conn[c] l == conn'[c]
  <1>1. /\ Changes(c) /\ worker' = worker /\ jobs' = Append(jobs, c)
        /\ k.open = "open" /\ ~k.pending /\ ~k.over /\ HasNext(c)
        /\ NextReq(c) \in Auths /\ ~AuthNow(NextReq(c))
        /\ l = [k EXCEPT !.pending = TRUE]
    BY DEF Dispatches, Serving
  <1>2. ShapeOf(k) /\ OrderOf(k, srv.proto) /\ SessionOf(c) /\ FlightInv
    BY DEF ListenerInv, ShapeInv, OrderInv, SessionInv
  <1>3. /\ DOMAIN l = Fields /\ l.pending = TRUE
        /\ l.open = k.open /\ l.over = k.over /\ l.fails = k.fails /\ l.wake = k.wake
        /\ l.answers = k.answers /\ l.wire = k.wire /\ l.out = k.out /\ l.pc = k.pc
    BY <1>1, <1>2 DEF ShapeOf, Fields
  <1> HIDE DEF l
  <1>4. ShapeOf(l) /\ OrderOf(l, srv.proto)
    <2>1. l.pending \in BOOLEAN /\ l.open # "new" /\ l.open # "closed"
      BY <1>1, <1>3
    <2> QED
      BY <1>2, <1>3, <2>1, Zenon DEF ShapeOf, OrderOf
  <1>5. ~InFlight(c) /\ k.wake \notin {"ok", "fail"}
    BY <1>1, <1>2 DEF SessionOf
  <1>6. Taken(c) = Len(k.answers) /\ NextReq(c) = NextPending(c)
    BY <1>1, <1>2 DEF NextReq, NextPending, Taken, ShapeOf
  <1>7. /\ DOMAIN conn' = Conns
        /\ \A d \in Conns : d # c => conn'[d] = conn[d]
        /\ Script(c)' = Script(c)
    BY <1>1, OneChanges
  <1>8. /\ jobs \in Seq(Conns) /\ jobs' \in Seq(Conns) /\ Len(jobs') = Len(jobs) + 1
        /\ \A i \in 1 .. Len(jobs) : jobs'[i] = jobs[i] /\ jobs[i] # c
        /\ jobs'[Len(jobs) + 1] = c
        /\ \A w \in Workers : worker[w] # c
    BY <1>1, <1>2, <1>5 DEF FlightInv, InFlight
  <1>9. \A d \in Conns : d # c => (InFlight(d)' <=> InFlight(d))
    BY <1>1, <1>8 DEF InFlight
  <1>10. FlightInv'
    <2>1. \A i, j \in 1 .. Len(jobs') : jobs'[i] = jobs'[j] => i = j
      BY <1>2, <1>8, SMTT(30) DEF FlightInv
    <2>2. \A i \in 1 .. Len(jobs'), w \in Workers : jobs'[i] # worker'[w]
      BY <1>1, <1>2, <1>8 DEF FlightInv
    <2>3. \A d \in Conns : conn'[d].open = "new" => ~InFlight(d)'
      BY <1>1, <1>2, <1>3, <1>7, <1>9, Zenon DEF FlightInv, l
    <2> QED
      BY <1>1, <1>2, <1>8, <2>1, <2>2, <2>3, ZenonT(30) DEF FlightInv
  <1>11. SessionOf(c)'
    <2>1. NextPending(c)' = NextReq(c)
      BY <1>3, <1>6, <1>7, Zenon DEF NextPending, l
    <2>2. Len(l.answers) < Len(Script(c)')
      BY <1>1, <1>3, <1>6, <1>7 DEF HasNext
    <2>3. (AuthNow(NextPending(c)))' <=> AuthNow(NextReq(c))
      BY <1>1, <2>1 DEF AuthNow, Changes
    <2>4. /\ ~l.over => /\ l.fails < MaxAuthFails
                        /\ Len(l.answers) > 0 => Script(c)'[Len(l.answers)] # "quit"
      BY <1>1, <1>2, <1>3, <1>7 DEF SessionOf
    <2>5. ~l.over /\ l.pending = TRUE /\ l.wake \notin {"ok", "fail"}
      BY <1>1, <1>3, <1>5
    <2>6. NextPending(c)' \in Auths /\ ~AuthNow(NextPending(c))'
      BY <1>1, <2>1, <2>3, Zenon
    <2> QED
      BY <2>2, <2>4, <2>5, <2>6, ZenonT(60) DEF SessionOf, l
  <1> QED
    BY <1>1, <1>4, <1>9, <1>10, <1>11, OneChanges, SMTT(30) DEF l

(* A worker takes the oldest job: it is in flight as before.               *)
LEMMA TakesInv ==
  ASSUME ListenerInv, NEW v \in Workers, WorkerTakes(v)
  PROVE  ListenerInv'
  <1>1. /\ worker[v] = None /\ jobs # <<>>
        /\ worker' = [worker EXCEPT ![v] = Head(jobs)] /\ jobs' = Tail(jobs)
        /\ srv' = srv /\ client' = client /\ conn' = conn
    BY DEF WorkerTakes
  <1>2. FlightInv
    BY DEF ListenerInv
  <1>3. /\ jobs \in Seq(Conns) /\ jobs' \in Seq(Conns) /\ Len(jobs) > 0
        /\ Len(jobs') = Len(jobs) - 1 /\ Head(jobs) = jobs[1] /\ jobs[1] \in Conns
        /\ \A i \in 1 .. Len(jobs') : jobs'[i] = jobs[i + 1]
    BY <1>1, <1>2 DEF FlightInv
  <1>4. /\ worker' \in [Workers -> Conns \union {None}] /\ worker'[v] = jobs[1]
        /\ \A w \in Workers : w # v => worker'[w] = worker[w]
    BY <1>1, <1>2, <1>3, ZenonT(30) DEF FlightInv
  <1>5. ASSUME NEW d \in Conns
        PROVE  InFlight(d)' <=> InFlight(d)
    <2>1. ASSUME NEW i \in 1 .. Len(jobs), jobs[i] = d
          PROVE  InFlight(d)'
      <3>1. CASE i = 1
        BY <1>4, <2>1, <3>1 DEF InFlight
      <3>2. CASE i # 1
        <4>1. i - 1 \in 1 .. Len(jobs') /\ jobs'[i - 1] = d
          BY <1>3, <2>1, <3>2, SMTT(60)
        <4> QED
          BY <4>1 DEF InFlight
      <3> QED
        BY <3>1, <3>2, SMTT(30)
    <2>2. ASSUME NEW w \in Workers, worker[w] = d
          PROVE  InFlight(d)'
      BY <1>1, <1>4, <2>2, Configured, Zenon DEF InFlight
    <2>3. ASSUME NEW i \in 1 .. Len(jobs'), jobs'[i] = d
          PROVE  InFlight(d)
      <3>1. i + 1 \in 1 .. Len(jobs) /\ jobs[i + 1] = d
        BY <1>3, <2>3
      <3> QED
        BY <3>1 DEF InFlight
    <2>4. ASSUME NEW w \in Workers, worker'[w] = d
          PROVE  InFlight(d)
      <3>1. CASE w = v
        <4>1. 1 \in 1 .. Len(jobs) /\ jobs[1] = d
          BY <1>3, <1>4, <2>4, <3>1
        <4> QED
          BY <4>1 DEF InFlight
      <3>2. CASE w # v
        BY <1>4, <2>4, <3>2, Zenon DEF InFlight
      <3> QED
        BY <3>1, <3>2
    <2> QED
      BY <2>1, <2>2, <2>3, <2>4 DEF InFlight
  <1>6. FlightInv'
    <2>1. ASSUME NEW i \in 1 .. Len(jobs'), NEW j \in 1 .. Len(jobs'), jobs'[i] = jobs'[j]
          PROVE  i = j
      <3>1. i + 1 \in 1 .. Len(jobs) /\ j + 1 \in 1 .. Len(jobs) /\ jobs[i + 1] = jobs[j + 1]
        BY <1>3, <2>1, SMTT(60)
      <3>2. i + 1 = j + 1
        BY <1>2, <3>1, Zenon DEF FlightInv
      <3> QED
        BY <3>2
    <2>2. 1 \in 1 .. Len(jobs) /\ \A w \in Workers : jobs[1] # worker[w]
      BY <1>2, <1>3 DEF FlightInv
    <2>3. \A u, w \in Workers : worker'[u] = worker'[w] => u = w \/ worker'[u] = None
      BY <1>2, <1>4, <2>2, SMTT(60) DEF FlightInv
    <2>4. ASSUME NEW i \in 1 .. Len(jobs'), NEW w \in Workers
          PROVE  jobs'[i] # worker'[w]
      <3>1. i + 1 \in 1 .. Len(jobs) /\ i + 1 # 1 /\ jobs'[i] = jobs[i + 1]
        BY <1>3
      <3>2. jobs[i + 1] # jobs[1] /\ jobs[i + 1] # worker[w]
        BY <1>2, <2>2, <3>1, ZenonT(30) DEF FlightInv
      <3> QED
        BY <1>4, <3>1, <3>2, SMTT(30)
    <2>5. \A d \in Conns : conn'[d].open = "new" => ~InFlight(d)'
      BY <1>1, <1>2, <1>5 DEF FlightInv
    <2> QED
      BY <1>3, <1>4, <2>1, <2>3, <2>4, <2>5 DEF FlightInv
  <1>7. SessionInv'
    <2> SUFFICES ASSUME NEW d \in Conns
                 PROVE  SessionOf(d)'
      BY DEF SessionInv
    <2>1. SessionOf(d)
      BY DEF ListenerInv, SessionInv
    <2> QED
      BY <1>1, <1>5, <2>1, Zenon DEF SessionOf, Script, NextPending, AuthNow
  <1> QED
    BY <1>1, <1>6, <1>7, Zenon DEF ListenerInv, Static, ShapeInv, OrderInv

(* A worker has verified an AUTH: its connection is with no one else, and  *)
(* the Wake carries what Session demands.                                  *)
LEMMA VerifiesInv ==
  ASSUME ListenerInv, NEW v \in Workers, WorkerVerifies(v)
  PROVE  ListenerInv'
  <1>0. PICK c \in Conns : c = worker[v]
    BY DEF ListenerInv, FlightInv, WorkerVerifies
  <1>1. /\ worker' = [worker EXCEPT ![v] = None] /\ jobs' = jobs
        /\ srv' = srv /\ client' = client
    BY DEF WorkerVerifies
  <1>2. FlightInv /\ ShapeInv
    BY DEF ListenerInv
  <1>3. InFlight(c)
    BY <1>0, SMTT(30) DEF InFlight
  <1>4. /\ worker' \in [Workers -> Conns \union {None}] /\ worker'[v] = None
        /\ \A w \in Workers : w # v => worker'[w] = worker[w] /\ worker[w] # c
    BY <1>0, <1>1, <1>2, Configured, SMTT(30) DEF FlightInv
  <1>5. ~InFlight(c)'
    BY <1>0, <1>1, <1>2, <1>4, Configured, SMTT(30) DEF FlightInv, InFlight
  <1>6. ASSUME NEW d \in Conns, d # c
        PROVE  InFlight(d)' <=> InFlight(d)
    <2>1. \A w \in Workers : worker'[w] = d <=> worker[w] = d
      BY <1>0, <1>4, <1>6, Configured, ZenonT(30)
    <2> QED
      BY <1>1, <2>1 DEF InFlight
  <1>7. ASSUME \A d \in Conns : conn'[d].open = conn[d].open
        PROVE  FlightInv'
    <2>1. \A d \in Conns : conn'[d].open = "new" => ~InFlight(d)'
      BY <1>2, <1>5, <1>6, <1>7, Zenon DEF FlightInv
    <2>2. \A u, w \in Workers : worker'[u] = worker'[w] => u = w \/ worker'[u] = None
      BY <1>2, <1>4, ZenonT(30) DEF FlightInv
    <2>3. \A i \in 1 .. Len(jobs'), w \in Workers : jobs'[i] # worker'[w]
      <3>1. \A i \in 1 .. Len(jobs) : jobs[i] \in Conns
        BY <1>2, SMTT(60) DEF FlightInv
      <3> QED
        BY <1>1, <1>2, <1>4, <3>1, Configured, SMTT(30) DEF FlightInv
    <2> QED
      BY <1>1, <1>2, <1>4, <2>1, <2>2, <2>3, SMTT(60) DEF FlightInv
  <1>8. CASE conn[c].open # "open"
    <2>1. conn' = conn
      BY <1>0, <1>8 DEF WorkerVerifies
    <2>2. FlightInv'
      BY <1>7, <2>1
    <2>3. ASSUME NEW d \in Conns
          PROVE  SessionOf(d)'
      <3>1. CASE d = c
        BY <1>8, <2>1, <3>1, Zenon DEF SessionOf
      <3>2. CASE d # c
        <4>1. SessionOf(d)
          BY Zenon DEF ListenerInv, SessionInv
        <4> QED
          BY <1>1, <1>6, <2>1, <3>2, <4>1, Zenon DEF SessionOf, Script, NextPending, AuthNow
      <3> QED
        BY <3>1, <3>2, Zenon
    <2> QED
      BY <1>1, <2>1, <2>2, <2>3, Zenon DEF ListenerInv, Static, ShapeInv, OrderInv, SessionInv
  <1>9. CASE conn[c].open = "open"
    <2> DEFINE k == conn[c] l == conn'[c]
               x == IF Accepts(srv.mode, NextPending(c)) THEN "ok" ELSE "fail"
    <2>1. conn' = [conn EXCEPT ![c].wake = x]
      BY <1>0, <1>9 DEF WorkerVerifies
    <2>x. x \in {"ok", "fail"} /\ (x = "ok" <=> Accepts(srv.mode, NextPending(c)))
      OBVIOUS
    <2> HIDE DEF x
    <2>2. ShapeOf(k) /\ OrderOf(k, srv.proto) /\ SessionOf(c)
      BY DEF ListenerInv, ShapeInv, OrderInv, SessionInv
    <2>3. /\ DOMAIN l = Fields /\ l.wake = x
          /\ l.open = k.open /\ l.over = k.over /\ l.fails = k.fails /\ l.pending = k.pending
          /\ l.answers = k.answers /\ l.wire = k.wire /\ l.out = k.out /\ l.pc = k.pc
      BY <1>2, <2>1, <2>2 DEF ShapeOf, ShapeInv, Fields
    <2>4. conn' = [conn EXCEPT ![c] = conn'[c]] /\ \A d \in Conns : d # c => conn'[d] = conn[d]
      BY <1>2, <2>1, Zenon DEF ShapeInv
    <2>5. Changes(c)
      BY <1>1, <2>3, <2>4 DEF Changes
    <2>6. ShapeOf(l) /\ OrderOf(l, srv.proto)
      <3>1. l.open # "new" /\ l.open # "closed"
        BY <1>9, <2>3, Zenon
      <3> QED
        BY <2>2, <2>3, <3>1, ZenonT(60) DEF ShapeOf, OrderOf
    <2>7. FlightInv'
      BY <1>7, <2>3, <2>4
    <2>8. SessionOf(c)'
      <3>1. Script(c)' = Script(c) /\ NextPending(c)' = NextPending(c)
        BY <1>1, <2>3, Zenon DEF Script, NextPending
      <3>2. AuthNow(NextPending(c))' <=> AuthNow(NextPending(c))
        BY <1>1, <3>1, Zenon DEF AuthNow
      <3> QED
        BY <1>1, <1>3, <1>5, <1>9, <2>x, <2>2, <2>3, <3>1, <3>2, ZenonT(60) DEF SessionOf
    <2> QED
      BY <1>6, <2>5, <2>6, <2>7, <2>8, OneChanges, SMTT(30)
  <1> QED
    BY <1>8, <1>9

(* Every step keeps the invariant.                                         *)
LEMMA NextInv ==
  ASSUME NoBinaryPing, ListenerInv, [Next]_vars
  PROVE  ListenerInv'
  BY StepKinds, QuietInv, OpensInv, ClosesInv, ServesInv, DispatchesInv, RepliedInv,
     TakesInv, VerifiesInv, SMTT(30) DEF Kinds

(* One listener, in every state it reaches, is as ListenerInv says: its    *)
(* connections, its batches, its queue of AUTHs and its workers fit        *)
(* together, whatever the clients of the two listeners send and however    *)
(* the event loops, the workers, the sweeper and Shutdown interleave.      *)
THEOREM ListenerInvariant ==
  ASSUME NoBinaryPing
  PROVE  Spec => []ListenerInv
  <1>1. Init => ListenerInv
    BY InitInv
  <1>2. ListenerInv /\ [Next]_vars => ListenerInv'
    BY NextInv
  <1> QED
    BY <1>1, <1>2, PTL DEF Spec

(* The n-th reply that is written answers the n-th request (InOrder), for  *)
(* batches, AUTHs answered by the worker's callback and STARTTLS.          *)
THEOREM RepliesInOrder ==
  ASSUME NoBinaryPing
  PROVE  Spec => []InOrder
  <1>1. ASSUME ListenerInv, NEW c \in Conns
        PROVE  conn[c].wire = [i \in DOMAIN conn[c].wire |-> i]
    <2> DEFINE w == conn[c].wire
    <2>1. w \in Seq(Nat) /\ \A i \in 1 .. Len(w) : w[i] = i
      BY <1>1, Zenon DEF ListenerInv, ShapeInv, ShapeOf, OrderInv, OrderOf, Numbered
    <2> HIDE DEF w
    <2>2. w = [i \in 1 .. Len(w) |-> w[i]] /\ DOMAIN w = 1 .. Len(w)
      BY <2>1
    <2>3. w = [i \in DOMAIN w |-> i]
      BY <2>1, <2>2
    <2> QED
      BY <2>3 DEF w
  <1>2. ListenerInv => InOrder
    BY <1>1 DEF InOrder
  <1> QED
    BY <1>2, ListenerInvariant, PTL

-------------------------------------------------------------------------------
(* The channel of the jobs *)

Stages == {"no", "waiting", "stopping", "stopped", "expired"}

\* The channel is closed once the loops have ended, or Shutdown has given up.
EngineInv ==
  /\ engine \in [up : BOOLEAN, shutdown : Stages, closed : BOOLEAN,
                 expired : BOOLEAN, panicked : BOOLEAN]
  /\ engine.closed => engine.shutdown \in {"stopped", "expired"}
  /\ engine.shutdown = "expired" => engine.expired
  /\ engine.panicked => engine.expired

(* The steps of the connections, the sweeper and the workers leave the     *)
(* engine alone; only the dispatch of an AUTH may panic, and it does so    *)
(* while the loops run.                                                    *)
LEMMA PanicKind ==
  ASSUME [Next]_vars
  PROVE  \/ engine' = engine
         \/ LoopsRun /\ engine.closed /\ engine' = [engine EXCEPT !.panicked = TRUE]
         \/ OnBoot \/ ShutdownStarts \/ StopEngine \/ StopReturns \/ ShutdownExpires \/ CloseJobs
  <1>1. ASSUME NEW c \in Conns, Close(c) \/ \E k : Becomes(c, k) \/ Continue(c, k)
        PROVE  engine' = engine
    BY <1>1 DEF Close, Becomes, Continue
  <1>2. ASSUME NEW c \in Conns, HandleFrame(c)
        PROVE  \/ engine' = engine
               \/ LoopsRun /\ engine.closed /\ engine' = [engine EXCEPT !.panicked = TRUE]
    <2>1. CASE HandleAuthNow(c)
      BY <1>1, <2>1 DEF HandleAuthNow
    <2>2. CASE HandleAuthDispatch(c)
      <3>1. CASE engine.closed
        BY <1>2, <2>2, <3>1 DEF HandleFrame, InFrames, HandleAuthDispatch
      <3>2. CASE ~engine.closed
        BY <1>1, <2>2, <3>2 DEF HandleAuthDispatch
      <3> QED
        BY <3>1, <3>2
    <2>3. CASE HandlePing(c) \/ HandleData(c) \/ HandleQuit(c)
      BY <1>1, <2>3 DEF HandlePing, HandleData, HandleQuit
    <2>4. CASE HandleSTARTTLS(c)
      <3>1. CASE Upgrades(conn[c])
        BY <2>4, <3>1 DEF HandleSTARTTLS
      <3>2. CASE ~Upgrades(conn[c])
        BY <1>1, <2>4, <3>2 DEF HandleSTARTTLS
      <3> QED
        BY <3>1, <3>2
    <2> QED
      BY <1>2, <2>1, <2>2, <2>3, <2>4 DEF HandleFrame
  <1>3. ASSUME NEW c \in Conns, OnTraffic(c)
        PROVE  engine' = engine
    <2>1. PICK k : \/ OnPlaintext(c, k) \/ Close(c)
                   \/ Becomes(c, [k EXCEPT !.pc = "read"])
      BY <1>3, Zenon DEF OnTraffic
    <2>2. CASE OnPlaintext(c, k)
      BY <1>1, <2>2 DEF OnPlaintext
    <2> QED
      BY <1>1, <2>1, <2>2
  <1>4. ASSUME NEW c \in Conns,
               \/ ReadHandshake(c) \/ ReadCells(c) \/ BadFrame(c) \/ EndFrames(c)
               \/ AuthReply(c) \/ OnClose(c)
        PROVE  engine' = engine
    <2>1. CASE ReadHandshake(c)
      BY <1>1, <2>1 DEF ReadHandshake
    <2>2. CASE ReadCells(c)
      BY <1>1, <2>2 DEF ReadCells, vars
    <2>3. CASE BadFrame(c) \/ OnClose(c)
      BY <1>1, <2>3 DEF BadFrame, OnClose
    <2>4. CASE EndFrames(c)
      BY <1>1, <2>4 DEF EndFrames
    <2>5. CASE AuthReply(c)
      BY <1>1, <2>5 DEF AuthReply
    <2> QED
      BY <1>4, <2>1, <2>2, <2>3, <2>4, <2>5
  <1>5. ASSUME NEW c \in Conns, Send(c) \/ Shake(c) \/ OnOpen(c) \/ DeadlinePasses(c)
        PROVE  engine' = engine
    BY <1>5, Zenon DEF Send, Shake, OnOpen, DeadlinePasses
  <1>6. ASSUME Sweep \/ \E w \in Workers : WorkerTakes(w) \/ WorkerVerifies(w)
        PROVE  engine' = engine
    BY <1>6, Zenon DEF Sweep, WorkerTakes, WorkerVerifies
  <1>7. CASE UNCHANGED vars
    BY <1>7 DEF vars
  <1> QED
    BY <1>2, <1>3, <1>4, <1>5, <1>6, <1>7, Zenon DEF Next, SystemStep

(* A send on the closed authJobs, which panics, needs a Shutdown whose     *)
(* context has expired (SendsOnOpenChannel): as long as Stop returns by    *)
(* itself the channel is closed after the last event loop has ended.       *)
THEOREM NoSendAfterClose == Spec => []SendsOnOpenChannel
  <1>1. Init => EngineInv
    BY DEF Init, EngineInv, Stages
  <1>2. ASSUME EngineInv, [Next]_vars
        PROVE  EngineInv'
    <2>1. CASE engine' = engine
      BY <1>2, <2>1 DEF EngineInv
    <2>2. CASE LoopsRun /\ engine.closed /\ engine' = [engine EXCEPT !.panicked = TRUE]
      <3>1. engine.shutdown = "expired" /\ engine.expired
        BY <1>2, <2>2 DEF LoopsRun, EngineInv
      <3> QED
        BY <1>2, <2>2, <3>1, Zenon DEF EngineInv
    <2>3. CASE OnBoot \/ ShutdownStarts \/ StopEngine \/ StopReturns
      BY <1>2, <2>3, Zenon DEF OnBoot, ShutdownStarts, StopEngine, StopReturns, EngineInv, Stages
    <2>4. CASE ShutdownExpires \/ CloseJobs
      BY <1>2, <2>4, ZenonT(60) DEF ShutdownExpires, CloseJobs, EngineInv, Stages
    <2> QED
      BY <1>2, <2>1, <2>2, <2>3, <2>4, PanicKind, Zenon
  <1>3. EngineInv => SendsOnOpenChannel
    BY Zenon DEF EngineInv, SendsOnOpenChannel
  <1> QED
    BY <1>1, <1>2, <1>3, PTL DEF Spec

-------------------------------------------------------------------------------
(* A listener implements Session *)

\* What Session sees of the listener.
OpenNow == {c \in Conns : conn[c].open = "open"}
UserNow == [c \in Conns |-> conn[c].user]
FailsNow == [c \in Conns |-> conn[c].fails]
AnswersNow == [c \in Conns |-> conn[c].answers]
Scripts == [c \in Conns |-> Script(c)]

(* Session sees the change of one connection, and neither the listener's   *)
(* configuration nor the scripts change.                                   *)
LEMMA SessionSees ==
  ASSUME ListenerInv, NEW c \in Conns, Changes(c)
  PROVE  /\ srv' = srv /\ Scripts' = Scripts
         /\ UserNow' = [UserNow EXCEPT ![c] = conn'[c].user]
         /\ FailsNow' = [FailsNow EXCEPT ![c] = conn'[c].fails]
         /\ AnswersNow' = [AnswersNow EXCEPT ![c] = conn'[c].answers]
         /\ conn'[c].open = "open" => OpenNow' = OpenNow \union {c}
         /\ conn'[c].open # "open" => OpenNow' = OpenNow \ {c}
         /\ conn'[c].open = conn[c].open => OpenNow' = OpenNow
  <1>1. /\ srv' = srv /\ \A d \in Conns : Script(d)' = Script(d)
        /\ \A d \in Conns : d # c => conn'[d] = conn[d]
    BY OneChanges, Zenon
  <1>2. Scripts' = Scripts
    BY <1>1 DEF Scripts
  <1>3. /\ UserNow' = [UserNow EXCEPT ![c] = conn'[c].user]
        /\ FailsNow' = [FailsNow EXCEPT ![c] = conn'[c].fails]
        /\ AnswersNow' = [AnswersNow EXCEPT ![c] = conn'[c].answers]
    BY <1>1, Zenon DEF UserNow, FailsNow, AnswersNow
  <1>4. /\ conn'[c].open = "open" => OpenNow' = OpenNow \union {c}
        /\ conn'[c].open # "open" => OpenNow' = OpenNow \ {c}
        /\ conn'[c].open = conn[c].open => OpenNow' = OpenNow
    BY <1>1, Zenon DEF OpenNow
  <1> QED
    BY <1>1, <1>2, <1>3, <1>4, Zenon

(* Steps that Session does not see.                                        *)
LEMMA SessionStutters ==
  ASSUME ListenerInv, srv' = srv, client' = client,
         \A c \in Conns : /\ conn'[c].open = conn[c].open /\ conn'[c].user = conn[c].user
                          /\ conn'[c].fails = conn[c].fails
                          /\ conn'[c].answers = conn[c].answers
  PROVE  UNCHANGED S!sessionVars
  <1>1. UNCHANGED <<OpenNow, UserNow, FailsNow, AnswersNow, Scripts>>
    BY DEF OpenNow, UserNow, FailsNow, AnswersNow, Scripts, Script
  <1> QED
    BY <1>1, Zenon DEF S!sessionVars, OpenNow, UserNow, FailsNow, AnswersNow, Scripts

(* OnOpen accepts.                                                         *)
LEMMA OpensAccepts ==
  ASSUME ListenerInv, NEW c \in Conns, Opens(c)
  PROVE  S!Accept(c)
  <1>1. Changes(c) /\ conn[c] = New /\ conn[c].open = "new"
    BY DEF Opens, ListenerInv, ShapeInv, ShapeOf
  <1>2. /\ New.answers = <<>> /\ New.fails = 0
        /\ conn'[c].open = "open" /\ conn'[c].user = StartUser
        /\ conn'[c].fails = 0 /\ conn'[c].answers = <<>>
    BY Zenon DEF Opens, New
  <1>3. /\ srv' = srv /\ Scripts' = Scripts
        /\ UserNow' = [UserNow EXCEPT ![c] = StartUser]
        /\ FailsNow' = [FailsNow EXCEPT ![c] = 0]
        /\ AnswersNow' = [AnswersNow EXCEPT ![c] = <<>>]
        /\ OpenNow' = OpenNow \union {c}
    BY <1>1, <1>2, SessionSees, Zenon
  <1>4. FailsNow' = FailsNow /\ AnswersNow' = AnswersNow
    BY <1>1, <1>2, <1>3, Zenon DEF FailsNow, AnswersNow
  <1>5. c \notin OpenNow /\ AnswersNow[c] = <<>>
    BY <1>1, <1>2 DEF OpenNow, AnswersNow
  <1>6. /\ StartUser \in {NoUser, "default"}
        /\ srv.mode = "open" => StartUser = "default"
        /\ srv.mode \in {"password", "rbac"} => StartUser = NoUser
    BY DEF StartUser
  <1>7. S!NoUser = NoUser
    BY Zenon DEF S!NoUser, NoUser
  <1> QED
    BY <1>3, <1>4, <1>5, <1>6, <1>7, Zenon
    DEF S!Accept, OpenNow, UserNow, FailsNow, AnswersNow, Scripts

(* Closing a connection is a HangUp.                                       *)
LEMMA ClosesHangsUp ==
  ASSUME ListenerInv, NEW c \in Conns, Closes(c)
  PROVE  S!HangUp(c)
  <1>1. Changes(c) /\ conn[c].open = "open" /\ conn'[c] = Closed
    BY DEF Closes
  <1>2. /\ Closed.open = "closed" /\ Closed.user = NoUser /\ Closed.fails = 0
        /\ Closed.answers = <<>>
    BY Zenon DEF Closed, New
  <1>3. /\ srv' = srv /\ Scripts' = Scripts
        /\ UserNow' = [UserNow EXCEPT ![c] = NoUser]
        /\ FailsNow' = [FailsNow EXCEPT ![c] = 0]
        /\ AnswersNow' = [AnswersNow EXCEPT ![c] = <<>>]
        /\ OpenNow' = OpenNow \ {c}
    BY <1>1, <1>2, SessionSees, Zenon
  <1>4. c \in OpenNow /\ S!NoUser = NoUser
    BY <1>1 DEF OpenNow, S!NoUser, NoUser
  <1> QED
    BY <1>3, <1>4, Zenon DEF S!HangUp, OpenNow, UserNow, FailsNow, AnswersNow, Scripts

(* A request that is answered, on the event loop or by the callback of an  *)
(* AUTH, is served as Session permits.                                     *)
LEMMA AnsweredServes ==
  ASSUME ListenerInv, NEW c \in Conns, Changes(c), conn[c].open = "open", ~conn[c].over,
         Len(conn[c].answers) < Len(Script(c)), NEW reply,
         Answered(conn[c], conn'[c], NextPending(c), reply)
  PROVE  S!Serve(c)
  <1> DEFINE k == conn[c] l == conn'[c]
             i == Len(k.answers) + 1
             o == [reply |-> reply, user |-> l.user, fails |-> l.fails]
  <1>1. /\ srv' = srv /\ Scripts' = Scripts
        /\ UserNow' = [UserNow EXCEPT ![c] = l.user]
        /\ FailsNow' = [FailsNow EXCEPT ![c] = l.fails]
        /\ AnswersNow' = [AnswersNow EXCEPT ![c] = Append(k.answers, reply)]
        /\ OpenNow' = OpenNow
    BY SessionSees, Zenon DEF Answered
  <1>2. /\ c \in OpenNow /\ UserNow[c] = k.user /\ FailsNow[c] = k.fails
        /\ AnswersNow[c] = k.answers /\ Scripts[c] = Script(c)
    BY Zenon DEF OpenNow, UserNow, FailsNow, AnswersNow, Scripts
  <1>3. /\ k.answers \in Seq(Replies) /\ Script(c) \in Seq(RequestKinds)
    BY StaticFacts, Zenon DEF ListenerInv, ShapeInv, ShapeOf
  <1>4. Len(k.answers) \in Nat /\ i \in DOMAIN Script(c) /\ i - 1 = Len(k.answers)
    BY <1>3
  <1>5. k.fails < MaxAuthFails /\ (i > 1 => Script(c)[i - 1] # "quit")
    <2>1. SessionOf(c)
      BY DEF ListenerInv, SessionInv
    <2>2. i > 1 => Len(k.answers) > 0
      BY <1>4, SMTT(60)
    <2> QED
      BY <1>4, <2>1, <2>2, ZenonT(60) DEF SessionOf
  <1>6. o \in S!Outcome(Script(c)[i], k.user, k.fails)
    BY Zenon DEF Answered, NextPending
  <1>7. o.reply = reply /\ o.user = l.user /\ o.fails = l.fails
    OBVIOUS
  <1> HIDE DEF o
  <1>8. \E x \in S!Outcome(Scripts[c][Len(AnswersNow[c]) + 1], UserNow[c], FailsNow[c]) :
          /\ AnswersNow' = [AnswersNow EXCEPT ![c] = Append(AnswersNow[c], x.reply)]
          /\ UserNow' = [UserNow EXCEPT ![c] = x.user]
          /\ FailsNow' = [FailsNow EXCEPT ![c] = x.fails]
    BY <1>1, <1>2, <1>6, <1>7, Zenon
  <1> QED
    BY <1>1, <1>2, <1>4, <1>5, <1>8, ZenonT(60)
    DEF S!Serve, OpenNow, UserNow, FailsNow, AnswersNow, Scripts

(* Every step is one of Session's, or Session does not see it.             *)
LEMMA SessionStep ==
  ASSUME NoBinaryPing, ListenerInv, [Next]_vars
  PROVE  [S!SessionNext]_(S!sessionVars)
  <1>1. CASE Quiet
    BY <1>1, SessionStutters, ZenonT(60) DEF Quiet, Moved
  <1>2. ASSUME NEW c \in Conns, Opens(c)
        PROVE  S!SessionNext
    BY <1>2, OpensAccepts DEF S!SessionNext
  <1>3. ASSUME NEW c \in Conns, Closes(c)
        PROVE  S!SessionNext
    BY <1>3, ClosesHangsUp DEF S!SessionNext
  <1>4. ASSUME NEW c \in Conns, Serves(c)
        PROVE  S!SessionNext
    <2>1. /\ Changes(c) /\ conn[c].open = "open" /\ ~conn[c].over /\ ~conn[c].pending
          /\ HasNext(c)
      BY <1>4, ZenonT(60) DEF Serves, Serving
    <2>2. Taken(c) = Len(conn[c].answers)
      BY <2>1 DEF Taken, ListenerInv, ShapeInv, ShapeOf
    <2>3. NextReq(c) = NextPending(c) /\ Len(conn[c].answers) < Len(Script(c))
      BY <2>1, <2>2 DEF NextReq, NextPending, HasNext
    <2>4. PICK reply : Answered(conn[c], conn'[c], NextPending(c), reply)
      BY <1>4, <2>3, ZenonT(60) DEF Serves
    <2> QED
      BY <2>1, <2>3, <2>4, AnsweredServes, Zenon DEF S!SessionNext
  <1>5. ASSUME NEW c \in Conns, Replied(c)
        PROVE  S!SessionNext
    <2>1. Changes(c) /\ conn[c].open = "open" /\ conn[c].wake \in {"ok", "fail"}
      BY <1>5, Zenon DEF Replied
    <2>2. ~conn[c].over /\ Len(conn[c].answers) < Len(Script(c))
      <3>1. SessionOf(c)
        BY Zenon DEF ListenerInv, SessionInv
      <3> QED
        BY <2>1, <3>1, Zenon DEF SessionOf
    <2>3. PICK reply : Answered(conn[c], conn'[c], NextPending(c), reply)
      BY <1>5, Zenon DEF Replied
    <2> QED
      BY <2>1, <2>2, <2>3, AnsweredServes, Zenon DEF S!SessionNext
  <1>6. ASSUME NEW c \in Conns, Dispatches(c)
        PROVE  UNCHANGED S!sessionVars
    <2>1. Changes(c) /\ conn'[c] = [conn[c] EXCEPT !.pending = TRUE]
      BY <1>6 DEF Dispatches
    <2>2. srv' = srv /\ client' = client /\ \A d \in Conns : d # c => conn'[d] = conn[d]
      BY <2>1, OneChanges
    <2>3. /\ conn'[c].open = conn[c].open /\ conn'[c].user = conn[c].user
          /\ conn'[c].fails = conn[c].fails /\ conn'[c].answers = conn[c].answers
      BY <2>1 DEF ListenerInv, ShapeInv, ShapeOf, Fields
    <2> QED
      BY <2>2, <2>3, SessionStutters
  <1>7. ASSUME NEW w \in Workers, WorkerTakes(w)
        PROVE  UNCHANGED S!sessionVars
    BY <1>7, SessionStutters, SMTT(30) DEF WorkerTakes
  <1>8. ASSUME NEW w \in Workers, WorkerVerifies(w)
        PROVE  UNCHANGED S!sessionVars
    <2>1. srv' = srv /\ client' = client
      BY <1>8 DEF WorkerVerifies
    <2>2. conn' = conn \/ \E x : conn' = [conn EXCEPT ![worker[w]].wake = x]
      BY <1>8, Zenon DEF WorkerVerifies
    <2>3. ASSUME NEW d \in Conns
          PROVE  /\ conn'[d].open = conn[d].open /\ conn'[d].user = conn[d].user
                 /\ conn'[d].fails = conn[d].fails /\ conn'[d].answers = conn[d].answers
      <3>1. DOMAIN conn = Conns /\ DOMAIN conn[d] = Fields
        BY DEF ListenerInv, ShapeInv, ShapeOf
      <3>2. CASE conn' = conn
        BY <3>2, SMTT(30)
      <3>3. ASSUME NEW x, conn' = [conn EXCEPT ![worker[w]].wake = x]
            PROVE  /\ conn'[d].open = conn[d].open /\ conn'[d].user = conn[d].user
                   /\ conn'[d].fails = conn[d].fails /\ conn'[d].answers = conn[d].answers
        <4>1. CASE d = worker[w]
          <5>1. conn'[d] = [conn[d] EXCEPT !.wake = x]
            BY <3>1, <3>3, <4>1
          <5> QED
            BY <3>1, <5>1 DEF Fields
        <4>2. CASE d # worker[w]
          BY <3>1, <3>3, <4>2
        <4> QED
          BY <4>1, <4>2
      <3> QED
        BY <2>2, <3>2, <3>3, Zenon
    <2> QED
      BY <2>1, <2>3, SessionStutters
  <1> QED
    BY <1>1, <1>2, <1>3, <1>4, <1>5, <1>6, <1>7, <1>8, StepKinds, Zenon DEF Kinds

(* A listener implements Session (IsSession): requests are answered one    *)
(* by one in their order, each with the identity the last successful AUTH  *)
(* gave, and none after QUIT or the last attempt, although AUTHs are       *)
(* verified on other goroutines.                                           *)
THEOREM ListenerIsSession ==
  ASSUME NoBinaryPing
  PROVE  Spec => IsSession
  <1>1. Init => S!SessionInit
    <2> SUFFICES ASSUME Init
                 PROVE  S!SessionInit
      OBVIOUS
    <2>1. srv.mode \in Configurations
      BY InitInv, StaticFacts, Zenon DEF ListenerInv
    <2>2. /\ OpenNow = {} /\ UserNow = [c \in Conns |-> NoUser]
          /\ FailsNow = [c \in Conns |-> 0] /\ AnswersNow = [c \in Conns |-> <<>>]
      BY Zenon DEF Init, New, OpenNow, UserNow, FailsNow, AnswersNow
    <2>3. S!NoUser = NoUser /\ S!Configurations = Configurations
      BY DEF S!NoUser, NoUser, S!Configurations, Configurations
    <2> QED
      BY <2>1, <2>2, <2>3 DEF S!SessionInit, OpenNow, UserNow, FailsNow, AnswersNow
  <1>2. ListenerInv /\ [Next]_vars => [S!SessionNext]_(S!sessionVars)
    BY SessionStep
  <1> QED
    BY <1>1, <1>2, ListenerInvariant, PTL DEF Spec, IsSession, S!SessionSpec

==============================================================================

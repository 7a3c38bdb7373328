-------------------------------- MODULE Tls --------------------------------
(***************************************************************************)
(* TLS as the listeners use it: the reloader publishes Configs; a          *)
(* connection is accepted with the Config that is current then and keeps   *)
(* it.  One client connects several times, one connection after the other, *)
(* and offers the session of the last one again.  TCP keeps the order of   *)
(* the records and cuts them anywhere: a handler runs on any non-empty     *)
(* part of what has been sent.                                             *)
(***************************************************************************)
EXTENDS Reloader, TlsServer, TlsClient

CONSTANTS
    Plans,      \* what an instance has: see Init
    MaxData     \* requests per connection

VARIABLES
    plan,       \* connections and changes of files that are left, the client, the
                \* days the clock has, and the sets of CAs to change to (none: files
                \* change one by one)
    now,
    keys,       \* autoSessionTicketKeys of every Config
    srv, cli,   \* the two ends of the connection, or None
    wire,       \* records on their way to the server
    cache,      \* the client's session cache
    conns       \* connections so far

connVars == <<now, keys, srv, cli, wire, cache, conns>>
tlsVars == <<reloaderVars, connVars, plan>>

Init ==
    \E p \in Plans :
        /\ plan = p
        /\ ReloaderInit(p.files)
        /\ now = 0 /\ keys = <<>>
        /\ srv = None /\ cli = None /\ wire = <<>> /\ cache = None /\ conns = 0

----------------------------------------------------------------------------

\* Somebody replaces the files, one by one or all at once.
Rotate ==
    /\ plan.changes > 0
    /\ plan' = [plan EXCEPT !.changes = @ - 1]
    /\ \/ plan.swaps = {} /\ \E v \in Versions \cup {0} : WriteCert(v) \/ WriteKey(v)
       \/ plan.swaps = {} /\ \E cas \in SUBSET CAs : WriteCA(cas)
       \/ \E v \in Versions, cas \in plan.swaps : SwapData(v, cas)
    /\ UNCHANGED connVars

Reload == ReloaderStep /\ UNCHANGED <<connVars, plan>>

Tick ==
    /\ plan.conns > 0 \/ srv # None
    /\ now < plan.days
    /\ now' = now + 1
    /\ UNCHANGED <<reloaderVars, plan, keys, srv, cli, wire, cache, conns>>

\* The certificate of a Config, as a client sees it.
ServerCert(version) == Certificate(version, "server", plan.days)

\* OnOpen: the Config is loaded from the store once.
Dial ==
    LET c == ClientHandshake(plan.kind, conns + 1, cache, now)
    IN /\ srv = None /\ store # None /\ plan.conns > 0
       /\ plan' = [plan EXCEPT !.conns = @ - 1]
       /\ conns' = conns + 1
       /\ srv' = Server([store EXCEPT !.cert = ServerCert(@)], conns + 1)
       /\ cli' = [c EXCEPT !.sent = <<>>]
       /\ wire' = c.sent
       /\ cache' = c.cache
       /\ UNCHANGED <<reloaderVars, now, keys>>

\* The event loop has read the first n records, and calls OnTraffic.
OnTraffic(n) ==
    LET id == srv.config.id
        fed == [srv EXCEPT !.raw = @ \o SubSeq(wire, 1, n), !.now = now,
                           !.keys = IF id \in DOMAIN keys THEN keys[id] ELSE <<>>]
    IN /\ srv.open
       /\ wire' = SubSeq(wire, n + 1, Len(wire))
       /\ \E s \in {OnTrafficTLS(fed)} :
            /\ srv' = [s EXCEPT !.sent = <<>>]
            /\ keys' = (id :> s.keys) @@ keys
            /\ cli' = IF cli.open THEN [cli EXCEPT !.raw = @ \o s.sent] ELSE cli
       /\ UNCHANGED <<reloaderVars, plan, now, cache, conns>>

\* What the client writes is on its way; a closed server does not get it.
ClientDoes(c) ==
    /\ cli' = [c EXCEPT !.sent = <<>>]
    /\ wire' = wire \o c.sent
    /\ cache' = c.cache
    /\ UNCHANGED <<reloaderVars, plan, now, keys, srv, conns>>

ClientReads == cli.raw # <<>> /\ ClientDoes(ClientRead([cli EXCEPT !.now = now]))

ClientWrites ==
    /\ cli.complete /\ Len(cli.data) < MaxData
    /\ ClientDoes([Write(cli, conns) EXCEPT !.data = Append(@, conns)])

\* A client may update its keys, and ask the server for the same.
ClientUpdatesKeys ==
    /\ cli.complete /\ cli.out.secret.gen = 0
    /\ \E requested \in BOOLEAN :
         ClientDoes([WriteHandshakeRecord(cli, KeyUpdate(requested))
                        EXCEPT !.out = SetTrafficSecret(@, NextTrafficSecret(@.secret))])

ClientCloses == ClientDoes([Close(cli) EXCEPT !.open = FALSE])

ClientStep ==
    /\ cli.open
    /\ ClientReads \/ ClientWrites \/ ClientUpdatesKeys \/ ClientCloses

\* The end of the stream, after everything in it, at either end.
ServerSeesEnd ==
    /\ ~cli.open /\ wire = <<>> /\ srv.open
    /\ srv' = [srv EXCEPT !.open = FALSE]
    /\ UNCHANGED <<reloaderVars, plan, now, keys, cli, wire, cache, conns>>

ClientSeesEnd ==
    /\ ~srv.open /\ cli.raw = <<>> /\ cli.open
    /\ cli' = [cli EXCEPT !.open = FALSE]
    /\ UNCHANGED <<reloaderVars, plan, now, keys, srv, wire, cache, conns>>

Forget ==
    /\ ~srv.open /\ ~cli.open
    /\ srv' = None /\ cli' = None /\ wire' = <<>>
    /\ UNCHANGED <<reloaderVars, plan, now, keys, cache, conns>>

Connected ==
    /\ srv # None
    /\ \/ \E n \in 1..Len(wire) : OnTraffic(n)
       \/ ClientStep \/ ServerSeesEnd \/ ClientSeesEnd \/ Forget

\* Connections see of a reload its one step that changes the store: it is enough
\* to let them act before the files change and after the reload.
Next == Rotate \/ Reload \/ (Quiet /\ (Tick \/ Dial \/ Connected))

Spec == Init /\ [][Next]_tlsVars

----------------------------------------------------------------------------

(* A connection whose Config demands client certificates completes the     *)
(* handshake only for a client that holds a certificate of one of that     *)
(* Config's CAs, which had not expired when the handshake began.  This is  *)
(* about resumption above all: a session is resumed without a look at the  *)
(* CAs, and a rotation that withdraws a CA must end its sessions too.      *)
PeerAuthentic ==
    srv # None /\ srv.complete /\ RequiresClientCert(srv.config) =>
        /\ srv.peer # None /\ srv.peer = cli.kind.cert
        /\ srv.peer.ca \in srv.config.cas
        /\ srv.hs.at <= srv.peer.notAfter

IsPrefixOf(s, t) == Len(s) <= Len(t) /\ SubSeq(t, 1, Len(s)) = s

(* When the server has completed the handshake so has the client; both     *)
(* have the same transcript, agree on whether a session was resumed and on *)
(* the secret of the next one; the client has seen the certificate of the  *)
(* server's Config, now or when the session began; and the server reads    *)
(* what the client wrote, in order, across key updates.                    *)
Agreement ==
    srv # None /\ srv.complete =>
        /\ cli.complete /\ cli.hs.transcript = srv.hs.transcript
        /\ cli.hs.usingPSK = srv.hs.usingPSK
        /\ cli.resumptionSecret = srv.resumptionSecret
        /\ cli.peer = srv.config.cert
        /\ IsPrefixOf(srv.got, cli.data)

ServerFailed == srv.handshakeErr # Ok \/ srv.err \notin {Ok, EOF}
ClientFailed == cli.err \notin {Ok, NotEnough, EOF}

\* The client has no certificate that its connection's Config accepts.
Unwelcome ==
    /\ RequiresClientCert(srv.config)
    /\ cli.kind.cert # None => \/ cli.kind.cert.ca \notin srv.config.cas
                               \/ now > cli.kind.cert.notAfter

(* A connection of a client that the Config accepts fails in two ways      *)
(* only: after a HelloRetryRequest, and if the handler ran after the       *)
(* client's Certificate had arrived and before the rest of its flight had. *)
(* Any other cut of the stream, a session that cannot be resumed, new      *)
(* Configs, new ticket keys and key updates do no harm.                    *)
OnlyKnownFailures ==
    srv # None /\ (ServerFailed \/ ClientFailed) => srv.hrr \/ srv.lost \/ Unwelcome
=============================================================================

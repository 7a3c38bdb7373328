----------------------------- MODULE TlsClient -----------------------------
(***************************************************************************)
(* The client's side of the TLS 1.3 handshake, on a blocking connection: a *)
(* step is what follows one successful readHandshake, up to the next one.  *)
(*                                                                         *)
(* Besides those of TlsConn a client's connection has these fields:        *)
(*   kind     the client's Config: its certificate (None: it has none),    *)
(*            whether it sends it unasked-for (GetClientCertificate), the  *)
(*            group of its first key share, its groups, whether it has a   *)
(*            session cache, the roots it trusts, and the number of        *)
(*            records its Certificate takes                                *)
(*   phase    the message it waits for                                     *)
(*   hs       clientHandshakeStateTLS13                                    *)
(*   data     application data written, replies read                       *)
(***************************************************************************)
EXTENDS TlsConn, TLC

\* Whether a cached session may be offered; one that has expired is forgotten.
SessionValid(c) ==
    /\ c.now <= c.cache.session.peer.notAfter
    /\ c.now <= c.cache.useBy

LoadSession(c) ==
    CASE ~c.kind.tickets \/ c.cache = None -> c
      [] OTHER -> IF ~SessionValid(c) THEN [c EXCEPT !.cache = None]
                  ELSE IF ~c.cache.session.verified THEN c
                  ELSE [c EXCEPT !.hs.session = c.cache.session]

\* The ClientHello with its binder, computed over what precedes and the rest of it.
MakeClientHello(c, group, before) ==
    LET ticket == IF c.hs.session = None THEN None ELSE c.cache.ticket
        bare == ClientHello(c.conn, KeyShare(group, "client", c.conn), c.kind.groups,
                            c.kind.tickets, ticket, None)
    IN IF ticket = None THEN bare
       ELSE [bare EXCEPT !.mac = FinishedHash(BinderKey(c.hs.session.secret),
                                              TranscriptMsg(before, bare))]

ClientHandshake(kind, conn, cache, now) ==
    LET c == LoadSession(
                [NewConn(TRUE) EXCEPT !.cache = cache, !.now = now]
                @@ [kind |-> kind, conn |-> conn, phase |-> "ServerHello", open |-> TRUE,
                    hrr |-> FALSE, data |-> <<>>, replies |-> 0,
                    hs |-> [hello |-> None, session |-> None, usingPSK |-> FALSE,
                            certReq |-> None, transcript |-> <<>>, sentDummyCCS |-> FALSE,
                            secret |-> None, trafficSecret |-> None]])
        hello == MakeClientHello(c, kind.group, <<>>)
    IN WriteHandshakeRecord([c EXCEPT !.hs.hello = hello, !.hs.transcript = TranscriptMsg(<<>>, hello)],
                            hello)

HearServer(c, msg) == [c EXCEPT !.hs.transcript = TranscriptMsg(@, msg)]

SendClient(c, msg, n) == HearServer(WriteFragments(c, msg, 1, n), msg)

SendClientCCS(c) ==
    IF c.hs.sentDummyCCS THEN c
    ELSE [WriteChangeCipherRecord(c) EXCEPT !.hs.sentDummyCCS = TRUE]

ProcessHelloRetryRequest(c) ==
    LET r == HearServer([SendClientCCS(c) EXCEPT !.hs.transcript = MessageHash(@), !.hrr = TRUE],
                        c.msg)
        hello == MakeClientHello(c, c.msg.group, r.hs.transcript)
    IN IF c.msg.group \notin c.kind.groups \/ c.msg.group = c.hs.hello.share.group
       THEN Alert(SendClientCCS(c), "illegal_parameter")
       ELSE [SendClient(r, hello, 1) EXCEPT !.hs.hello = hello, !.phase = "second ServerHello"]

\* processServerHello and establishHandshakeKeys.
ProcessServerHello(c) ==
    LET hello  == c.hs.hello
        r      == SendClientCCS(HearServer(c, c.msg))
        psk    == IF c.msg.psk THEN c.hs.session.secret ELSE None
        secret == Extract(hello.share, c.msg.share, psk)
        Traffic(label) == DeriveSecret(secret, label, r.hs.transcript)
        keyed  == [r EXCEPT !.hs.secret = secret, !.hs.usingPSK = c.msg.psk,
                            !.out = SetTrafficSecret(@, Traffic("c hs traffic")),
                            !.in = SetTrafficSecret(@, Traffic("s hs traffic")),
                            !.phase = "EncryptedExtensions"]
    IN IF c.msg.share.group # hello.share.group \/ (c.msg.psk /\ hello.ticket = None)
       THEN Alert(c, "illegal_parameter")
       ELSE IF c.msg.psk THEN [keyed EXCEPT !.peer = c.hs.session.peer,
                                            !.verified = c.hs.session.verified]
       ELSE keyed

ReadServerHello(c) ==
    LET r == [c EXCEPT !.haveVers = TRUE]
    IN CASE c.msg.t = "ServerHello" -> ProcessServerHello(r)
         [] c.msg.t = "HelloRetryRequest" /\ c.phase = "ServerHello" -> ProcessHelloRetryRequest(r)
         [] OTHER -> Alert(r, "unexpected_message")

ReadServerParameters(c) ==
    [HearServer(c, c.msg) EXCEPT !.phase = IF c.hs.usingPSK THEN "Finished" ELSE "Certificate"]

ReadServerCertificate(c) ==
    IF c.msg.t = "CertificateRequest" /\ c.hs.certReq = None
    THEN [HearServer(c, c.msg) EXCEPT !.hs.certReq = c.msg]
    ELSE IF c.msg.t # "Certificate" THEN Alert(c, "unexpected_message")
    ELSE IF c.msg.cert.ca \notin c.kind.roots \/ c.now > c.msg.cert.notAfter
    THEN Alert(c, "bad_certificate")
    ELSE [HearServer(c, c.msg) EXCEPT !.peer = c.msg.cert, !.verified = TRUE,
                                      !.phase = "CertificateVerify"]

ReadServerCertificateVerify(c) ==
    IF c.msg.mac # Sign(c.peer, "server", c.hs.transcript) THEN Alert(c, "decrypt_error")
    ELSE [HearServer(c, c.msg) EXCEPT !.phase = "Finished"]

\* Without a callback only a certificate of a CA the server names is sent.
GetClientCertificate(c) ==
    IF c.kind.cert = None THEN None
    ELSE IF c.kind.insists \/ c.kind.cert.ca \in c.hs.certReq.cas THEN c.kind.cert
    ELSE None

SendClientCertificate(c) ==
    LET cert == GetClientCertificate(c)
        w == SendClient(c, CertificateMsg(cert), c.kind.records)
    IN IF c.hs.certReq = None THEN c
       ELSE IF cert = None THEN SendClient(c, CertificateMsg(None), 1)
       ELSE SendClient(w, CertificateVerify(Sign(cert, "client", w.hs.transcript)), 1)

SendClientFinished(c) ==
    LET w == SendClient(c, Finished(FinishedHash(c.out.secret, c.hs.transcript)), 1)
    IN [w EXCEPT !.out = SetTrafficSecret(@, c.hs.trafficSecret),
                 !.resumptionSecret = DeriveSecret(c.hs.secret, "res master", w.hs.transcript),
                 !.complete = TRUE, !.phase = "done"]

\* The end of the handshake: readServerFinished and the client's flight.
ReadServerFinished(c) ==
    LET h == HearServer(c, c.msg)
        Traffic(label) == DeriveSecret(c.hs.secret, label, h.hs.transcript)
        r == [h EXCEPT !.hs.trafficSecret = Traffic("c ap traffic"),
                       !.in = SetTrafficSecret(@, Traffic("s ap traffic"))]
    IN IF c.msg.mac # FinishedHash(c.in.secret, c.hs.transcript) THEN Alert(c, "decrypt_error")
       ELSE SendClientFinished(SendClientCertificate(r))

Awaited(phase) ==
    CASE phase \in {"ServerHello", "second ServerHello"} -> {"ServerHello", "HelloRetryRequest"}
      [] phase = "Certificate" -> {"CertificateRequest", "Certificate"}
      [] OTHER                 -> {phase}

OnMessage(c) ==
    CASE c.phase \in {"ServerHello", "second ServerHello"} -> ReadServerHello(c)
      [] c.phase = "EncryptedExtensions" -> ReadServerParameters(c)
      [] c.phase = "Certificate"         -> ReadServerCertificate(c)
      [] c.phase = "CertificateVerify"   -> ReadServerCertificateVerify(c)
      [] c.phase = "Finished"            -> ReadServerFinished(c)

\* Read what has arrived: a step of the handshake, or application data.  Only an
\* error in place of the first ServerHello makes the client forget the session it
\* has offered.
ClientRead(c) ==
    LET c0 == [c EXCEPT !.err = Ok, !.sent = <<>>]
        r == IF c.complete THEN ReadInput(c0) ELSE Then(Expect(c0, Awaited(c.phase)), OnMessage)
        forgets == /\ c.phase = "ServerHello" /\ c.hs.session # None
                   /\ ReadHandshake(c0).err # Ok
    IN CASE r.err = NotEnough -> r
         [] r.err # Ok -> [r EXCEPT !.open = FALSE, !.cache = IF forgets THEN None ELSE @]
         [] OTHER -> [r EXCEPT !.replies = @ + Len(r.input), !.input = <<>>]
=============================================================================

----------------------------- MODULE TlsServer -----------------------------
(***************************************************************************)
(* The server's side of the TLS 1.3 handshake on an event loop.  What Go's *)
(* blocking handshake was one function for is here a chain of two calls:   *)
(* up to the server's flight, and from the client's.  A call that runs out *)
(* of input (NotEnough) stays in the chain and is run again from its start *)
(* when there is more; what it had read by then is gone.                   *)
(*                                                                         *)
(* Besides those of TlsConn a server's connection has these fields:        *)
(*   config     the Config it was accepted with: id, cert, and the CAs of  *)
(*              clients (None: no client certificates)                     *)
(*   keys       the ticket keys of that Config                             *)
(*   call       the head of the chain, chainErr its error                  *)
(*   handshakeErr, hs   as in Conn and serverHandshakeStateTLS13, with the *)
(*              time of the ClientHello                                    *)
(*   got        application data the front end has been given              *)
(*   hrr, lost  history: a HelloRetryRequest was sent; a call ran out of   *)
(*              input after it had taken a client's Certificate            *)
(***************************************************************************)
EXTENDS TlsConn, TLC

NewState(hello, now) ==
    [hello |-> hello, at |-> now, usingPSK |-> FALSE, psk |-> None, sentDummyCCS |-> FALSE,
     share |-> None, secret |-> None, trafficSecret |-> None, transcript |-> <<>>,
     clientFinished |-> None]

Server(config, conn) ==
    [config |-> config, conn |-> conn, keys |-> <<>>, call |-> "hello", chainErr |-> Ok,
     handshakeErr |-> Ok, hs |-> None, got |-> <<>>, hrr |-> FALSE, lost |-> FALSE,
     open |-> TRUE] @@ NewConn(FALSE)

\* Write a handshake message and add it to the transcript.
Send(s, msg) ==
    [WriteHandshakeRecord(s, msg) EXCEPT !.hs.transcript = TranscriptMsg(@, msg)]

Hear(s, msg) == [s EXCEPT !.hs.transcript = TranscriptMsg(@, msg)]

SendDummyChangeCipherSpec(s) ==
    IF s.hs.sentDummyCCS THEN s
    ELSE [WriteChangeCipherRecord(s) EXCEPT !.hs.sentDummyCCS = TRUE]

----------------------------------------------------------------------------
(* The first call                                                          *)

ReadClientHello(s) ==
    Then(Expect(s, {"ClientHello"}), LAMBDA r :
        [r EXCEPT !.keys = TicketKeys(r.config.id, @, r.now),
                  !.haveVers = TRUE,
                  !.hs = NewState(r.msg, r.now)])

\* What a client may not change in its second ClientHello.
IllegalClientHelloChange(hello, first) ==
    \/ hello.random # first.random
    \/ hello.groups # first.groups
    \/ hello.pskModes # first.pskModes

DoHelloRetryRequest(s, group) ==
    LET h == [s EXCEPT !.hs.transcript = MessageHash(TranscriptMsg(@, s.hs.hello)), !.hrr = TRUE]
        w == SendDummyChangeCipherSpec(Send(h, HelloRetryRequest(group)))
        Second(r) ==
            IF r.msg.share.group # group \/ IllegalClientHelloChange(r.msg, r.hs.hello)
            THEN Alert(r, "illegal_parameter")
            ELSE [r EXCEPT !.hs.hello = r.msg]
    IN Then(Expect(w, {"ClientHello"}), Second)

ProcessClientHello(s) ==
    LET group == SelectedGroup(s.hs.hello)
        Exchange(r) == [r EXCEPT !.hs.share = KeyShare(group, "server", r.conn)]
    IN IF group = None THEN Alert(s, "handshake_failure")
       ELSE IF s.hs.hello.share.group = group THEN Exchange(s)
       ELSE Then(DoHelloRetryRequest(s, group), Exchange)

\* The session of a ticket is used only by a Config whose demands on client
\* certificates it meets.
Resumable(s, session) ==
    /\ session # None
    /\ s.now - session.createdAt <= MaxSessionTicketLifetime
    /\ RequiresClientCert(s.config) => session.peer # None
    /\ session.peer # None => /\ RequiresClientCert(s.config)
                              /\ s.now <= session.peer.notAfter
                              /\ session.verified

CheckForResumption(s) ==
    LET hello   == s.hs.hello
        session == DecryptTicket(hello.ticket, s.keys)
        binder  == FinishedHash(BinderKey(session.secret), TranscriptMsg(s.hs.transcript, hello))
    IN IF ~hello.pskModes \/ hello.ticket = None THEN s
       ELSE IF ~Resumable(s, session) THEN s
       ELSE IF hello.mac # binder THEN Alert(s, "decrypt_error")
       ELSE [s EXCEPT !.peer = session.peer, !.verified = session.verified,
                      !.hs.psk = session.secret, !.hs.usingPSK = TRUE]

SendServerParameters(s) ==
    LET w == SendDummyChangeCipherSpec(
                 Send(Hear(s, s.hs.hello), ServerHello(s.hs.share, s.hs.usingPSK)))
        secret == Extract(s.hs.hello.share, s.hs.share, s.hs.psk)
        Traffic(label) == DeriveSecret(secret, label, w.hs.transcript)
    IN Send([w EXCEPT !.hs.secret = secret,
                      !.in = SetTrafficSecret(@, Traffic("c hs traffic")),
                      !.out = SetTrafficSecret(@, Traffic("s hs traffic"))],
            EncryptedExtensions)

RequestClientCert(s) == RequiresClientCert(s.config) /\ ~s.hs.usingPSK

SendServerCertificate(s) ==
    LET r == IF RequestClientCert(s) THEN Send(s, CertificateRequest(s.config.cas)) ELSE s
        w == Send(r, CertificateMsg(s.config.cert))
    IN IF s.hs.usingPSK THEN s
       ELSE Send(w, CertificateVerify(Sign(s.config.cert, "server", w.hs.transcript)))

\* Mutant: the resumption secret does not cover the client's Finished.
SendSessionTicketsEarly(s) ==
    LET verify == FinishedHash(s.in.secret, s.hs.transcript)
        early == DeriveSecret(s.hs.secret, "res master", s.hs.transcript)
        r == Hear([s EXCEPT !.hs.clientFinished = verify, !.resumptionSecret = early],
                  Finished(verify))
        state == SessionState(early, s.peer, s.verified, s.now)
    IN IF s.hs.hello.pskModes
       THEN WriteHandshakeRecord(r, NewSessionTicket(EncryptTicket(state, s.keys)))
       ELSE r

\* The Finished of the client is known in advance, and so is the resumption
\* secret; a ticket is sent to a client that can use it.
SendSessionTickets(s) ==
    LET verify == FinishedHash(s.in.secret, s.hs.transcript)
        h == Hear([s EXCEPT !.hs.clientFinished = verify], Finished(verify))
        r == [h EXCEPT !.resumptionSecret = DeriveSecret(s.hs.secret, "res master", h.hs.transcript)]
        state == SessionState(r.resumptionSecret, s.peer, s.verified, s.now)
    IN IF s.hs.hello.pskModes
       THEN WriteHandshakeRecord(r, NewSessionTicket(EncryptTicket(state, s.keys)))
       ELSE r

SendServerFinished(s) ==
    LET w == Send(s, Finished(FinishedHash(s.out.secret, s.hs.transcript)))
        Traffic(label) == DeriveSecret(s.hs.secret, label, w.hs.transcript)
        r == [w EXCEPT !.hs.trafficSecret = Traffic("c ap traffic"),
                       !.out = SetTrafficSecret(@, Traffic("s ap traffic"))]
    IN IF RequestClientCert(s) THEN r ELSE SendSessionTickets(r)

HelloCall(s) ==
    LET Flight(r) == SendServerFinished(SendServerCertificate(SendServerParameters(r)))
    IN Then(Then(Then(ReadClientHello(s), ProcessClientHello), CheckForResumption), Flight)

----------------------------------------------------------------------------
(* The second call                                                         *)

ProcessCertsFromClient(s, cert) ==
    CASE cert = None                 -> Alert(s, "certificate_required")
      [] cert # None /\ cert.ca \notin s.config.cas -> Alert(s, "unknown_ca")
      [] cert # None /\ s.now > cert.notAfter       -> Alert(s, "certificate_expired")
      [] OTHER                       -> [s EXCEPT !.peer = cert, !.verified = TRUE]

ReadClientCertificate(s) ==
    LET Certs(r)   == ProcessCertsFromClient(Hear(r, r.msg), r.msg.cert)
        Verify(r)  == IF r.msg.mac = Sign(r.peer, "client", r.hs.transcript)
                      THEN Hear(r, r.msg) ELSE Alert(r, "decrypt_error")
        Proof(r)   == Then(Expect(r, {"CertificateVerify"}), Verify)
    IN IF ~RequestClientCert(s) THEN s
       ELSE Then(Then(Then(Expect(s, {"Certificate"}), Certs), Proof), SendSessionTickets)

ReadClientFinished(s) ==
    LET Check(r) == IF r.msg.mac # r.hs.clientFinished THEN Alert(r, "decrypt_error")
                    ELSE [r EXCEPT !.in = SetTrafficSecret(@, r.hs.trafficSecret)]
    IN Then(Expect(s, {"Finished"}), Check)

FinishCall(s) ==
    LET Complete(r) == [r EXCEPT !.complete = TRUE]
        Record(r) ==
            [r EXCEPT !.lost = @ \/ (r.err = NotEnough /\ r.hs.transcript # s.hs.transcript)]
    IN Record(Then(Then(ReadClientCertificate(s), ReadClientFinished), Complete))

----------------------------------------------------------------------------
(* chain, handshakeContext, Read and the loop of the event handlers        *)

\* chain.exec: a call that is not finished stays, any other is removed.
Exec(s) ==
    LET Leave(r, next) ==
            IF r.err = NotEnough THEN r
            ELSE [r EXCEPT !.chainErr = r.err, !.call = IF r.err = Ok THEN next ELSE "none"]
    IN CASE s.chainErr # Ok -> Fail(s, s.chainErr)
         [] s.chainErr = Ok /\ s.call = "none" -> Fail(s, "chain calls length is zero")
         [] s.chainErr = Ok /\ s.call = "hello" -> Leave(HelloCall(s), "finish")
         [] s.chainErr = Ok /\ s.call = "finish" -> Leave(FinishCall(s), "none")

\* handshakeContext: an error of the handshake is kept for the next call, this
\* one returns nil.
HandshakeContext(s) ==
    LET Keep(r) == IF r.err = NotEnough THEN r
                   ELSE [r EXCEPT !.handshakeErr = r.err, !.err = Ok]
    IN CASE s.complete            -> s
         [] s.handshakeErr # Ok   -> Fail(s, s.handshakeErr)
         [] OTHER                 -> Keep(Exec(s))

Read(s) == Then(HandshakeContext(s), ReadInput)

\* onTrafficTLS: read until there is not enough; every request is answered.
RECURSIVE OnTrafficTLS(_)
OnTrafficTLS(s) ==
    LET Answer(r) == Write([r EXCEPT !.input = <<>>, !.got = @ \o r.input], "reply")
        Continue(r) == IF r.err = Ok THEN OnTrafficTLS(r) ELSE [r EXCEPT !.open = FALSE]
        Handle(r) == CASE r.err = NotEnough -> [r EXCEPT !.err = Ok]
                       [] r.err = Ok /\ r.input # <<>> -> Continue(Answer(r))
                       [] OTHER -> Continue(r)
    IN Handle(Read([s EXCEPT !.err = Ok]))
=============================================================================

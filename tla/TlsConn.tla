------------------------------ MODULE TlsConn ------------------------------
(***************************************************************************)
(* tls.Conn without the handshake: the record layer, reading of handshake  *)
(* messages, application data and post-handshake messages.  Both ends of a *)
(* connection are such a record:                                           *)
(*                                                                         *)
(*   raw      records received: of gnet's inbound buffer those that are    *)
(*            complete (CanRead), of a blocking socket those that arrived  *)
(*   hand     handshake data, in fragments [msg, of]: a message that does  *)
(*            not fit a record comes in several                            *)
(*   in, out  halfConn: secret (None: no cipher), sequence number, error   *)
(*   input    decrypted application data not yet read                      *)
(*   sent     records written by the current call                          *)
(*   err      what the last call returned: Ok, NotEnough or an error       *)
(*   msg      the handshake message it returned                            *)
(*   peer     peerCertificates, and whether there are verifiedChains       *)
(*   cache    the client's ClientSessionCache                              *)
(*   now      config.time()                                                *)
(***************************************************************************)
EXTENDS KeySchedule

CONSTANT MaxUselessRecords     \* maxUselessRecords

Ok == "ok"
NotEnough == "ErrNotEnough"
EOF == "EOF"

NewHalf == [secret |-> None, seq |-> 0, err |-> Ok]

NewConn(isClient) ==
    [isClient |-> isClient, raw |-> <<>>, hand |-> <<>>, in |-> NewHalf, out |-> NewHalf,
     input |-> <<>>, sent |-> <<>>, err |-> Ok, msg |-> None, haveVers |-> FALSE,
     complete |-> FALSE, retry |-> 0, closeSent |-> FALSE, peer |-> None, verified |-> FALSE,
     resumptionSecret |-> None, cache |-> None, now |-> 0]

\* Go on with F unless the call before has failed.
Then(c, F(_)) == IF c.err = Ok THEN F(c) ELSE c

Fail(c, err) == [c EXCEPT !.err = err]

----------------------------------------------------------------------------
(* Writing                                                                 *)

SetTrafficSecret(half, secret) == [half EXCEPT !.secret = secret, !.seq = 0]

\* halfConn.encrypt: an encrypted record looks like application data.
Encrypt(half, typ, data) ==
    [outer |-> IF half.secret = None THEN typ ELSE "app",
     secret |-> half.secret, seq |-> half.seq, typ |-> typ, data |-> data]

WriteRecord(c, typ, data) ==
    [c EXCEPT !.sent = Append(@, Encrypt(c.out, typ, data)), !.out.seq = @ + 1]

\* A handshake message of n records.
RECURSIVE WriteFragments(_, _, _, _)
WriteFragments(c, msg, i, n) ==
    IF i > n THEN c
    ELSE WriteFragments(WriteRecord(c, "handshake", [msg |-> msg, of |-> n]), msg, i + 1, n)

WriteHandshakeRecord(c, msg) == WriteFragments(c, msg, 1, 1)

WriteChangeCipherRecord(c) == WriteRecord(c, "ccs", None)

\* sendAlert: nothing can be written after an alert that is an error.
SendAlert(c, alert) ==
    LET w == WriteRecord(c, "alert", alert)
    IN IF alert = "close_notify" THEN w ELSE [w EXCEPT !.out.err = alert]

Alert(c, alert) == Fail(SendAlert(c, alert), alert)

\* setErrorLocked on the reading half.
InError(c, err) == [c EXCEPT !.in.err = err, !.err = err]

----------------------------------------------------------------------------
(* Reading                                                                 *)

Opens(half, rec) == rec.secret = half.secret /\ rec.seq = half.seq

\* halfConn.decrypt: the alert to send, or Ok.
Decrypt(half, rec) ==
    CASE rec.outer = "ccs"                              -> Ok
      [] half.secret # None /\ ~Opens(half, rec)        -> "bad_record_mac"
      [] half.secret # None /\ rec.outer # "app"        -> "unexpected_message"
      [] OTHER                                          -> Ok

ContentType(half, rec) == IF half.secret = None THEN rec.outer ELSE rec.typ

RECURSIVE ReadRecord(_)

RetryReadRecord(c) ==
    IF c.retry + 1 > MaxUselessRecords
    THEN InError(SendAlert(c, "unexpected_message"), "too many ignored records")
    ELSE ReadRecord([c EXCEPT !.retry = @ + 1])

\* readRecordOrCCS: the next record, to hand or to input.
ReadRecord(c) ==
    IF c.in.err # Ok THEN Fail(c, c.in.err)
    ELSE IF c.raw = <<>> THEN Fail(c, NotEnough)
    ELSE LET rec == Head(c.raw)
             r0  == [c EXCEPT !.raw = Tail(@)]
             bad == Decrypt(c.in, rec)
             typ == IF rec.outer = "ccs" THEN "ccs" ELSE ContentType(c.in, rec)
             r   == [r0 EXCEPT !.in.seq = IF typ = "ccs" THEN @ ELSE @ + 1,
                               !.retry = IF typ \in {"alert", "ccs"} THEN @ ELSE 0]
             Unexpected == InError(SendAlert(r, "unexpected_message"), "unexpected_message")
         IN CASE ~c.haveVers /\ rec.outer \notin {"alert", "handshake"} ->
                   InError(r0, "first record does not look like a TLS handshake")
              [] bad # Ok                           -> InError(SendAlert(r0, bad), bad)
              [] c.in.secret = None /\ typ = "app"  -> Unexpected
              [] typ # "handshake" /\ c.hand # <<>> -> Unexpected
              [] typ = "alert"     -> InError(r, IF rec.data = "close_notify" THEN EOF
                                                 ELSE rec.data)
              [] typ = "ccs"       -> RetryReadRecord(r)
              [] typ = "app"       -> IF c.complete THEN [r EXCEPT !.input = Append(@, rec.data)]
                                      ELSE Unexpected
              [] typ = "handshake" -> [r EXCEPT !.hand = Append(@, rec.data)]

\* readHandshake takes a message from hand once all of it is there.
RECURSIVE ReadHandshake(_)
ReadHandshake(c) ==
    IF c.hand # <<>> /\ Len(c.hand) >= Head(c.hand).of
    THEN [c EXCEPT !.msg = Head(c.hand).msg,
                   !.hand = SubSeq(@, Head(@).of + 1, Len(@))]
    ELSE Then(ReadRecord(c), ReadHandshake)

\* The next message is one of the given types, or the handshake is over.
Expect(c, types) ==
    Then(ReadHandshake(c), LAMBDA r : IF r.msg.t \in types THEN r
                                      ELSE Alert(r, "unexpected_message"))

----------------------------------------------------------------------------
(* After the handshake                                                     *)

\* Mutant: the answer is written with the new secret.
HandleKeyUpdateEarly(c) ==
    LET Next(half) == SetTrafficSecret(half, NextTrafficSecret(half.secret))
        r == [c EXCEPT !.in = Next(@)]
    IN IF c.msg.requested
       THEN WriteHandshakeRecord([r EXCEPT !.out = Next(@)], KeyUpdate(FALSE))
       ELSE r

\* The answer to a KeyUpdate is written with the old secret.
HandleKeyUpdate(c) ==
    LET r == [c EXCEPT !.in = SetTrafficSecret(@, NextTrafficSecret(@.secret))]
        w == WriteHandshakeRecord(r, KeyUpdate(FALSE))
    IN IF c.msg.requested
       THEN [w EXCEPT !.out = SetTrafficSecret(@, NextTrafficSecret(@.secret))]
       ELSE r

\* The client keeps a ticket, with the session it stands for, for its next connection.
HandleNewSessionTicket(c) ==
    IF ~c.isClient THEN Alert(c, "unexpected_message")
    ELSE [c EXCEPT !.cache =
            [ticket |-> c.msg.ticket,
             session |-> SessionState(c.resumptionSecret, c.peer, c.verified, c.now),
             useBy |-> c.now + MaxSessionTicketLifetime]]

HandlePostHandshakeMessage(c) ==
    IF c.retry + 1 > MaxUselessRecords
    THEN InError(SendAlert(c, "unexpected_message"), "too many non-advancing records")
    ELSE LET r == [c EXCEPT !.retry = @ + 1]
         IN CASE c.msg.t = "NewSessionTicket" -> HandleNewSessionTicket(r)
              [] c.msg.t = "KeyUpdate"        -> HandleKeyUpdate(r)
              [] OTHER                        -> Alert(r, "unexpected_message")

RECURSIVE DrainHand(_)
DrainHand(c) ==
    IF c.err # Ok \/ c.hand = <<>> THEN c
    ELSE DrainHand(Then(ReadHandshake(c), HandlePostHandshakeMessage))

\* The loop of Conn.Read behind the handshake: records until there is data.
RECURSIVE ReadInput(_)
ReadInput(c) ==
    IF c.err # Ok \/ c.input # <<>> THEN c ELSE ReadInput(Then(ReadRecord(c), DrainHand))

\* Conn.Write, of a connection whose handshake is complete.
Write(c, data) ==
    CASE c.out.err # Ok -> Fail(c, c.out.err)
      [] c.closeSent    -> Fail(c, "protocol is shutdown")
      [] OTHER          -> WriteRecord(c, "app", data)

\* Conn.Close: close_notify, unless the handshake is not complete.
Close(c) ==
    IF c.complete /\ ~c.closeSent THEN [SendAlert(c, "close_notify") EXCEPT !.closeSent = TRUE]
    ELSE c
=============================================================================

---------------------------- MODULE KeySchedule ----------------------------
(***************************************************************************)
(* Handshake messages, transcripts and the TLS 1.3 key schedule, over      *)
(* terms: a secret is the term it is derived from, so that two secrets are *)
(* equal exactly if they come from the same inputs.  There is one cipher   *)
(* suite and no ALPN, as in the configurations that loadConfig builds.     *)
(***************************************************************************)
EXTENDS Integers, Sequences, TlsConfig

CONSTANTS
    TicketKeyRotation,          \* ticketKeyRotation, in days
    TicketKeyLifetime,          \* ticketKeyLifetime
    MaxSessionTicketLifetime    \* maxSessionTicketLifetime

\* What a certificate, and the key that goes with it, are known by.
Certificate(subject, ca, notAfter) == [subject |-> subject, ca |-> ca, notAfter |-> notAfter]

KeyShare(group, who, conn) == [group |-> group, who |-> who, conn |-> conn]

ClientHello(conn, share, groups, pskModes, ticket, binder) ==
    [t |-> "ClientHello", random |-> conn, share |-> share, groups |-> groups,
     pskModes |-> pskModes, ticket |-> ticket, mac |-> binder]
HelloRetryRequest(group) == [t |-> "HelloRetryRequest", group |-> group]
ServerHello(share, selectedIdentity) ==
    [t |-> "ServerHello", share |-> share, psk |-> selectedIdentity]
EncryptedExtensions == [t |-> "EncryptedExtensions"]
CertificateRequest(cas) == [t |-> "CertificateRequest", cas |-> cas]
CertificateMsg(cert) == [t |-> "Certificate", cert |-> cert]
CertificateVerify(sig) == [t |-> "CertificateVerify", mac |-> sig]
Finished(verifyData) == [t |-> "Finished", mac |-> verifyData]
NewSessionTicket(ticket) == [t |-> "NewSessionTicket", ticket |-> ticket]
KeyUpdate(requested) == [t |-> "KeyUpdate", requested |-> requested]

\* A transcript holds binders, signatures and verify data by their place: each
\* end adds only those it has computed or checked, and these are functions of
\* the secrets and of the transcript so far.
Hashed(msg) == IF "mac" \in DOMAIN msg THEN [msg EXCEPT !.mac = None] ELSE msg
TranscriptMsg(transcript, msg) == Append(transcript, Hashed(msg))

\* What a HelloRetryRequest leaves of the first ClientHello.
MessageHash(transcript) == <<[t |-> "message_hash", of |-> transcript]>>

\* The handshake secret, and with it the master secret: the (EC)DHE exchange
\* over a pre-shared key, or over none.
Extract(clientShare, serverShare, psk) ==
    [dh |-> <<clientShare, serverShare>>, psk |-> psk]

DeriveSecret(secret, label, transcript) ==
    [secret |-> secret, label |-> label, context |-> transcript, gen |-> 0]

NextTrafficSecret(secret) == [secret EXCEPT !.gen = @ + 1]

FinishedHash(baseKey, transcript) == [key |-> baseKey, over |-> transcript]

\* The key binders are computed with.
BinderKey(psk) == DeriveSecret([dh |-> <<>>, psk |-> psk], "res binder", <<>>)

\* A signature over a transcript, made with the key of a certificate.
Sign(cert, context, transcript) == [key |-> cert, context |-> context, over |-> transcript]

\* The curve preferences of a Config that sets none; the one share of the
\* client, if any, that the server can use, and the group it asks for if not.
CurvePreferences == <<"X25519", "P256", "P384", "P521">>
SelectedGroup(hello) ==
    LET Supported(groups) == {i \in 1..Len(CurvePreferences) : CurvePreferences[i] \in groups}
        First(is) == CurvePreferences[CHOOSE i \in is : \A j \in is : i <= j]
    IN IF Supported({hello.share.group}) # {} THEN hello.share.group
       ELSE IF Supported(hello.groups) # {} THEN First(Supported(hello.groups)) ELSE None

----------------------------------------------------------------------------
(* Session tickets                                                         *)

\* A session: what Conn.sessionState puts into it, and the pre-shared key.
SessionState(secret, peer, verified, createdAt) ==
    [secret |-> secret, peer |-> peer, verified |-> verified, createdAt |-> createdAt]

EncryptTicket(state, keys) == [key |-> Head(keys), state |-> state]

\* Mutant: tickets of other Configs are opened as well.
DecryptTicketShared(ticket, keys) ==
    IF \E i \in 1..Len(keys) : keys[i].created = ticket.key.created THEN ticket.state ELSE None

DecryptTicket(ticket, keys) ==
    IF \E i \in 1..Len(keys) : keys[i] = ticket.key THEN ticket.state ELSE None

\* Config.ticketKeys: the keys that Config `id` manages by itself, newest first.
TicketKeys(id, keys, now) ==
    IF keys # <<>> /\ now - Head(keys).created < TicketKeyRotation THEN keys
    ELSE <<[config |-> id, created |-> now]>>
         \o SelectSeq(keys, LAMBDA k : now - k.created < TicketKeyLifetime)
=============================================================================

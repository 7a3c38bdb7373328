----------------------------- MODULE TlsConfig -----------------------------
(***************************************************************************)
(* tls.Config as loadConfig builds it: what the reloader publishes and a   *)
(* connection is accepted with.                                            *)
(***************************************************************************)

CONSTANT None

\* id tells the Configs apart: each has its own ticket keys.  cas is the set of
\* client CAs, None if no CA file is configured.
Config(id, cert, cas) == [id |-> id, cert |-> cert, cas |-> cas]

RequiresClientCert(config) == config.cas # None

============================================================================

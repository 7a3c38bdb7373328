------------------------------- MODULE Requests -------------------------------
(***************************************************************************)
(* The requests a connection may carry, for both wire protocols, and what  *)
(* the policy says about them.  A request is what the gates and the AUTH   *)
(* path tell apart; keys, values and passwords are left out.               *)
(*                                                                         *)
(*   get, set     data commands; set stands for whatever a reader may not  *)
(*                run, ROLE and ACL included                               *)
(*   bulk         a set whose frame is larger than a small read buffer     *)
(*   auth         AUTH of a user with a password, and the password fits    *)
(*   auth_bad     the same with another password                           *)
(*   auth_none    AUTH of an unknown user                                  *)
(*   auth_default AUTH of "default", a user without a password if the mode *)
(*                has one                                                  *)
(*   token        AUTH with a bearer token that maps to a role             *)
(*   token_bad    AUTH with a token that fails or maps to no role          *)
(*   garbage      bytes that are no frame                                  *)
(***************************************************************************)
EXTENDS Naturals, Sequences

Passwords == {"auth", "auth_bad", "auth_none", "auth_default"}
Tokens == {"token", "token_bad"}
Auths == Passwords \union Tokens
Datas == {"get", "set", "bulk"}
RequestKinds == Auths \union Datas \union {"ping", "quit", "starttls", "garbage"}

NoUser == "nobody"
Users == {"alice", "default", "subject"}

\* The identity an AUTH establishes when it succeeds.
UserOf(r) == CASE r \in {"auth", "auth_bad"} -> "alice"
               [] r \in Tokens -> "subject"
               [] OTHER -> "default"

\* How the server is configured: no credentials at all, --require-pass, a
\* policy, and a policy whose user "default" has no password.
Configurations == {"open", "password", "rbac", "rbac_default"}
HasPolicy(mode) == mode \in {"rbac", "rbac_default"}

\* Single-password mode knows one user, "default", with a password: there
\* "auth" stands for AUTH with that password.
Identity(mode, r) == IF HasPolicy(mode) THEN UserOf(r) ELSE "default"

\* The AUTHs that must succeed.
Accepts(mode, r) ==
  \/ r = "auth"
  \/ HasPolicy(mode) /\ r = "token"
  \/ mode = "rbac_default" /\ r = "auth_default"

\* What an authenticated user may run: without a policy everything.
May(mode, user, r) == \/ ~HasPolicy(mode)
                      \/ user = "alice"
                      \/ r = "get"

Replies == {"ok", "pong", "data", "noauth", "noperm", "err"}
===============================================================================

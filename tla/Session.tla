------------------------------- MODULE Session --------------------------------
(***************************************************************************)
(* What a front end promises to one connection, whatever runs beside it:   *)
(* the requests of a connection are answered one by one, in the order in   *)
(* which they were sent, each with the identity that the last successful   *)
(* AUTH before it established.  AUTH is a step like the others here; that  *)
(* the servers verify passwords on other goroutines does not show.         *)
(***************************************************************************)
EXTENDS Requests

CONSTANTS Conns,          \* connections
          MaxAuthFails    \* rejected AUTHs after which a connection is closed

VARIABLES mode,     \* the configuration
          script,   \* for each connection the requests its client sends
          open,     \* the connections that are open
          user,     \* the identity of each
          fails,    \* its rejected AUTHs
          answers   \* what its requests were answered, in order

sessionVars == <<mode, script, open, user, fails, answers>>

SessionInit ==
  /\ mode \in Configurations
  /\ open = {}
  /\ user = [c \in Conns |-> NoUser]
  /\ fails = [c \in Conns |-> 0]
  /\ answers = [c \in Conns |-> <<>>]

Accept(c) ==
  /\ c \notin open
  /\ answers[c] = <<>>
  /\ open' = open \union {c}
  /\ \E u \in {NoUser, "default"} :
       /\ mode = "open" => u = "default"
       /\ mode \in {"password", "rbac"} => u = NoUser
       /\ user' = [user EXCEPT ![c] = u]
  /\ UNCHANGED <<mode, script, fails, answers>>

\* The answers a request may get: an AUTH may also be turned away because the
\* verifiers are busy, which counts as no attempt.
Outcome(r, u, f) ==
  CASE r \in Auths /\ mode = "open" ->
         {[reply |-> "ok", user |-> u, fails |-> f]}
    [] r \in Auths /\ mode # "open" ->
         {[reply |-> "err", user |-> u, fails |-> f]} \union
         (IF Accepts(mode, r)
            THEN {[reply |-> "ok", user |-> Identity(mode, r), fails |-> f]}
            ELSE {[reply |-> "err", user |-> u, fails |-> f + 1]})
    [] r = "ping" -> {[reply |-> "pong", user |-> u, fails |-> f]}
    [] r = "quit" -> {[reply |-> "ok", user |-> u, fails |-> f]}
    [] r = "starttls" ->
         {[reply |-> x, user |-> u, fails |-> f] : x \in {"ok", "err", "noauth"}}
    [] r \in Datas ->
         {[reply |-> CASE u = NoUser -> "noauth"
                       [] u # NoUser /\ May(mode, u, r) -> "data"
                       [] OTHER -> "noperm",
           user |-> u, fails |-> f]}
    [] OTHER -> {}

\* No request is served after QUIT or after the last attempt.
Serve(c) ==
  LET i == Len(answers[c]) + 1 IN
  /\ c \in open
  /\ i \in DOMAIN script[c]
  /\ fails[c] < MaxAuthFails
  /\ i > 1 => script[c][i - 1] # "quit"
  /\ \E o \in Outcome(script[c][i], user[c], fails[c]) :
       /\ answers' = [answers EXCEPT ![c] = Append(@, o.reply)]
       /\ user' = [user EXCEPT ![c] = o.user]
       /\ fails' = [fails EXCEPT ![c] = o.fails]
  /\ UNCHANGED <<mode, script, open>>

\* A connection may end at any time; what it was is then forgotten.
HangUp(c) ==
  /\ c \in open
  /\ open' = open \ {c}
  /\ user' = [user EXCEPT ![c] = NoUser]
  /\ fails' = [fails EXCEPT ![c] = 0]
  /\ answers' = [answers EXCEPT ![c] = <<>>]
  /\ UNCHANGED <<mode, script>>

SessionNext == \E c \in Conns : Accept(c) \/ Serve(c) \/ HangUp(c)

SessionSpec == SessionInit /\ [][SessionNext]_sessionVars
===============================================================================

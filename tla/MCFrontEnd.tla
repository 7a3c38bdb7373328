------------------------------ MODULE MCFrontEnd ------------------------------
(* Instances of FrontEnd: eight listeners.  On each the first connection has a *)
(* script that suits it, the second one competes for the AUTH workers.         *)
EXTENDS FrontEnd, TLC

CONSTANTS c1, c2

Listener(p, t, m) == [proto |-> p, tls |-> t, mode |-> m]

\* A pipelining or a patient client beside one that runs script rival.
Pair(s, p, rival) ==
  [c \in {c1, c2} |-> IF c = c1 THEN [script |-> s, pipelined |-> p]
                                ELSE [script |-> rival, pipelined |-> FALSE]]

MCClients ==
  Listener("binary", "off", "rbac") :>
    {Pair(<<"auth", "token_bad", "set">>, TRUE, <<"auth">>),
     Pair(<<"get", "auth_bad", "auth_none", "auth_bad">>, TRUE, <<"token">>)} @@
  Listener("binary", "off", "rbac_default") :>
    {Pair(<<"get", "auth_default", "set">>, TRUE, <<"auth_none", "garbage">>)} @@
  Listener("binary", "off", "open") :> {Pair(<<"auth", "bulk">>, TRUE, <<>>)} @@
  Listener("binary", "on", "open") :> {Pair(<<"auth", "get", "set">>, TRUE, <<>>)} @@
  Listener("resp", "off", "rbac_default") :>
    {Pair(<<"get", "auth", "set">>, TRUE, <<"token">>),
     Pair(<<"token", "auth_default", "garbage">>, TRUE, <<"auth">>)} @@
  Listener("resp", "off", "password") :>
    {Pair(<<"ping", "auth_bad", "auth_none", "token">>, TRUE, <<"auth">>),
     Pair(<<"auth", "quit", "get">>, TRUE, <<"auth">>)} @@
  Listener("resp", "starttls", "rbac") :>
    {Pair(<<"starttls", "auth", "set">>, FALSE, <<>>),
     Pair(<<"ping", "starttls", "get">>, TRUE, <<>>)} @@
  Listener("resp", "on", "rbac") :>
    {Pair(<<"starttls", "bulk">>, FALSE, <<>>)}

MCListeners == DOMAIN MCClients

MCSizeOf == [r \in RequestKinds |-> IF r = "bulk" THEN 3 ELSE IF r = "set" THEN 2 ELSE 1]
===============================================================================

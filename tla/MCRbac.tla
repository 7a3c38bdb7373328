------------------------------- MODULE MCRbac -------------------------------
(***************************************************************************)
(* An instance of Rbac: two administrators who can delete each other, a    *)
(* user whose password and role change, a default user, two policy files   *)
(* and a broken one.                                                       *)
(***************************************************************************)
EXTENDS RbacWire

CONSTANTS c1, c2

KeyA == <<"a">>
KeyB == <<"b">>

Rule(o, a) == [op |-> o, arg |-> a]

File1 ==
  [roles   |-> <<[name |-> "adm", rules |-> {Rule("+@", "admin"), Rule("+", "COMMAND")}],
                 [name |-> "rw",  rules |-> {Rule("+@", "write"), Rule("~", <<"a", "*">>)}]>>,
   users   |-> <<[name |-> "root", role |-> "adm", pass |-> "s1", nopass |-> FALSE],
                 [name |-> "default", role |-> None, pass |-> None, nopass |-> TRUE]>>,
   default |-> "rw",
   rules   |-> <<[claim |-> "groups", match |-> <<"*", "b">>, role |-> "rw"],
                 [claim |-> "groups", match |-> <<"*">>, role |-> "adm"]>>]

\* Another administrator, whose role has a long name, and no default role.
File2 ==
  [roles   |-> <<[name |-> "adm", rules |-> {Rule("+@", "all"), Rule("-@", "maintenance")}],
                 [name |-> "long", rules |-> {Rule("+", "ACL"), Rule("+", "DEL"), Rule("~", <<"b">>)}]>>,
   users   |-> <<[name |-> "root", role |-> "adm", pass |-> "s1", nopass |-> FALSE],
                 [name |-> "bob", role |-> "long", pass |-> "s1", nopass |-> FALSE]>>,
   default |-> None,
   rules   |-> <<>>]

\* A user with both a password and nopass.
File3 == [File1 EXCEPT !.users[2].pass = "s1"]

MCFiles == {File1, File2, File3}

Mutation(o, n) == [op |-> o, name |-> n, role |-> None, pass |-> None, rules |-> {}]

MCMutations ==
  {[Mutation("SETUSER", "bob") EXCEPT !.role = "rw", !.pass = "s2"],
   [Mutation("CREATE", "ops") EXCEPT !.rules = {Rule("+@", "read"), Rule("~", <<"*">>)}],
   Mutation("DELUSER", "root"), Mutation("DELUSER", "bob"),
   Mutation("DELETE", "rw")}

MCTokens == {[subject |-> "sub", claims |-> [groups |-> {<<"a", "b">>}]]}

MCNameQueries ==
  {<<>>, << <<"ROLE">>, <<"ROLE", "LIST">> >>, << <<"GET">>, <<"NOPE">>, <<"ACL">> >>, << <<"SET", "LIST">> >>}

MCFilters ==
  {[by |-> "none", arg |-> {}], [by |-> "module", arg |-> {"m"}], [by |-> "aclcat", arg |-> {"readwrite"}],
   [by |-> "pattern", arg |-> {"GET", "SET", "NOPE"}]}

MCRequests ==
  {[op |-> "SET", ttl |-> -1, key |-> Text(KeyA), value |-> Text(KeyB)],
   [op |-> "GET", ttl |-> 0, key |-> Text(KeyA), value |-> <<>>],
   [op |-> "SET", ttl |-> 40, key |-> <<>>, value |-> <<>>]}

MCLogEntries ==
  << <<Bytes("t1"), Bytes("bob"), Bytes("host"), Bytes("invalid password")>>,
     <<Bytes("t2"), Bytes(None), Bytes("host"), Bytes("malformed request")>>,
     <<Bytes("t3"), Bytes("long"), Bytes("host"), Bytes("unknown user")>> >>

MCKeys == {KeyA, KeyB}
=============================================================================

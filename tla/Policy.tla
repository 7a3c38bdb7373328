------------------------------- MODULE Policy -------------------------------
(***************************************************************************)
(* The authorization policy of internal/rbac as a value, the operations on *)
(* it as functions from a policy to a policy, and the promise the Store    *)
(* makes about them: every mutation and every reload takes effect on the   *)
(* policy that is active at one moment, so none undoes another.            *)
(*                                                                         *)
(* A role is a value [name, cmds, keys].  A policy holds its Default and   *)
(* the roles of its OAuth rules as roles, not as names: deleting a role    *)
(* does not change them.  Names, passwords and claim values are opaque;    *)
(* keys, prefixes and match patterns are sequences of characters.          *)
(***************************************************************************)
EXTENDS Naturals, Sequences, FiniteSets

\* No role, no password, no name: nil or "" in the code.
CONSTANT None

\* commandNames, and the categories of the ACL command family.
AllCommands == {"GET", "SET", "DEL", "PING", "COMMAND", "AUTH", "ROLE", "ACL",
                "INFO", "FLUSH", "SHUTDOWN", "CONFIG", "DEBUG", "MONITOR",
                "USER", "GRANT", "REVOKE"}

Category ==
  [login       |-> {"AUTH", "PING", "COMMAND"},
   read        |-> {"GET", "INFO"},
   write       |-> {"SET", "DEL"},
   readwrite   |-> {"GET", "SET", "DEL", "PING", "COMMAND", "INFO", "AUTH"},
   operator    |-> {"GET", "SET", "DEL", "PING", "COMMAND", "INFO", "AUTH", "FLUSH"},
   maintenance |-> {"FLUSH", "SHUTDOWN", "CONFIG", "DEBUG", "MONITOR"},
   admin       |-> {"AUTH", "ROLE", "ACL", "USER", "GRANT", "REVOKE"},
   all         |-> AllCommands,
   none        |-> {}]

HasPrefix(t, p) == Len(p) <= Len(t) /\ SubSeq(t, 1, Len(p)) = p

HasSuffix(t, p) == Len(p) <= Len(t) /\ SubSeq(t, Len(t) - Len(p) + 1, Len(t)) = p

TrimStar(t) == IF HasSuffix(t, <<"*">>) THEN SubSeq(t, 1, Len(t) - 1) ELSE t

-----------------------------------------------------------------------------
(* Roles.  A rule token is [op, arg]: +cmd, -cmd, +@category, -@category,  *)
(* ~prefix, or something else.                                             *)

IsNamespace(r) == r.op = "~" /\ r.arg # <<"*">>

RuleOK(r) ==
  \/ r.op \in {"+", "-"} /\ r.arg \in AllCommands
  \/ r.op \in {"+@", "-@"} /\ r.arg \in DOMAIN Category
  \/ r.op = "~" /\ (IsNamespace(r) => TrimStar(r.arg) # <<>>)

RuleCommands(r) == IF r.op \in {"+@", "-@"} THEN Category[r.arg] ELSE {r.arg}

RulesOK(rules) == rules # {} /\ \A r \in rules : RuleOK(r)

ParseRole(name, rules) ==
  [name |-> name,
   cmds |-> UNION {RuleCommands(r) : r \in {x \in rules : x.op \in {"+", "+@"}}}
              \ UNION {RuleCommands(r) : r \in {x \in rules : x.op \in {"-", "-@"}}},
   keys |-> {TrimStar(r.arg) : r \in {x \in rules : IsNamespace(x)}}]

AllowsKey(role, key) ==
  role.keys = {} \/ \E p \in role.keys : HasPrefix(key, p)

-----------------------------------------------------------------------------
(* OAuth rules.                                                            *)

HasStar(m) == \E i \in DOMAIN m : m[i] = "*"

\* The default branch of parseMatch is the error.
MatchOK(m) == HasStar(m) => HasPrefix(m, <<"*">>) \/ HasSuffix(m, <<"*">>)

ParseMatch(m) ==
  [exact  |-> IF HasStar(m) THEN <<>> ELSE m,
   suffix |-> IF HasPrefix(m, <<"*">>) THEN SubSeq(m, 2, Len(m)) ELSE <<>>,
   prefix |-> IF HasStar(m) /\ ~HasPrefix(m, <<"*">>) THEN TrimStar(m) ELSE <<>>]

Matches(rule, values) ==
  \E v \in values :
     \/ rule.match.exact # <<>> /\ v = rule.match.exact
     \/ rule.match.prefix # <<>> /\ HasPrefix(v, rule.match.prefix)
     \/ rule.match.suffix # <<>> /\ HasSuffix(v, rule.match.suffix)
     \/ rule.match.exact = <<>> /\ rule.match.prefix = <<>> /\ rule.match.suffix = <<>>

-----------------------------------------------------------------------------
(* Looking things up in a policy [roles, users, default, rules]: roles and *)
(* users are functions from names, a user is [role, pass].                 *)

RoleFor(p, u) ==
  IF u \in DOMAIN p.users /\ p.users[u].role \in DOMAIN p.roles
  THEN p.roles[p.users[u].role]
  ELSE p.default

Grants(role, cmd) == role # None /\ cmd \in role.cmds

\* Claims are a function from the names of the claims present to the sets of
\* their values.  The first rule that matches decides.
RuleApplies(p, claims, i) ==
  p.rules[i].claim \in DOMAIN claims /\ Matches(p.rules[i], claims[p.rules[i].claim])

RoleForClaims(p, claims) ==
  LET hits == {i \in DOMAIN p.rules : RuleApplies(p, claims, i)}
  IN IF hits = {} THEN None
     ELSE p.rules[CHOOSE i \in hits : \A j \in hits : i <= j].role

NoPassDefault(p) == "default" \in DOMAIN p.users /\ p.users["default"].pass = None

HasOtherAdmin_Self(p, u) ==
  \E v \in DOMAIN p.users : Grants(RoleFor(p, v), "ACL")

HasOtherAdmin(p, u) ==
  \E v \in DOMAIN p.users \ {u} : Grants(RoleFor(p, v), "ACL")

-----------------------------------------------------------------------------
(* The policy file: [roles, users, default, rules], all sequences of       *)
(* records.  A password of the file is None, Garbled (not a bcrypt hash)   *)
(* or a hash.                                                              *)

Garbled == "garbled"

Named(s, n) == \E i \in DOMAIN s : s[i].name = n

Distinct(s) == \A i, j \in DOMAIN s : s[i].name = s[j].name => i = j

FileOK(f) ==
  /\ Distinct(f.roles) /\ ~Named(f.roles, None)
  /\ \A i \in DOMAIN f.roles : RulesOK(f.roles[i].rules)
  /\ Distinct(f.users) /\ ~Named(f.users, None)
  /\ \A i \in DOMAIN f.users :
        LET u == f.users[i]
        IN /\ u.role # None => Named(f.roles, u.role)
           /\ u.pass # Garbled
           /\ u.nopass <=> u.pass = None
  /\ f.default # None => Named(f.roles, f.default)
  /\ \A i \in DOMAIN f.rules :
        LET r == f.rules[i]
        IN r.claim # None /\ r.match # <<>> /\ Named(f.roles, r.role) /\ MatchOK(r.match)

Names(s) == {s[i].name : i \in DOMAIN s}

Entry(s, n) == s[CHOOSE i \in DOMAIN s : s[i].name = n]

Build(f) ==
  LET roles == [n \in Names(f.roles) |-> ParseRole(n, Entry(f.roles, n).rules)]
  IN [roles   |-> roles,
      users   |-> [n \in Names(f.users) |->
                     [role |-> Entry(f.users, n).role, pass |-> Entry(f.users, n).pass]],
      default |-> IF f.default = None THEN None ELSE roles[f.default],
      rules   |-> [i \in DOMAIN f.rules |->
                     [claim |-> f.rules[i].claim, match |-> ParseMatch(f.rules[i].match),
                      role  |-> roles[f.rules[i].role]]]]

-----------------------------------------------------------------------------
(* The four mutations.  A request is [op, name, role, pass, rules];        *)
(* Accepted is the check, Result the policy published if it passes.        *)

With(f, n, v) == [x \in DOMAIN f \cup {n} |-> IF x = n THEN v ELSE f[x]]

Without(f, n) == [x \in DOMAIN f \ {n} |-> f[x]]

Accepted(p, m) ==
  CASE m.op = "CREATE"  -> RulesOK(m.rules) /\ m.name \notin DOMAIN p.roles
    [] m.op = "SETUSER" -> m.role \in DOMAIN p.roles
    [] m.op = "DELUSER" -> /\ m.name \in DOMAIN p.users
                           /\ Grants(RoleFor(p, m.name), "ACL") => HasOtherAdmin(p, m.name)
    [] m.op = "DELETE"  -> m.name \in DOMAIN p.roles

Result_KeepsDefault(p, m) ==
  CASE m.op = "CREATE"  -> [p EXCEPT !.roles = With(@, m.name, ParseRole(m.name, m.rules))]
    [] m.op = "SETUSER" -> [p EXCEPT !.users = With(@, m.name, [role |-> m.role, pass |-> m.pass])]
    [] m.op = "DELUSER" -> [p EXCEPT !.users = Without(@, m.name)]
    [] m.op = "DELETE"  -> [p EXCEPT !.roles = Without(@, m.name)]

Result(p, m) ==
  CASE m.op = "CREATE"  -> [p EXCEPT !.roles = With(@, m.name, ParseRole(m.name, m.rules))]
    [] m.op = "SETUSER" -> [p EXCEPT !.users = With(@, m.name, [role |-> m.role, pass |-> m.pass])]
    [] m.op = "DELUSER" -> [p EXCEPT !.users = Without(@, m.name)]
    [] m.op = "DELETE"  -> [p EXCEPT !.roles = Without(@, m.name),
                                     !.default = IF @ = p.roles[m.name] THEN None ELSE @]
=============================================================================

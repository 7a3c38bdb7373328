-------------------------------- MODULE Wire --------------------------------
(***************************************************************************)
(* How requests and replies of the ROLE, ACL and COMMAND families are put  *)
(* on the wire and read back: the binary protocol (internal/network:       *)
(* protocol.go, role.go, acl.go, client_role.go, client_acl.go) and RESP   *)
(* (internal/resp: protocol.go, role.go, acl.go, command.go).              *)
(*                                                                         *)
(* Binary data is a sequence of cells.  A number of w bytes is w digits,   *)
(* most significant first, in base Radix instead of 256, so that lengths   *)
(* near the limit of a two-byte prefix stay small.  A string is as many    *)
(* cells as Size says.  RESP replies are sequences of elements: what one   *)
(* Append call writes.                                                     *)
(***************************************************************************)
EXTENDS Policy, SequencesExt

CONSTANTS
  Radix,     \* the number of values of a byte
  LongNames  \* the names that do not fit a two-byte length

MaxUint16 == Radix * Radix - 1

\* A byte: its value as a digit, and the character it is part of, if any.
Digit(n) == [chr |-> None, val |-> n]

Char(x) == [chr |-> x, val |-> 1]

Size(s) == IF s \in LongNames THEN MaxUint16 + 1 ELSE 1

\* A name is Size many bytes; a key prefix is written character by character.
Bytes(s) == IF s = None THEN <<>> ELSE [i \in 1..Size(s) |-> Char(s)]

Text(t) == [i \in DOMAIN t |-> Char(t[i])]

Num(w, n) == [i \in 1..w |-> Digit((n \div Radix^(w - i)) % Radix)]

Flag(b) == <<Digit(IF b THEN 1 ELSE 0)>>

Fail == [ok |-> FALSE, val |-> <<>>, pos |-> 0]

Good(v, p) == [ok |-> TRUE, val |-> v, pos |-> p]

\* The number of w bytes at pos, where the payload has them.
Has(pl, pos, w) == pos + w <= Len(pl)

At(pl, pos, w) ==
  LET upTo[i \in 0..w] == IF i = 0 THEN 0 ELSE Radix * upTo[i - 1] + pl[pos + i].val
  IN upTo[w]

-----------------------------------------------------------------------------
(* Binary lists and strings.                                               *)

EncodeString(b) == Num(2, Len(b)) \o b

Fits(b) == Len(b) <= MaxUint16

\* encodeList, and EncodeRoleArgs of a request.
EncodeList(items) == Num(2, Len(items)) \o FlattenSeq([i \in DOMAIN items |-> EncodeString(items[i])])

ListFits(items) == Len(items) <= MaxUint16 /\ \A i \in DOMAIN items : Fits(items[i])

DecodeU16String(pl, pos) ==
  IF ~Has(pl, pos, 2) THEN Fail
  ELSE LET n == At(pl, pos, 2)
       IN IF ~Has(pl, pos + 2, n) THEN Fail
          ELSE Good(SubSeq(pl, pos + 3, pos + 2 + n), pos + 2 + n)

\* The loop shared by all list decoders: count times One, at the position
\* where the one before ended.
RECURSIVE Repeat(_, _, _, _)
Repeat(One(_, _), pl, pos, count) ==
  IF count = 0 THEN Good(<<>>, pos)
  ELSE LET head == One(pl, pos)
       IN IF ~head.ok THEN Fail
          ELSE LET rest == Repeat(One, pl, head.pos, count - 1)
               IN IF ~rest.ok THEN Fail ELSE Good(<<head.val>> \o rest.val, rest.pos)

\* decodeStringList and decodeByteList.
DecodeList(pl, pos) ==
  IF ~Has(pl, pos, 2) THEN Fail
  ELSE Repeat(DecodeU16String, pl, pos + 2, At(pl, pos, 2))

\* A whole payload: a list of entries and nothing after it.
Whole(One(_, _), pl) ==
  IF Len(pl) < 2 THEN Fail
  ELSE LET r == Repeat(One, pl, 2, At(pl, 0, 2))
       IN IF r.ok /\ r.pos = Len(pl) THEN r ELSE Fail

DecodeRoleArgs(pl) == Whole(DecodeU16String, pl)

\* Sequencing of decoders: the fields of an entry, one after the other.
RECURSIVE Fields(_, _, _)
Fields(kinds, pl, pos) ==
  IF kinds = <<>> THEN Good(<<>>, pos)
  ELSE LET f == CASE Head(kinds) = "string" -> DecodeU16String(pl, pos)
                  [] Head(kinds) = "list"   -> DecodeList(pl, pos)
                  [] Head(kinds) = "flag"   -> IF pos >= Len(pl) THEN Fail
                                               ELSE Good(pl[pos + 1].val = 1, pos + 1)
       IN IF ~f.ok THEN Fail
          ELSE LET rest == Fields(Tail(kinds), pl, f.pos)
               IN IF ~rest.ok THEN Fail ELSE Good(<<f.val>> \o rest.val, rest.pos)

-----------------------------------------------------------------------------
(* Binary replies.  Sorted is a fixed order, not the order of names.       *)

RECURSIVE Sorted(_)
Sorted(S) == IF S = {} THEN <<>> ELSE LET x == CHOOSE x \in S : TRUE IN <<x>> \o Sorted(S \ {x})

NameList(S) == [i \in 1..Cardinality(S) |-> Bytes(Sorted(S)[i])]

Commands(role) == IF role = None THEN <<>> ELSE NameList(role.cmds)

Namespaces(role) == IF role = None THEN <<>> ELSE [i \in 1..Cardinality(role.keys) |-> Text(Sorted(role.keys)[i])]

RoleEntries(p) ==
  [i \in 1..Cardinality(DOMAIN p.roles) |->
     LET n == Sorted(DOMAIN p.roles)[i]
     IN <<Bytes(n), Commands(p.roles[n]), Namespaces(p.roles[n])>>]

ACLUsers(p) ==
  [i \in 1..Cardinality(DOMAIN p.users) |->
     LET n == Sorted(DOMAIN p.users)[i]
     IN <<Bytes(n), Bytes(p.users[n].role), p.users[n].pass # None,
          Commands(RoleFor(p, n)), Namespaces(RoleFor(p, n))>>]

RoleEntryFits(e) == Fits(e[1]) /\ ListFits(e[2]) /\ ListFits(e[3])

EncodeRoleEntry(e) == EncodeString(e[1]) \o EncodeList(e[2]) \o EncodeList(e[3])

EncodeRoleListResponse(es) == Num(2, Len(es)) \o FlattenSeq([i \in DOMAIN es |-> EncodeRoleEntry(es[i])])

DecodeRoleEntry(pl, pos) == Fields(<<"string", "list", "list">>, pl, pos)

DecodeRoleListResponse(pl) == Whole(DecodeRoleEntry, pl)

ACLUserFits(e) == Fits(e[1]) /\ Fits(e[2]) /\ ListFits(e[4]) /\ ListFits(e[5])

EncodeACLUser(e) ==
  EncodeString(e[1]) \o EncodeString(e[2]) \o Flag(e[3]) \o EncodeList(e[4]) \o EncodeList(e[5])

EncodeACLListResponse(es) == Num(2, Len(es)) \o FlattenSeq([i \in DOMAIN es |-> EncodeACLUser(es[i])])

DecodeACLUser_FlagFirst(pl, pos) == Fields(<<"string", "flag", "string", "list", "list">>, pl, pos)

DecodeACLUser(pl, pos) == Fields(<<"string", "string", "flag", "list", "list">>, pl, pos)

DecodeACLListResponse(pl) == Whole(DecodeACLUser, pl)

\* ROLE GETUSER does not check the length of the role's name.
EncodeRoleGetUserResponse(role, hasPass) ==
  Num(2, Len(role) % (MaxUint16 + 1)) \o role \o Flag(hasPass)

DecodeRoleGetUserResponse(pl) ==
  IF Len(pl) < 3 THEN Fail
  ELSE LET n == At(pl, 0, 2)
       IN IF 2 + n + 1 # Len(pl) THEN Fail
          ELSE Good(<<SubSeq(pl, 3, 2 + n), pl[3 + n].val = 1>>, Len(pl))

ACLLogFits(es) == \A i \in DOMAIN es : \A j \in 1..4 : Fits(es[i][j])

EncodeACLLogResponse(es) ==
  Num(2, Len(es)) \o FlattenSeq([i \in DOMAIN es |-> FlattenSeq([j \in 1..4 |-> EncodeString(es[i][j])])])

DecodeACLLogEntry(pl, pos) == Fields(<<"string", "string", "string", "string">>, pl, pos)

DecodeACLLogResponse(pl) == Whole(DecodeACLLogEntry, pl)

-----------------------------------------------------------------------------
(* What the server does with the arguments of a ROLE or ACL request: the   *)
(* mutation it asks the store for.  On RESP the command and the subcommand *)
(* come before them.                                                       *)

OptionOK(o) == o = Bytes("nopass") \/ (Len(o) > 1 /\ o[1] = Char(">"))

\* The options are applied from left to right; no password is no bytes.
PasswordFromOpts(opts) ==
  IF \E i \in DOMAIN opts : ~OptionOK(opts[i]) THEN Fail
  ELSE LET o == opts[Len(opts)]
       IN Good(IF o = Bytes("nopass") THEN <<>> ELSE Tail(o), 0)

Received(op, args) ==
  CASE op = "CREATE" /\ Len(args) >= 2 -> Good([name |-> args[1], rules |-> Tail(args)], 0)
    [] op = "SETUSER" /\ Len(args) >= 3 ->
         LET pass == PasswordFromOpts(SubSeq(args, 3, Len(args)))
         IN IF pass.ok THEN Good([name |-> args[1], role |-> args[2], pass |-> pass.val], 0) ELSE Fail
    [] op \in {"DELUSER", "DELETE"} /\ Len(args) = 1 -> Good([name |-> args[1]], 0)
    [] OTHER -> Fail

\* A RESP command: the family, the subcommand, and the same arguments.
RespReceived(args) ==
  IF Len(args) < 2 \/ (args[1] = Bytes("ACL") /\ args[2][1].chr \notin {"SETUSER", "DELUSER"})
  THEN Fail
  ELSE Received(args[2][1].chr, SubSeq(args, 3, Len(args)))

\* The payload of a binary AUTH.
EncodeAuth(user, pass) == EncodeString(user) \o EncodeString(pass)

ParseAuthPayload(pl) ==
  LET r == Fields(<<"string", "string">>, pl, 0) IN IF r.ok THEN Good(r.val, 0) ELSE Fail

-----------------------------------------------------------------------------
(* Binary frames: [4B length][1B type][payload]; the payload of a request  *)
(* is [1B op][2B key length][8B ttl][key][value].                          *)

\* The ttl is a signed number, sent as an unsigned one.
Unsigned(n) == IF n < 0 THEN n + Radix^8 ELSE n

Signed(n) == IF n >= Radix^8 \div 2 THEN n - Radix^8 ELSE n

RequestPayload(m) ==
  <<Char(m.op)>> \o Num(2, Len(m.key)) \o Num(8, Unsigned(m.ttl)) \o m.key \o m.value

Marshal(type, payload) == Num(4, 1 + Len(payload)) \o <<Char(type)>> \o payload

\* Decode and Read take a request apart alike; a payload that is too short for
\* its header or its key is malformed.
ParsePayload(type, pl) ==
  IF type # "request" THEN [err |-> None, type |-> type, value |-> pl]
  ELSE IF Len(pl) < 11 \/ Len(pl) < 11 + At(pl, 1, 2) THEN [err |-> "malformed"]
  ELSE LET n == At(pl, 1, 2)
       IN [err |-> None, type |-> type,
           value |-> [op |-> pl[1].chr, ttl |-> Signed(At(pl, 3, 8)),
                      key |-> SubSeq(pl, 12, 11 + n), value |-> SubSeq(pl, 12 + n, Len(pl))]]

Decode_RestOfBuffer(data, maxMsgSize) ==
  IF Len(data) < 5 THEN [err |-> "short"]
  ELSE LET length == At(data, 0, 4)
       IN CASE length = 0          -> [err |-> "zero"]
            [] length > maxMsgSize -> [err |-> "too long"]
            [] Len(data) < length + 4 -> [err |-> "short"]
            [] OTHER -> IF length = 1 THEN [err |-> None, type |-> data[5].chr, value |-> <<>>]
                        ELSE ParsePayload(data[5].chr, SubSeq(data, 6, Len(data)))

\* A frame without a payload is decoded without looking into it.
Decode(data, maxMsgSize) ==
  IF Len(data) < 5 THEN [err |-> "short"]
  ELSE LET length == At(data, 0, 4)
       IN CASE length = 0          -> [err |-> "zero"]
            [] length > maxMsgSize -> [err |-> "too long"]
            [] Len(data) < length + 4 -> [err |-> "short"]
            [] OTHER -> IF length = 1 THEN [err |-> None, type |-> data[5].chr, value |-> <<>>]
                        ELSE ParsePayload(data[5].chr, SubSeq(data, 6, 4 + length))

-----------------------------------------------------------------------------
(* RESP requests: *n, then $length and the argument, each line ended.      *)

Line(mark, n) == <<Char(mark), Digit(n), Char("CR"), Char("LF")>>

RespCommand(args) ==
  Line("*", Len(args))
    \o FlattenSeq([i \in DOMAIN args |->
                     Line("$", Len(args[i])) \o args[i] \o <<Char("CR"), Char("LF")>>])

\* parseLine at pos; the text of a number is one cell here.
ParseLine(buf, pos) ==
  IF pos + 3 > Len(buf) THEN [Fail EXCEPT !.val = "incomplete"]
  ELSE IF buf[pos + 2].chr # "CR" \/ buf[pos + 3].chr # "LF" THEN [Fail EXCEPT !.val = "protocol"]
  ELSE Good(buf[pos + 1].val, pos + 3)

RECURSIVE ParseArgs(_, _, _)
ParseArgs(buf, pos, n) ==
  IF n = 0 THEN Good(<<>>, pos)
  ELSE IF pos >= Len(buf) THEN [Fail EXCEPT !.val = "incomplete"]
  ELSE IF buf[pos + 1].chr # "$" THEN [Fail EXCEPT !.val = "protocol"]
  ELSE LET line == ParseLine(buf, pos + 1)
           end  == line.pos + line.val
       IN IF ~line.ok THEN line
          ELSE IF end + 2 > Len(buf) THEN [Fail EXCEPT !.val = "incomplete"]
          ELSE IF buf[end + 1].chr # "CR" \/ buf[end + 2].chr # "LF" THEN [Fail EXCEPT !.val = "protocol"]
          ELSE LET rest == ParseArgs(buf, end + 2, n - 1)
               IN IF ~rest.ok THEN rest
                  ELSE Good(<<SubSeq(buf, line.pos + 1, end)>> \o rest.val, rest.pos)

Parse(buf) ==
  IF buf = <<>> THEN [Fail EXCEPT !.val = "incomplete"]
  ELSE IF buf[1].chr # "*" THEN [Fail EXCEPT !.val = "protocol"]
  ELSE LET line == ParseLine(buf, 1)
       IN IF ~line.ok THEN line ELSE ParseArgs(buf, line.pos, line.val)

-----------------------------------------------------------------------------
(* RESP replies.                                                           *)

AppendArray(n) == <<[type |-> "array", n |-> n]>>

\* AppendBulk, AppendNullBulk, AppendInt, AppendSimpleString, AppendError.
Leaf(type) == <<[type |-> type]>>

Leaves(type, n) == [i \in 1..n |-> [type |-> type]]

\* A client that reads one reply expects one value; an element takes one off
\* what is missing, and an array header adds its length.  Over the elements a
\* to b: the change in total, and its lowest point.
RECURSIVE Balance(_, _, _)
Balance(els, a, b) ==
  IF a = b THEN LET d == IF els[a].type = "array" THEN els[a].n - 1 ELSE -1
                IN [sum |-> d, low |-> d]
  ELSE LET mid == (a + b) \div 2
           l   == Balance(els, a, mid)
           r   == Balance(els, mid + 1, b)
       IN [sum |-> l.sum + r.sum, low |-> Min({l.low, l.sum + r.low})]

\* Nothing is missing after the last element, and something before it.
OneValue(els) ==
  /\ els # <<>>
  /\ Balance(els, 1, Len(els)).sum = -1
  /\ Len(els) > 1 => Balance(els, 1, Len(els) - 1).low >= 0

RoleCommands(role) ==
  IF role = None THEN AppendArray(0)
  ELSE AppendArray(Cardinality(role.cmds)) \o Leaves("bulk", Cardinality(role.cmds))

RoleNamespaces(role) ==
  IF role = None THEN AppendArray(0)
  ELSE AppendArray(Cardinality(role.keys)) \o Leaves("bulk", Cardinality(role.keys))

\* The entries of a reply, one per element of S.
Each(S, One(_)) == LET seq == Sorted(S) IN FlattenSeq([i \in DOMAIN seq |-> One(seq[i])])

RespRoleList(p) ==
  LET One(n) == Leaf("bulk") \o RoleCommands(p.roles[n]) \o RoleNamespaces(p.roles[n])
  IN AppendArray(Cardinality(DOMAIN p.roles)) \o Each(DOMAIN p.roles, One)

RoleName(u) == Leaf(IF u.role = None THEN "null" ELSE "bulk")

RespRoleGetUser(p, n) ==
  IF n \notin DOMAIN p.users THEN Leaf("error")
  ELSE AppendArray(3) \o Leaf("bulk") \o RoleName(p.users[n]) \o Leaf("int")

RespACLList(p) ==
  LET One(n) == AppendArray(5) \o Leaf("bulk") \o RoleName(p.users[n]) \o Leaf("int")
                  \o RoleCommands(RoleFor(p, n)) \o RoleNamespaces(RoleFor(p, n))
  IN AppendArray(Cardinality(DOMAIN p.users)) \o Each(DOMAIN p.users, One)
=============================================================================

------------------------------ MODULE RbacWire ------------------------------
(***************************************************************************)
(* Rbac and its wire formats together: what clients are told about the     *)
(* policies that become active, and how their requests reach the store.    *)
(***************************************************************************)
EXTENDS Rbac, CommandTable

CONSTANTS
  NameQueries,  \* what COMMAND INFO and COMMAND DOCS are asked about
  Filters,      \* of COMMAND LIST
  Requests,     \* data requests [op, ttl, key, value] of the binary protocol
  LogEntries    \* entries of ACL LOG: <<timestamp, user, address, reason>>

\* Replies depend on the active policy alone.  Every connection may close at
\* any time, so each policy that becomes active is looked at in a state
\* without connections.
Quiet == \A c \in Conns : conn[c] = Down /\ job[c] = None

StrictPrefixes(s) == {SubSeq(s, 1, i) : i \in 0..Len(s) - 1}

\* The arguments of a mutation as the client sends them.
RuleText(r) == Bytes(r.op) \o (IF r.op = "~" THEN Text(r.arg) ELSE Bytes(r.arg))

Args(m) ==
  CASE m.op = "CREATE"  -> <<Bytes(m.name)>> \o [i \in 1..Cardinality(m.rules) |-> RuleText(Sorted(m.rules)[i])]
    [] m.op = "SETUSER" -> <<Bytes(m.name), Bytes(m.role), 
                               IF m.pass = None THEN Bytes("nopass") ELSE <<Char(">")>> \o Bytes(m.pass)>>
    [] OTHER            -> <<Bytes(m.name)>>

\* roleRequestPayload: no key, no ttl, the arguments as the value.
RoleRequest(m) == [op |-> m.op, ttl |-> 0, key |-> <<>>, value |-> EncodeList(Args(m))]

\* What it asks for.
Meant(m) ==
  CASE m.op = "CREATE"  -> [name |-> Bytes(m.name), rules |-> Tail(Args(m))]
    [] m.op = "SETUSER" -> [name |-> Bytes(m.name), role |-> Bytes(m.role), pass |-> Bytes(m.pass)]
    [] OTHER            -> [name |-> Bytes(m.name)]

Sendable == {m \in Mutations : ListFits(Args(m))}

MaxMsgSize == Radix^4 - 1

-----------------------------------------------------------------------------
\* A RESP reply is one value, however many users and roles it is about, so that
\* the reply to the next command starts where it ends: ROLE GETUSER, ACL LIST,
\* and the COMMAND family, whose DOCS are counted in one pass and rendered in
\* another.
RespFramed ==
  Quiet =>
    /\ OneValue(RespACLList(active))
    /\ \A u \in DOMAIN active.users \cup {"nobody"} : OneValue(RespRoleGetUser(active, u))
    /\ changes = 0 =>
         /\ OneValue(CommandCount) /\ OneValue(CommandHelp)
         /\ \A qs \in NameQueries : OneValue(CommandInfo(qs)) /\ OneValue(CommandDocs(qs))
         /\ \A f \in Filters : OneValue(CommandList(f))

\* A binary client reads from ROLE LIST, ACL LIST, ACL LOG and ROLE GETUSER what
\* the policy says, and never takes a truncated reply for a whole one.  A list
\* with a name too long for its length prefix is refused by the server; GETUSER
\* has no such check, and is claimed for names that fit.
BinaryReplies ==
  Quiet =>
    /\ LET es == RoleEntries(active)
           pl == EncodeRoleListResponse(es)
       IN (\A i \in DOMAIN es : RoleEntryFits(es[i])) =>
            /\ DecodeRoleListResponse(pl) = Good(es, Len(pl))
            /\ \A cut \in StrictPrefixes(pl) : ~DecodeRoleListResponse(cut).ok
    /\ LET es == ACLUsers(active)
           pl == EncodeACLListResponse(es)
       IN (\A i \in DOMAIN es : ACLUserFits(es[i])) =>
            /\ DecodeACLListResponse(pl) = Good(es, Len(pl))
            /\ \A cut \in StrictPrefixes(pl) : ~DecodeACLListResponse(cut).ok
    /\ changes = 0 => \A n \in 0..Len(LogEntries) :
         LET es == SubSeq(LogEntries, 1, n)
             pl == EncodeACLLogResponse(es)
         IN ACLLogFits(es) =>
              /\ DecodeACLLogResponse(pl) = Good(es, Len(pl))
              /\ \A cut \in StrictPrefixes(pl) : ~DecodeACLLogResponse(cut).ok
    /\ \A n \in DOMAIN active.users :
         LET u  == active.users[n]
             pl == EncodeRoleGetUserResponse(Bytes(u.role), u.pass # None)
         IN Fits(Bytes(u.role)) =>
              /\ DecodeRoleGetUserResponse(pl) = Good(<<Bytes(u.role), u.pass # None>>, Len(pl))
              /\ \A cut \in StrictPrefixes(pl) : ~DecodeRoleGetUserResponse(cut).ok

\* The server acts on a request exactly when all of it has arrived, and then on
\* the request the client sent, whatever follows it in the buffer: binary data,
\* ROLE and AUTH requests (negative ttl included), and RESP commands.  A client
\* does not send an argument that is too long for its prefix (EncodeRoleArgs).
RequestsArrive ==
  Quiet /\ changes = 0 =>
    /\ \A r \in Requests \cup {RoleRequest(m) : m \in Sendable} :
         LET frame == Marshal("request", RequestPayload(r))
         IN /\ \A cut \in StrictPrefixes(frame) : Decode(cut, MaxMsgSize).err = "short"
            /\ \A next \in {<<>>, frame} :
                 Decode(frame \o next, MaxMsgSize) = [err |-> None, type |-> "request", value |-> r]
    /\ \A m \in Sendable :
         /\ DecodeRoleArgs(EncodeList(Args(m))) = Good(Args(m), Len(EncodeList(Args(m))))
         /\ \A cut \in StrictPrefixes(EncodeList(Args(m))) : ~DecodeRoleArgs(cut).ok
         /\ Received(m.op, Args(m)) = Good(Meant(m), 0)
    /\ \A u \in {None, "root"}, secret \in Secrets :
         LET pl == EncodeAuth(Bytes(u), Bytes(secret))
         IN /\ ParseAuthPayload(pl) = Good(<<Bytes(u), Bytes(secret)>>, 0)
            /\ \A cut \in StrictPrefixes(pl) : ~ParseAuthPayload(cut).ok
    /\ \A m \in Mutations : \A family \in Needs(m) :
         LET args == <<Bytes(family), Bytes(m.op)>> \o Args(m)
             cmd  == RespCommand(args)
         IN /\ \A cut \in StrictPrefixes(cmd) : Parse(cut).val = "incomplete"
            /\ \A next \in {<<>>, cmd} : Parse(cmd \o next) = Good(args, Len(cmd))
            /\ RespReceived(args) = Good(Meant(m), 0)

\* ROLE LIST answers with one value, "for each role its name, granted commands,
\* and namespace whitelist" (roleList in resp/role.go).
RoleListFramed == Quiet => OneValue(RespRoleList(active))
=============================================================================

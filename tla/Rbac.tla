-------------------------------- MODULE Rbac --------------------------------
(***************************************************************************)
(* The policy store shared by both front ends, and the sessions pinned to  *)
(* connections (internal/rbac, and its callers in internal/resp,           *)
(* internal/network, internal/command and server).                         *)
(*                                                                         *)
(* Readers load the active policy without a lock and keep what they found; *)
(* mutations clone it and publish the clone under Store.mu; a SIGHUP reads *)
(* the policy file, and publishes it under the same mutex.  One step is    *)
(* what a goroutine does between two points where another can interfere:   *)
(* the load of the active policy, taking mu, publishing.                   *)
(*                                                                         *)
(* The queue of AUTH jobs, the limit on failed attempts and the order of   *)
(* the replies are those of FrontEnd.  Here a job is on its way, and then  *)
(* its result is delivered.                                                *)
(***************************************************************************)
EXTENDS Policy

CONSTANTS
  RespConns, BinaryConns,  \* connections of the two front ends
  Files,                   \* what the policy file may hold
  Mutations,               \* requests that change the policy
  Secrets,                 \* passwords clients present
  Tokens,                  \* bearer tokens: [subject, claims]
  DataCmds,                \* data commands that are tried: of GET, SET, DEL
  Keys,                    \* keys of the data commands
  MaxChanges               \* bound on mutations and reloads

Conns == RespConns \cup BinaryConns

ASSUME RbacAssumption ==
  /\ None \notin Conns /\ None \notin Mutations
  /\ \A m \in Mutations : m.op \in {"CREATE", "SETUSER", "DELUSER", "DELETE"}

VARIABLES
  active,   \* Store.active
  mu,       \* Store.mu: the connection whose request holds it, or None
  draft,    \* the clone the holder of mu is about to publish
  loaded,   \* the policy the SIGHUP goroutine has parsed and not yet stored
  conn,     \* the connections: [up, sess], sess pinned or None
  job,      \* the AUTH in flight of a connection, or None
  admin,    \* the mutation a connection's event loop is executing, or None
  last,     \* the data command just run: [conn, cmd, touched], else None
  since,    \* history: the policies active since the AUTH was dispatched
  changes   \* counts towards MaxChanges

store == <<active, mu, draft, loaded>>
vars == <<active, mu, draft, loaded, conn, job, admin, last, since, changes>>

NewSession(u, role) == [user |-> u, role |-> role]

Down == [up |-> FALSE, sess |-> None]

Init ==
  /\ \E f \in Files : FileOK(f) /\ active = Build(f)
  /\ mu = None /\ draft = None /\ loaded = None
  /\ conn = [c \in Conns |-> Down]
  /\ job = [c \in Conns |-> None]
  /\ admin = [c \in Conns |-> None]
  /\ last = None
  /\ since = [c \in Conns |-> {}]
  /\ changes = 0

\* The connection's event loop is free to take its next frame.
Idle(c) == conn[c].up /\ job[c] = None /\ admin[c] = None

-----------------------------------------------------------------------------
(* Connections and authentication.                                         *)

\* A RESP connection starts as the nopass default user if there is one.
Open(c) ==
  /\ ~conn[c].up /\ job[c] = None /\ admin[c] = None
  /\ conn' = [conn EXCEPT ![c] =
       [up   |-> TRUE,
        sess |-> IF c \in RespConns /\ NoPassDefault(active)
                 THEN NewSession("default", RoleFor(active, "default"))
                 ELSE None]]
  /\ last' = None
  /\ UNCHANGED <<store, job, admin, since, changes>>

\* A request in the hands of a worker survives the connection; its result
\* is dropped when it comes (Deliver).
Close(c) ==
  /\ conn[c].up /\ admin[c] = None
  /\ conn' = [conn EXCEPT ![c] = Down]
  /\ last' = None
  /\ UNCHANGED <<store, job, admin, since, changes>>

\* AUTH with a user name.  Hash and session are taken from one snapshot.  An
\* unknown user fails and changes nothing; on RESP a nopass user is accepted
\* on the spot.
AuthUser(c, u, secret) ==
  /\ Idle(c)
  /\ u \in DOMAIN active.users
  /\ LET hash == active.users[u].pass
         sess == NewSession(u, RoleFor(active, u))
     IN \/ /\ c \in RespConns /\ hash = None
           /\ conn' = [conn EXCEPT ![c].sess = sess]
           /\ UNCHANGED <<job, since>>
        \/ /\ c \in BinaryConns \/ hash # None
           /\ job' = [job EXCEPT ![c] = [kind |-> "password", hash |-> hash,
                                         secret |-> secret, sess |-> sess, done |-> TRUE]]
           /\ since' = [since EXCEPT ![c] = {active}]
           /\ UNCHANGED conn
  /\ last' = None
  /\ UNCHANGED <<store, admin, changes>>

\* AUTH with a bearer token.
AuthToken(c, t) ==
  /\ Idle(c)
  /\ job' = [job EXCEPT ![c] = [kind |-> "token", token |-> t, sess |-> None, done |-> FALSE]]
  /\ since' = [since EXCEPT ![c] = {active}]
  /\ last' = None
  /\ UNCHANGED <<store, conn, admin, changes>>

\* ResolveOAuthToken once the provider has answered (external: it may verify
\* the token or fail): the policy is loaded after the verification, and the
\* identity is the subject of the token.
ResolveOAuthToken(c, verified) ==
  /\ job[c] # None /\ ~job[c].done
  /\ LET t    == job[c].token
         role == IF verified THEN RoleForClaims(active, t.claims) ELSE None
         sess == IF role = None THEN None ELSE NewSession(t.subject, role)
     IN job' = [job EXCEPT ![c] = [kind |-> "token", token |-> t, sess |-> sess, done |-> TRUE]]
  /\ last' = None
  /\ UNCHANGED <<store, conn, admin, since, changes>>

AuthSucceeds(j) ==
  IF j.kind = "token" THEN j.sess # None ELSE j.hash = None \/ j.hash = j.secret

Deliver_FreshRole(c) ==
  /\ job[c] # None /\ job[c].done
  /\ conn' = IF conn[c].up /\ AuthSucceeds(job[c])
             THEN [conn EXCEPT ![c].sess = IF job[c].kind = "token" THEN job[c].sess
                                           ELSE NewSession(job[c].sess.user, RoleFor(active, job[c].sess.user))]
             ELSE conn
  /\ job' = [job EXCEPT ![c] = None]
  /\ since' = [since EXCEPT ![c] = {}]
  /\ last' = None
  /\ UNCHANGED <<store, admin, changes>>

\* The worker wakes the connection up with the result.  A failed AUTH leaves
\* the session of the connection as it was.
Deliver(c) ==
  /\ job[c] # None /\ job[c].done
  /\ conn' = IF conn[c].up /\ AuthSucceeds(job[c])
             THEN [conn EXCEPT ![c].sess = job[c].sess] ELSE conn
  /\ job' = [job EXCEPT ![c] = None]
  /\ since' = [since EXCEPT ![c] = {}]
  /\ last' = None
  /\ UNCHANGED <<store, admin, changes>>

-----------------------------------------------------------------------------
(* Commands.                                                               *)

AllowsCommand(s, cmd) == s # None /\ Grants(s.role, cmd)

IsAllowed(s, cmd, key) == AllowsCommand(s, cmd) /\ AllowsKey(s.role, key)

Denied_OneKey(s, cmd, keys) == ~IsAllowed(s, cmd, CHOOSE k \in keys : TRUE)

\* Execute of a data command: every key is checked before the handler runs.
Denied(s, cmd, keys) == \E k \in keys : ~IsAllowed(s, cmd, k)

Touched(s, cmd, keys) == IF Denied(s, cmd, keys) THEN {} ELSE keys

Execute(c, cmd, keys) ==
  /\ Idle(c) /\ conn[c].sess # None
  /\ Cardinality(keys) > 1 => cmd = "DEL" /\ c \in RespConns
  /\ LET t == Touched(conn[c].sess, cmd, keys)
     IN last' = IF t = {} THEN None ELSE [conn |-> c, cmd |-> cmd, touched |-> t]
  /\ UNCHANGED <<store, conn, job, admin, since, changes>>

\* The permission a mutation needs: the ROLE and the ACL family both have
\* SETUSER and DELUSER.
Needs(m) == IF m.op \in {"CREATE", "DELETE"} THEN {"ROLE"} ELSE {"ROLE", "ACL"}

MayRun(c, cmds) == \E cmd \in cmds : AllowsCommand(conn[c].sess, cmd)

\* A ROLE or ACL request that changes the policy passes the gate; rules are
\* parsed before mu is taken.
Begin(c, m) ==
  /\ Idle(c) /\ MayRun(c, Needs(m))
  /\ changes < MaxChanges /\ changes' = changes + 1
  /\ m.op = "CREATE" => RulesOK(m.rules)
  /\ admin' = [admin EXCEPT ![c] = m]
  /\ last' = None
  /\ UNCHANGED <<store, conn, job, since>>

\* It takes mu, and loads, checks and clones the active policy.  A refusal
\* gives mu back.
Lock(c) ==
  /\ admin[c] # None /\ mu = None
  /\ IF Accepted(active, admin[c])
     THEN /\ mu' = c /\ draft' = Result(active, admin[c])
          /\ UNCHANGED admin
     ELSE /\ admin' = [admin EXCEPT ![c] = None]
          /\ UNCHANGED <<mu, draft>>
  /\ last' = None
  /\ UNCHANGED <<active, loaded, conn, job, since, changes>>

\* A policy becomes the active one; AUTHs in flight may see it.
Store(p) ==
  /\ active' = p
  /\ since' = [c \in Conns |-> IF job[c] = None THEN since[c] ELSE since[c] \cup {p}]

Publish(c) ==
  /\ mu = c
  /\ Store(draft)
  /\ mu' = None /\ draft' = None
  /\ admin' = [admin EXCEPT ![c] = None]
  /\ last' = None
  /\ UNCHANGED <<loaded, conn, job, changes>>

-----------------------------------------------------------------------------
(* The policy file and SIGHUP.                                             *)

\* reloadRBAC finds the file as the operator left it; one that does not parse
\* is rejected.  One goroutine serves the signals one after the other.
Hup(f) ==
  /\ loaded = None /\ FileOK(f)
  /\ changes < MaxChanges /\ changes' = changes + 1
  /\ loaded' = Build(f)
  /\ last' = None
  /\ UNCHANGED <<active, mu, draft, conn, job, admin, since>>

Reload_Unlocked ==
  /\ loaded # None
  /\ Store(loaded)
  /\ loaded' = None
  /\ last' = None
  /\ UNCHANGED <<mu, draft, conn, job, admin, changes>>

Reload ==
  /\ loaded # None /\ mu = None
  /\ Store(loaded)
  /\ loaded' = None
  /\ last' = None
  /\ UNCHANGED <<mu, draft, conn, job, admin, changes>>

Next ==
  \/ \E c \in Conns :
       \/ Open(c) \/ Close(c)
       \/ \E u \in DOMAIN active.users, s \in Secrets : AuthUser(c, u, s)
       \/ \E t \in Tokens : AuthToken(c, t)
       \/ \E verified \in BOOLEAN : ResolveOAuthToken(c, verified)
       \/ Deliver(c)
       \/ \E cmd \in DataCmds, ks \in SUBSET Keys \ {{}} : Execute(c, cmd, ks)
       \/ \E m \in Mutations : Begin(c, m)
       \/ Lock(c) \/ Publish(c)
  \/ \E f \in Files : Hup(f)
  \/ Reload

Spec == Init /\ [][Next]_vars

-----------------------------------------------------------------------------
(* Properties.                                                             *)

\* Every mutation and every reload takes effect atomically: Reload "can never
\* land between a mutation's clone and its republish" (policy.go), and "two
\* concurrent ROLE commands cannot overwrite each other's changes".
Atomic == INSTANCE AtomicPolicy

IsAtomicPolicy == Atomic!Spec

HasAdmin(p) == \E u \in DOMAIN p.users : Grants(RoleFor(p, u), "ACL")

\* DELUSER never takes the last user away whose effective role grants ACL, no
\* matter which other requests and reloads it is interleaved with.
AdminKept ==
  [][\A c \in Conns :
       mu = c /\ mu' = None /\ admin[c].op = "DELUSER" /\ HasAdmin(active) => HasAdmin(active')]_vars

\* The session an AUTH pins comes from one policy that was active between the
\* dispatch of the AUTH and its reply: the same policy had the password that
\* was presented and the role that was pinned (authRBAC: "the session is built
\* from the same snapshot that yielded the hash"), or mapped the claims of the
\* token to it.
PinnedFromSnapshot ==
  [][\A c \in Conns :
       job[c] # None /\ job'[c] = None /\ conn'[c] # conn[c] =>
         \E p \in since[c] :
            IF job[c].kind = "token"
            THEN conn'[c].sess.role = RoleForClaims(p, job[c].token.claims)
            ELSE LET u == conn'[c].sess.user
                 IN /\ u \in DOMAIN p.users
                    /\ p.users[u].pass \in {None, job[c].secret}
                    /\ conn'[c].sess.role = RoleFor(p, u)]_vars

\* The fallback of users without a role is a role of the policy: DeleteRole
\* drops it together with the role, "otherwise RoleFor keeps resolving
\* unassigned users to a role that no longer exists" (manager.go).
DefaultIsARole ==
  active.default # None =>
    \E n \in DOMAIN active.roles : active.roles[n] = active.default

\* A key is touched only by a command the session may run on this key: Execute
\* checks all keys of a DEL before the handler deletes the first.
TouchedAllowed ==
  last # None =>
    \A k \in last.touched : IsAllowed(conn[last.conn].sess, last.cmd, k)
=============================================================================

---------------------------- MODULE Rbac_proofs ----------------------------
(***************************************************************************)
(* The properties of the policy store and of sessions, for any policies,   *)
(* connections, requests and reloads.                                      *)
(***************************************************************************)
EXTENDS Rbac, TLAPS

DefaultOK(p) ==
  p.default # None => \E n \in DOMAIN p.roles : p.roles[n] = p.default

IsPolicy(p) ==
  p = [roles |-> p.roles, users |-> p.users, default |-> p.default, rules |-> p.rules]

PolicyOK(p) == IsPolicy(p) /\ DefaultOK(p)

(* While a request holds mu, the clone it is about to publish is what it   *)
(* makes of the policy that is still active: nobody else stores meanwhile. *)
LockInv ==
  mu # None =>
    /\ mu \in Conns /\ admin[mu] \in Mutations
    /\ Accepted(active, admin[mu]) /\ draft = Result(active, admin[mu])

FileInv == loaded # None => \E f \in Files : FileOK(f) /\ loaded = Build(f)

AdminInv ==
  /\ admin = [c \in Conns |-> admin[c]]
  /\ \A c \in Conns : admin[c] \in Mutations \cup {None}

StoreInv == PolicyOK(active) /\ LockInv /\ FileInv /\ AdminInv

-----------------------------------------------------------------------------
(* The operations on policies.                                             *)

(* A file that parses describes a policy whose default role is among its   *)
(* roles.                                                                  *)
LEMMA BuildOK ==
  ASSUME NEW f, FileOK(f)
  PROVE  PolicyOK(Build(f))
<1>1. IsPolicy(Build(f))
  BY DEF IsPolicy, Build
<1>2. f.default # None => f.default \in Names(f.roles)
  BY DEF FileOK, Named, Names
<1>3. DefaultOK(Build(f))
  <2> DEFINE roles == [n \in Names(f.roles) |-> ParseRole(n, Entry(f.roles, n).rules)]
  <2>1. Build(f).roles = roles /\ Build(f).default = IF f.default = None THEN None ELSE roles[f.default]
    BY DEF Build
  <2>2. DOMAIN roles = Names(f.roles)
    OBVIOUS
  <2> HIDE DEF roles
  <2>3. QED
    BY <1>2, <2>1, <2>2 DEF DefaultOK
<1>4. QED
  BY <1>1, <1>3 DEF PolicyOK

(* An accepted mutation keeps the default among the roles: CREATE never    *)
(* replaces a role, and DELETE drops the default with its role.            *)
LEMMA ResultOK ==
  ASSUME NEW p, PolicyOK(p), NEW m \in Mutations, Accepted(p, m)
  PROVE  PolicyOK(Result(p, m))
<1> DEFINE q == Result(p, m)
<1>1. CASE m.op = "CREATE"
  <2>1. q = [p EXCEPT !.roles = With(@, m.name, ParseRole(m.name, m.rules))]
    BY <1>1 DEF Result
  <2>2. m.name \notin DOMAIN p.roles
    BY <1>1 DEF Accepted
  <2>3. IsPolicy(q) /\ q.default = p.default
        /\ q.roles = With(p.roles, m.name, ParseRole(m.name, m.rules))
    BY <2>1 DEF PolicyOK, IsPolicy
  <2>4. \A n \in DOMAIN p.roles : n \in DOMAIN q.roles /\ q.roles[n] = p.roles[n]
    BY <2>2, <2>3 DEF With
  <2>5. QED
    BY <2>3, <2>4 DEF PolicyOK, DefaultOK
<1>2. CASE m.op \in {"SETUSER", "DELUSER"}
  <2>1. q = [p EXCEPT !.users = q.users]
    BY <1>2 DEF Result, PolicyOK, IsPolicy
  <2>2. IsPolicy(q) /\ q.default = p.default /\ q.roles = p.roles
    BY <2>1 DEF PolicyOK, IsPolicy
  <2>3. QED
    BY <2>2 DEF PolicyOK, DefaultOK
<1>3. CASE m.op = "DELETE"
  <2>1. q = [p EXCEPT !.roles = Without(@, m.name),
                      !.default = IF @ = p.roles[m.name] THEN None ELSE @]
    BY <1>3 DEF Result
  <2>2. IsPolicy(q) /\ q.roles = Without(p.roles, m.name)
        /\ q.default = IF p.default = p.roles[m.name] THEN None ELSE p.default
    BY <2>1, Zenon DEF PolicyOK, IsPolicy
  <2>3. \A n \in DOMAIN p.roles \ {m.name} : n \in DOMAIN q.roles /\ q.roles[n] = p.roles[n]
    BY <2>2 DEF Without
  <2>4. QED
    BY <2>2, <2>3 DEF PolicyOK, DefaultOK
<1>4. QED
  BY <1>1, <1>2, <1>3, RbacAssumption

(* A DELUSER that is accepted leaves an administrator if there was one.    *)
LEMMA DelUserKeepsAdmin ==
  ASSUME NEW p, IsPolicy(p), NEW m, m.op = "DELUSER", Accepted(p, m), HasAdmin(p)
  PROVE  HasAdmin(Result(p, m))
<1> DEFINE q == Result(p, m)
<1>1. q.users = Without(p.users, m.name) /\ q.roles = p.roles /\ q.default = p.default
  BY DEF Result, IsPolicy
<1>2. PICK v \in DOMAIN p.users \ {m.name} : Grants(RoleFor(p, v), "ACL")
  <2>1. m.name \in DOMAIN p.users /\ (Grants(RoleFor(p, m.name), "ACL") => HasOtherAdmin(p, m.name))
    BY DEF Accepted
  <2>2. QED
    BY <2>1 DEF HasAdmin, HasOtherAdmin
<1>3. v \in DOMAIN q.users /\ q.users[v] = p.users[v]
  BY <1>1, <1>2 DEF Without
<1>4. RoleFor(q, v) = RoleFor(p, v)
  BY <1>1, <1>2, <1>3 DEF RoleFor
<1>5. QED
  BY <1>2, <1>3, <1>4 DEF HasAdmin

-----------------------------------------------------------------------------
(* The store.                                                              *)

(* Steps that leave the store and the requests under way alone.            *)
LEMMA OtherSteps ==
  ASSUME NEW c \in Conns, NEW u, NEW s, NEW t, NEW v, NEW cmd, NEW ks,
         \/ Open(c) \/ Close(c) \/ AuthUser(c, u, s) \/ AuthToken(c, t)
         \/ ResolveOAuthToken(c, v) \/ Deliver(c) \/ Execute(c, cmd, ks)
  PROVE  UNCHANGED <<active, mu, draft, loaded, admin>>
  BY DEF Open, Close, AuthUser, AuthToken, ResolveOAuthToken, Deliver, Execute, store

(* A step leaves the active policy alone, or publishes a mutation of it by *)
(* the holder of mu, or a policy that was read from the file.              *)
LEMMA StoreStep ==
  ASSUME StoreInv, [Next]_vars
  PROVE  /\ StoreInv'
         /\ \/ active' = active
            \/ /\ mu \in Conns /\ mu' = None
               /\ \E m \in Mutations : m = admin[mu] /\ Accepted(active, m) /\ active' = Result(active, m)
            \/ \E f \in Files : FileOK(f) /\ active' = Build(f)
         /\ \A c \in Conns : mu = c /\ mu' = None => active' = Result(active, admin[c])
<1> USE RbacAssumption
<1>1. CASE UNCHANGED <<active, mu, draft, loaded, admin>>
  BY <1>1 DEF StoreInv, LockInv, FileInv, AdminInv
<1>2. ASSUME NEW c \in Conns, NEW m \in Mutations, Begin(c, m)
      PROVE  StoreInv' /\ active' = active /\ mu' = mu
  <2>1. mu # c
    BY <1>2 DEF Begin, Idle, StoreInv, LockInv, AdminInv
  <2>2. UNCHANGED <<active, mu, draft, loaded>> /\ admin' = [admin EXCEPT ![c] = m]
    BY <1>2 DEF Begin, store
  <2>3. QED
    BY <2>1, <2>2 DEF StoreInv, LockInv, FileInv, AdminInv
<1>3. ASSUME NEW c \in Conns, Lock(c)
      PROVE  StoreInv' /\ active' = active /\ mu = None
  BY <1>3 DEF Lock, StoreInv, LockInv, FileInv, AdminInv
<1>4. ASSUME NEW c \in Conns, Publish(c)
      PROVE  /\ StoreInv' /\ mu = c /\ mu' = None /\ admin[c] \in Mutations
             /\ Accepted(active, admin[c]) /\ active' = Result(active, admin[c])
  <2>1. mu = c /\ admin[c] \in Mutations /\ Accepted(active, admin[c]) /\ active' = Result(active, admin[c])
    BY <1>4 DEF Publish, Store, StoreInv, LockInv
  <2>2. PolicyOK(active')
    BY <2>1, ResultOK DEF StoreInv
  <2>3. QED
    BY <1>4, <2>1, <2>2 DEF Publish, StoreInv, LockInv, FileInv, AdminInv
<1>5. ASSUME NEW f \in Files, Hup(f)
      PROVE  StoreInv' /\ active' = active /\ mu' = mu
  BY <1>5 DEF Hup, StoreInv, LockInv, FileInv, AdminInv
<1>6. ASSUME Reload
      PROVE  /\ StoreInv' /\ mu = None
             /\ \E f \in Files : FileOK(f) /\ active' = Build(f)
  <2>1. PICK f \in Files : FileOK(f) /\ active' = Build(f)
    BY <1>6 DEF Reload, Store, StoreInv, FileInv
  <2>2. PolicyOK(active')
    BY <2>1, BuildOK
  <2>3. QED
    BY <1>6, <2>1, <2>2 DEF Reload, StoreInv, LockInv, FileInv, AdminInv
<1>7. CASE UNCHANGED vars
  BY <1>1, <1>7 DEF vars
<1>8. QED
  BY <1>1, <1>2, <1>3, <1>4, <1>5, <1>6, <1>7, OtherSteps DEF Next

(* The policy of NewPolicyManager has its default role and its admin.      *)
LEMMA StoreInitially == Init => StoreInv
  BY BuildOK DEF Init, StoreInv, LockInv, FileInv, AdminInv

(* The store is well-formed in every state.                                *)
LEMMA StoreAlways == Spec => []StoreInv
  BY StoreInitially, StoreStep, PTL DEF Spec

(* The role of users without one is a role of the policy, whichever roles  *)
(* are created and deleted and whichever files are loaded.                 *)
THEOREM DefaultExists == Spec => []DefaultIsARole
<1>1. StoreInv => DefaultIsARole
  BY DEF StoreInv, PolicyOK, DefaultOK, DefaultIsARole
<1>2. QED
  BY <1>1, StoreAlways, PTL

(* DELUSER never removes the last administrator, whatever it is            *)
(* interleaved with.                                                       *)
THEOREM LastAdminStays == Spec => AdminKept
<1>1. StoreInv /\ [Next]_vars =>
        [\A c \in Conns : mu = c /\ mu' = None /\ admin[c].op = "DELUSER" /\ HasAdmin(active)
                            => HasAdmin(active')]_vars
  <2> SUFFICES ASSUME StoreInv, [Next]_vars, NEW c \in Conns,
                      mu = c, mu' = None, admin[c].op = "DELUSER", HasAdmin(active)
               PROVE  HasAdmin(active')
    OBVIOUS
  <2>1. active' = Result(active, admin[c])
    BY StoreStep
  <2>2. IsPolicy(active) /\ Accepted(active, admin[c])
    BY RbacAssumption DEF StoreInv, PolicyOK, LockInv
  <2>3. QED
    BY <2>1, <2>2, DelUserKeepsAdmin
<1>2. QED
  BY <1>1, StoreAlways, PTL DEF Spec, AdminKept

(* Mutations and reloads are atomic: the store implements AtomicPolicy.    *)
THEOREM StoreIsAtomic == Spec => IsAtomicPolicy
<1>1. Init => Atomic!Init
  BY DEF Init, Atomic!Init
<1>2. StoreInv /\ [Next]_vars => [Atomic!Next]_active
  BY StoreStep DEF Atomic!Next, Atomic!Mutate, Atomic!Replace
<1>3. QED
  BY <1>1, <1>2, StoreAlways, PTL DEF Spec, IsAtomicPolicy, Atomic!Spec

-----------------------------------------------------------------------------
(* Sessions.                                                               *)

(* A job of AUTH with what it took from one of the policies ps: hash and   *)
(* role of the user, or, once the token is verified, the role of its       *)
(* claims.                                                                 *)
PasswordJob(j, ps) ==
  \E p \in ps : \E u \in DOMAIN p.users : \E s \in Secrets :
    j = [kind |-> "password", hash |-> p.users[u].pass, secret |-> s,
         sess |-> NewSession(u, RoleFor(p, u)), done |-> TRUE]

PendingToken(j) ==
  \E t \in Tokens : j = [kind |-> "token", token |-> t, sess |-> None, done |-> FALSE]

ResolvedToken(j, ps) ==
  \E p \in ps : \E t \in Tokens : \E x \in {None, NewSession(t.subject, RoleForClaims(p, t.claims))} :
    j = [kind |-> "token", token |-> t, sess |-> x, done |-> TRUE]

JobOK(j, ps) == PasswordJob(j, ps) \/ PendingToken(j) \/ ResolvedToken(j, ps)

SessionInv ==
  /\ conn = [c \in Conns |-> [up |-> conn[c].up, sess |-> conn[c].sess]]
  /\ job = [c \in Conns |-> job[c]]
  /\ since = [c \in Conns |-> since[c]]
  /\ \A c \in Conns : job[c] # None => active \in since[c] /\ JobOK(job[c], since[c])

(* Policies that become active while a job is under way take nothing away. *)
LEMMA JobOKMonotone ==
  ASSUME NEW j, NEW ps, NEW qs, ps \subseteq qs, JobOK(j, ps)
  PROVE  JobOK(j, qs)
  BY Zenon DEF JobOK, PasswordJob, ResolvedToken

(* A job for a password, or for a token that was resolved, is done; one    *)
(* for a token that waits is not.                                          *)
LEMMA JobDone ==
  ASSUME NEW j, NEW ps
  PROVE  /\ PasswordJob(j, ps) \/ ResolvedToken(j, ps) => j.done = TRUE
         /\ PendingToken(j) => j.done = FALSE
  BY DEF PasswordJob, ResolvedToken, PendingToken

(* Storing a new policy leaves the sessions that connections have and      *)
(* wait for alone.                                                         *)
LEMMA StoreKeepsSessions ==
  ASSUME SessionInv, NEW p, Store(p), UNCHANGED <<conn, job>>
  PROVE  SessionInv'
<1>1. since' = [c \in Conns |-> since'[c]]
  BY DEF Store
<1>2. ASSUME NEW c \in Conns, job[c] # None
      PROVE  active' \in since'[c] /\ JobOK(job[c], since'[c])
  <2>1. since'[c] = since[c] \cup {p} /\ active' = p
    BY <1>2 DEF Store
  <2>2. JobOK(job[c], since[c]) /\ since[c] \subseteq since'[c]
    BY <1>2, <2>1 DEF SessionInv
  <2>3. QED
    BY <2>1, <2>2, JobOKMonotone
<1>3. QED
  BY <1>1, <1>2 DEF SessionInv

(* AUTH by password pins the new session to the policy that was read.      *)
LEMMA AuthUserKeepsSessions ==
  ASSUME SessionInv, NEW c \in Conns, NEW u \in DOMAIN active.users, NEW s \in Secrets,
         AuthUser(c, u, s)
  PROVE  SessionInv'
<1> DEFINE j == [kind |-> "password", hash |-> active.users[u].pass, secret |-> s,
                 sess |-> NewSession(u, RoleFor(active, u)), done |-> TRUE]
<1>1. active' = active
  BY DEF AuthUser, store
<1>2. CASE UNCHANGED <<job, since>> /\ conn' = [conn EXCEPT ![c].sess = NewSession(u, RoleFor(active, u))]
  BY <1>1, <1>2, SMTT(30) DEF SessionInv
<1>3. CASE /\ job' = [job EXCEPT ![c] = j] /\ since' = [since EXCEPT ![c] = {active}]
           /\ UNCHANGED conn
  <2>1. JobOK(j, {active})
    BY Zenon DEF JobOK, PasswordJob
  <2> HIDE DEF j
  <2>2. QED
    BY <1>1, <1>3, <2>1, Zenon DEF SessionInv
<1>4. QED
  BY <1>2, <1>3 DEF AuthUser

(* AUTH by token does so, too.                                             *)
LEMMA AuthTokenKeepsSessions ==
  ASSUME SessionInv, NEW c \in Conns, NEW t \in Tokens, AuthToken(c, t)
  PROVE  SessionInv'
<1> DEFINE j == [kind |-> "token", token |-> t, sess |-> None, done |-> FALSE]
<1>1. /\ job' = [job EXCEPT ![c] = j] /\ since' = [since EXCEPT ![c] = {active}]
      /\ UNCHANGED <<active, conn>>
  BY DEF AuthToken, store
<1>2. JobOK(j, {active})
  BY Zenon DEF JobOK, PendingToken
<1> HIDE DEF j
<1>3. QED
  BY <1>1, <1>2, Zenon DEF SessionInv

(* A worker maps the claims of a token to a role of the policy of that     *)
(* moment.                                                                 *)
LEMMA ResolveKeepsSessions ==
  ASSUME SessionInv, NEW c \in Conns, NEW verified \in BOOLEAN, ResolveOAuthToken(c, verified)
  PROVE  SessionInv'
<1>1. job[c] # None /\ ~job[c].done /\ UNCHANGED <<active, conn, since>>
  BY DEF ResolveOAuthToken, store
<1>2. active \in since[c] /\ JobOK(job[c], since[c])
  BY <1>1 DEF SessionInv
<1>3. PICK t \in Tokens : job[c] = [kind |-> "token", token |-> t, sess |-> None, done |-> FALSE]
  BY <1>1, <1>2, JobDone, Zenon DEF JobOK, PendingToken
<1> DEFINE role == IF verified THEN RoleForClaims(active, t.claims) ELSE None
           x == IF role = None THEN None ELSE NewSession(t.subject, role)
           j == [kind |-> "token", token |-> t, sess |-> x, done |-> TRUE]
<1>4. job' = [job EXCEPT ![c] = j]
  <2>1. job[c].token = t
    BY <1>3
  <2>2. QED
    BY <2>1 DEF ResolveOAuthToken
<1>5. x \in {None, NewSession(t.subject, RoleForClaims(active, t.claims))}
  OBVIOUS
<1> HIDE DEF x
<1>6. JobOK(j, since[c])
  BY <1>2, <1>5, Zenon DEF JobOK, ResolvedToken
<1> HIDE DEF j
<1>7. QED
  BY <1>1, <1>2, <1>4, <1>6, Zenon DEF SessionInv

(* Every step keeps sessions pinned.                                       *)
LEMMA SessionStep ==
  ASSUME SessionInv, [Next]_vars
  PROVE  SessionInv'
<1>1. CASE UNCHANGED <<active, job, since, conn>>
  BY <1>1 DEF SessionInv
<1>2. ASSUME NEW c \in Conns, Open(c) \/ Close(c) PROVE SessionInv'
  BY <1>2 DEF Open, Close, Down, SessionInv, store
<1>3. ASSUME NEW c \in Conns, Deliver(c) PROVE SessionInv'
  <2>1. active' = active /\ since' = [since EXCEPT ![c] = {}] /\ job' = [job EXCEPT ![c] = None]
    BY <1>3 DEF Deliver, store
  <2>2. conn' = conn \/ conn' = [conn EXCEPT ![c].sess = job[c].sess]
    BY <1>3 DEF Deliver
  <2>3. QED
    BY <2>1, <2>2, Zenon DEF SessionInv
<1>4. ASSUME NEW c \in Conns, NEW m, Begin(c, m) \/ Lock(c) PROVE SessionInv'
  BY <1>1, <1>4 DEF Begin, Lock, store
<1>5. ASSUME NEW c \in Conns, NEW cmd, NEW ks, Execute(c, cmd, ks) PROVE SessionInv'
  BY <1>1, <1>5 DEF Execute, store
<1>6. ASSUME NEW c \in Conns, Publish(c) PROVE SessionInv'
  BY <1>6, StoreKeepsSessions DEF Publish
<1>7. ASSUME NEW f, Hup(f) PROVE SessionInv'
  BY <1>1, <1>7 DEF Hup
<1>8. CASE Reload
  BY <1>8, StoreKeepsSessions DEF Reload
<1>9. CASE UNCHANGED vars
  BY <1>1, <1>9 DEF vars
<1>10. QED
  BY <1>2, <1>3, <1>4, <1>5, <1>6, <1>7, <1>8, <1>9,
     AuthUserKeepsSessions, AuthTokenKeepsSessions, ResolveKeepsSessions DEF Next

(* The result of an AUTH is the only thing that ends a job; with it comes  *)
(* a session that is right for one of the policies since its dispatch.     *)
LEMMA DeliveredSession ==
  ASSUME SessionInv, [Next]_vars, NEW c \in Conns,
         job[c] # None, job'[c] = None, conn'[c] # conn[c]
  PROVE  \E p \in since[c] :
            IF job[c].kind = "token"
            THEN conn'[c].sess.role = RoleForClaims(p, job[c].token.claims)
            ELSE LET u == conn'[c].sess.user
                 IN /\ u \in DOMAIN p.users
                    /\ p.users[u].pass \in {None, job[c].secret}
                    /\ conn'[c].sess.role = RoleFor(p, u)
<1>1. \/ Deliver(c)
      \/ \E d \in Conns : (Open(d) \/ Close(d)) /\ job' = job
      \/ conn'[c] = conn[c]
  <2>1. ASSUME NEW d \in Conns, NEW u, NEW s, AuthUser(d, u, s)
        PROVE  conn'[c] = conn[c]
    <3>1. d # c
      BY <2>1 DEF AuthUser, Idle
    <3>2. QED
      BY <2>1, <3>1 DEF AuthUser, SessionInv
  <2>2. ASSUME NEW d \in Conns, Deliver(d), d # c
        PROVE  conn'[c] = conn[c]
    BY <2>2 DEF Deliver, SessionInv
  <2>3. QED
    BY <2>1, <2>2 DEF Next, vars, Open, Close, AuthToken, ResolveOAuthToken, Execute, Begin, Lock,
                      Publish, Hup, Reload
<1>2. Deliver(c)
  BY <1>1
<1>3. conn'[c].sess = job[c].sess /\ AuthSucceeds(job[c])
  BY <1>2 DEF Deliver, SessionInv
<1>4. JobOK(job[c], since[c]) /\ job[c].done
  BY <1>2 DEF Deliver, SessionInv
<1>5. CASE PasswordJob(job[c], since[c])
  <2>1. PICK p \in since[c] : \E u \in DOMAIN p.users : \E s \in Secrets :
          job[c] = [kind |-> "password", hash |-> p.users[u].pass, secret |-> s,
                    sess |-> NewSession(u, RoleFor(p, u)), done |-> TRUE]
    BY <1>5, Zenon DEF PasswordJob
  <2>2. PICK u \in DOMAIN p.users : \E s \in Secrets :
          job[c] = [kind |-> "password", hash |-> p.users[u].pass, secret |-> s,
                    sess |-> NewSession(u, RoleFor(p, u)), done |-> TRUE]
    BY <2>1, Zenon
  <2>3. /\ job[c].kind = "password" /\ p.users[u].pass \in {None, job[c].secret}
        /\ conn'[c].sess.user = u /\ conn'[c].sess.role = RoleFor(p, u)
    BY <1>3, <2>2 DEF AuthSucceeds, NewSession
  <2>4. QED
    BY <2>1, <2>2, <2>3
<1>6. CASE ResolvedToken(job[c], since[c])
  <2>1. PICK p \in since[c] : \E t \in Tokens :
               \E x \in {None, NewSession(t.subject, RoleForClaims(p, t.claims))} :
                  job[c] = [kind |-> "token", token |-> t, sess |-> x, done |-> TRUE]
    BY <1>6, Zenon DEF ResolvedToken
  <2>2. job[c].kind = "token" /\ conn'[c].sess.role = RoleForClaims(p, job[c].token.claims)
    BY <1>3, <2>1 DEF AuthSucceeds, NewSession
  <2>3. QED
    BY <2>2
<1>7. QED
  BY <1>4, <1>5, <1>6, JobDone, Zenon DEF JobOK

(* Sessions are pinned in every state.                                     *)
LEMMA SessionAlways == Spec => []SessionInv
<1>1. Init => SessionInv
  BY DEF Init, SessionInv, Down
<1>2. QED
  BY <1>1, SessionStep, PTL DEF Spec

(* The session an AUTH pins comes from one policy that was active between  *)
(* its dispatch and its reply, however long the worker or the provider     *)
(* takes and however often the policy changes meanwhile.                   *)
THEOREM SessionsArePinned == Spec => PinnedFromSnapshot
<1>1. SessionInv /\ [Next]_vars =>
        [\A c \in Conns :
           job[c] # None /\ job'[c] = None /\ conn'[c] # conn[c] =>
             \E p \in since[c] :
                IF job[c].kind = "token"
                THEN conn'[c].sess.role = RoleForClaims(p, job[c].token.claims)
                ELSE LET u == conn'[c].sess.user
                     IN /\ u \in DOMAIN p.users
                        /\ p.users[u].pass \in {None, job[c].secret}
                        /\ conn'[c].sess.role = RoleFor(p, u)]_vars
  BY DeliveredSession
<1>2. QED
  BY <1>1, SessionAlways, PTL DEF Spec, PinnedFromSnapshot

(* A command touches only keys its session may use it on.                  *)
THEOREM CommandsAreAllowed == Spec => []TouchedAllowed
<1>1. Init => TouchedAllowed
  BY DEF Init, TouchedAllowed
<1>2. TouchedAllowed /\ [Next]_vars => TouchedAllowed'
  <2> SUFFICES ASSUME TouchedAllowed, [Next]_vars PROVE TouchedAllowed'
    OBVIOUS
  <2>1. CASE last' = None
    BY <2>1 DEF TouchedAllowed
  <2>2. ASSUME NEW c \in Conns, NEW cmd, NEW ks, Execute(c, cmd, ks), last' # None
        PROVE  TouchedAllowed'
    <3>1. /\ last' = [conn |-> c, cmd |-> cmd, touched |-> Touched(conn[c].sess, cmd, ks)]
          /\ conn' = conn
      BY <2>2 DEF Execute
    <3>2. \A k \in Touched(conn[c].sess, cmd, ks) : IsAllowed(conn[c].sess, cmd, k)
      BY DEF Touched, Denied
    <3>3. QED
      BY <3>1, <3>2 DEF TouchedAllowed
  <2>3. CASE UNCHANGED vars
    BY <2>3 DEF TouchedAllowed, vars
  <2>4. QED
    BY <2>1, <2>2, <2>3 DEF Next, Open, Close, AuthUser, AuthToken, ResolveOAuthToken, Deliver,
                            Begin, Lock, Publish, Hup, Reload
<1>3. QED
  BY <1>1, <1>2, PTL DEF Spec
=============================================================================

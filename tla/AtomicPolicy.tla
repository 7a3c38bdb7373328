---------------------------- MODULE AtomicPolicy ----------------------------
(***************************************************************************)
(* What rbac.Store promises of its mutations and reloads: each one takes   *)
(* effect at one moment, on the policy that is active at that moment.      *)
(***************************************************************************)
CONSTANTS
  Files,          \* what the policy file may hold
  FileOK(_),      \* whether it parses
  Build(_),       \* and the policy it describes
  Mutations,      \* the ROLE and ACL requests that change the policy
  Accepted(_, _), \* whether a policy admits one
  Result(_, _)    \* and the policy it leaves

VARIABLE active

Init == \E f \in Files : FileOK(f) /\ active = Build(f)

Mutate(m) == Accepted(active, m) /\ active' = Result(active, m)

Replace(f) == FileOK(f) /\ active' = Build(f)

Next == (\E m \in Mutations : Mutate(m)) \/ (\E f \in Files : Replace(f))

Spec == Init /\ [][Next]_active
=============================================================================

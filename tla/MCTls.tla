------------------------------- MODULE MCTls -------------------------------
(***************************************************************************)
(* Clients of every kind against one rotation of all files, and rotations  *)
(* of single files without a client.                                       *)
(***************************************************************************)
EXTENDS Tls

Kind(cert, insists, group, tickets, records) ==
    [cert |-> cert, insists |-> insists, group |-> group, groups |-> {"X25519", group},
     tickets |-> tickets, records |-> records, roots |-> {"server"}]

Files(cas) == [cert |-> 1, key |-> 1, ca |-> cas]

Plan(days, connections, changes, swaps, files, kind) ==
    [days |-> days, conns |-> connections, changes |-> changes, swaps |-> swaps,
     files |-> files, kind |-> kind]

Plain == Kind(None, FALSE, "X25519", TRUE, 1)
Short == Certificate("client", "a", 0)
Long == Certificate("client", "a", 9)

MCPlans ==
    {Plan(0, 0, 3, {}, Files(cas), Plain) : cas \in {None, {"a"}}}
    \cup {Plan(2, 2, 1, {None}, Files(None), kind) :
            kind \in {Plain, Kind(None, FALSE, "X448", TRUE, 1)}}
    \cup {Plan(1, 2, 1, {{"a"}, {"b"}}, Files({"a"}), kind) :
            kind \in {Kind(Long, FALSE, "X25519", TRUE, 2), Kind(Short, TRUE, "X25519", TRUE, 1)}}
    \cup {Plan(0, 1, 1, {{"b"}}, Files({"a"}), Plain)}
=============================================================================

---------------------------- MODULE CommandTable ----------------------------
(***************************************************************************)
(* The table of RESP commands and the replies COMMAND builds from it       *)
(* (internal/resp/command.go).  Summaries and the like are left out: what  *)
(* is modelled is which elements a reply consists of.                      *)
(***************************************************************************)
EXTENDS Wire

\* A command [name, flags, keyed, subs]: how many flags it has, whether it has
\* a key specification and whether it writes, and its subcommands.
Spec0(n, f, subs) == [name |-> n, flags |-> f, keyed |-> FALSE, write |-> FALSE, subs |-> subs]

Keyed(n, f, w) == [name |-> n, flags |-> f, keyed |-> TRUE, write |-> w, subs |-> <<>>]

Subs(names) == [i \in DOMAIN names |-> Spec0(names[i], 0, <<>>)]

RespCommands ==
  <<Spec0("ACL", 4, Subs(<<"SETUSER", "DELUSER", "LIST", "LOG">>)),
    Spec0("AUTH", 4, <<>>),
    Spec0("COMMAND", 0, Subs(<<"COUNT", "DOCS", "INFO", "LIST", "HELP">>)),
    Keyed("DEL", 1, TRUE),
    Keyed("GET", 2, FALSE),
    Spec0("PING", 1, <<>>),
    Spec0("QUIT", 3, <<>>),
    Spec0("ROLE", 4, Subs(<<"CREATE", "SETUSER", "DELUSER", "DELETE", "LIST", "GETUSER">>)),
    Keyed("SET", 2, TRUE),
    Spec0("STARTTLS", 3, <<>>)>>

\* aclCategories: the categories that grant a top-level command; none for
\* QUIT, STARTTLS and subcommands.
AclCategories(name) ==
  {cat \in DOMAIN Category \ {"none"} : name \in Category[cat]}

\* A query names a command <<name>> or a subcommand <<parent, name>>.
Unknown == <<>>

FindCommand(q) ==
  LET tops == {i \in DOMAIN RespCommands : RespCommands[i].name = q[1]}
      top  == RespCommands[CHOOSE i \in tops : TRUE]
      subs == {j \in DOMAIN top.subs : top.subs[j].name = q[Len(q)]}
  IN CASE tops = {} -> Unknown
       [] tops # {} /\ Len(q) = 1 -> <<top>>
       [] tops # {} /\ Len(q) = 2 /\ subs = {} -> Unknown
       [] tops # {} /\ Len(q) = 2 /\ subs # {} -> <<top, top.subs[CHOOSE j \in subs : TRUE]>>

AppendSimpleStrings(n) == AppendArray(n) \o Leaves("simple", n)

AppendKeySpecs(c) ==
  IF ~c.keyed THEN AppendArray(0)
  ELSE AppendArray(1) \o AppendArray(6)
         \o Leaf("bulk") \o AppendSimpleStrings(IF c.write THEN 3 ELSE 2)
         \o Leaf("bulk") \o AppendArray(4) \o Leaves("bulk", 3) \o AppendArray(2) \o Leaf("bulk") \o Leaf("int")
         \o Leaf("bulk") \o AppendArray(4) \o Leaves("bulk", 3)
         \o AppendArray(6) \o FlattenSeq([i \in 1..3 |-> Leaf("bulk") \o Leaf("int")])

\* appendCommandInfo with the entries of the subcommands, which have none of
\* their own.  Categories are looked up under the full name.
InfoHead(c, cats) ==
  AppendArray(10) \o Leaf("bulk") \o Leaf("int") \o AppendSimpleStrings(c.flags)
    \o Leaves("int", 3) \o AppendSimpleStrings(cats) \o AppendArray(0) \o AppendKeySpecs(c)

AppendCommandInfo(top, c) ==
  InfoHead(c, IF top THEN Cardinality(AclCategories(c.name)) ELSE 0)
    \o AppendArray(Len(c.subs))
    \o FlattenSeq([j \in DOMAIN c.subs |-> InfoHead(c.subs[j], 0) \o AppendArray(0)])

AppendCommandDoc == Leaf("bulk") \o AppendArray(8) \o Leaves("bulk", 8)

Docs(n) == FlattenSeq([i \in 1..n |-> AppendCommandDoc])

\* COMMAND COUNT, INFO, DOCS, LIST and HELP.
CommandCount == Leaf("int")

CommandInfoAll ==
  AppendArray(Len(RespCommands))
    \o FlattenSeq([i \in DOMAIN RespCommands |-> AppendCommandInfo(TRUE, RespCommands[i])])

CommandInfo(qs) ==
  IF qs = <<>> THEN CommandInfoAll
  ELSE AppendArray(Len(qs))
         \o FlattenSeq([i \in DOMAIN qs |->
              LET f == FindCommand(qs[i])
              IN IF f = Unknown THEN Leaf("null") ELSE AppendCommandInfo(Len(f) = 1, f[Len(f)])])

DocEntries_NoSubs(f) == IF f = Unknown THEN 0 ELSE 1

\* The number of entries is counted in a first pass and rendered in a second.
DocEntries(f) == IF f = Unknown THEN 0 ELSE IF Len(f) = 1 THEN 1 + Len(f[1].subs) ELSE 1

Total(qs) ==
  LET t[i \in 0..Len(qs)] == IF i = 0 THEN 0 ELSE t[i - 1] + DocEntries(FindCommand(qs[i]))
  IN t[Len(qs)]

AllQueries == [i \in DOMAIN RespCommands |-> <<RespCommands[i].name>>]

CommandDocs(qs) ==
  LET named == IF qs = <<>> THEN AllQueries ELSE qs
  IN AppendArray(2 * Total(named))
       \o FlattenSeq([i \in DOMAIN named |->
            LET f == FindCommand(named[i])
            IN IF f = Unknown THEN <<>>
               ELSE AppendCommandDoc \o (IF Len(f) = 1 THEN Docs(Len(f[1].subs)) ELSE <<>>)])

\* The filter is none, a module (no name matches), the set of one category or a set of
\* names (a pattern).
CommandList(filter) ==
  LET names == {RespCommands[i].name : i \in DOMAIN RespCommands}
      hits  == CASE filter.by = "none"    -> names
                 [] filter.by = "module"  -> {}
                 [] filter.by = "aclcat"  -> {n \in names : filter.arg \cap AclCategories(n) # {}}
                 [] filter.by = "pattern" -> names \cap filter.arg
  IN AppendArray(Cardinality(hits)) \o Leaves("bulk", Cardinality(hits))

HelpLines == 11

CommandHelp == AppendArray(HelpLines) \o Leaves("bulk", HelpLines)
=============================================================================

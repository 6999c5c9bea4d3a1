--------------------------- MODULE MCHostShuffle ----------------------------
(* HostShuffle on small bodies, for TLC.                                   *)
EXTENDS HostShuffle

Names == {"p1", "p2", "q1", "fixed", "DIRECT", ""}

\* A host matches one pattern, or two of them, or none.
Groupings ==
    {<<>>, <<{"p1", "p2", "q1"}>>, <<{"p1", "p2"}, {"p2", "q1"}>>,
     <<{"DIRECT"}, {"p1", "p2", ""}>>}

\* The id is the position, so hosts of one name differ.
Served(names, serverless) ==
    [i \in DOMAIN names |->
        [id |-> i, name |-> names[i], server |-> i \notin serverless]]

HostLists ==
    {<<"p1", "q1", "p2", "fixed">>, <<"fixed", "p2", "p1", "q1">>,
     <<"p1", "q1", "p2", "p1">>, <<"", "q1", "", "p1">>, <<"p1", "p1">>}

Scalar(v) == [value |-> v, alias |-> FALSE]
Alias(v) == [value |-> v, alias |-> TRUE]

Scalars == {Scalar(n) : n \in {"p1", "p2", "q1", "fixed", "DIRECT"}}

\* Lists of names of hosts and others, in any order, and with an alias.
NameLists == [1..4 -> Scalars] \cup [1..3 -> Scalars \cup {Alias("p1")}]

Body(g, f, h, l) == [groups |-> g, format |-> f, hosts |-> h, lists |-> l]

Everything ==
    {Body(g, f, Served(n, {}), <<>>) :
        g \in Groupings, f \in {"unknown", "links", "xray"}, n \in HostLists}
    \cup {Body(g, "singbox", Served(n, {1}), <<l>>) :
        g \in Groupings, n \in HostLists, l \in [1..3 -> Scalars]}
    \cup {Body(g, "clash", Served(n, {}), <<l, <<Scalar("p2"), Alias("q1")>> >>) :
        g \in Groupings, n \in HostLists, l \in NameLists}

=============================================================================

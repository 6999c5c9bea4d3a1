------------------------------ MODULE MCProxy ------------------------------
(* Proxy on small sets, for TLC.                                           *)
EXTENDS Proxy, TLC

CONSTANTS u1, u2, json

Ask(sub, type, agent, gzip, method) ==
    [probe |-> FALSE, sub |-> sub, type |-> type, agent |-> agent,
     gzip |-> gzip, method |-> method]

Probe == [Ask(NoSub, NoType, "app", TRUE, "GET") EXCEPT !.probe = TRUE]

\* An app that fetches its subscription, uncompressed, as most requests do.
Fetch(sub) == Ask(sub, NoType, "app", FALSE, "GET")

\* Two users, two encodings, a client type, a HEAD, the three kinds of agent and
\* a page of the web site.
Asks == {Fetch(u1), Ask(u1, NoType, "app", TRUE, "GET"),
         Ask(u1, json, "app", TRUE, "GET"), Ask(u1, NoType, "app", TRUE, "HEAD"),
         Ask(u2, NoType, "app", TRUE, "GET"),
         Ask(u1, NoType, "broken", TRUE, "GET"),
         Ask(u1, NoType, "banned", TRUE, "GET"),
         Ask(NoSub, NoType, "broken", TRUE, "GET")}

Stages(cache, rewrites, shuffler, userAgents) ==
    [cache |-> cache, rewrites |-> rewrites, shuffler |-> shuffler,
     userAgents |-> userAgents]

CacheOnly == Stages(TRUE, FALSE, FALSE, FALSE)

\* Everything, the cache alone, everything else, and a bare relay.
SomeConfigs ==
    {Stages(TRUE, TRUE, TRUE, TRUE), CacheOnly,
     Stages(FALSE, TRUE, TRUE, TRUE), Stages(FALSE, FALSE, FALSE, FALSE)}

\* Every configuration meets every request, among probes; those with a cache
\* also meet any two requests that may touch it.
Among(S, n) == {f \in [Request -> S \cup {Probe}] :
                   Cardinality({r \in Request : f[r] = Probe}) >= n}
Singles == {[conf |-> c, rq |-> f] : c \in SomeConfigs, f \in Among(Asks, 2)}
Pairs == {[conf |-> c, rq |-> f] :
             c \in {x \in SomeConfigs : x.cache},
             f \in Among({a \in Asks : a.sub # NoSub /\ a.agent # "banned"
                                      /\ a.method = "GET"}, 1)}

\* As many requests of two users' apps as there are, with the cache alone: one
\* to store, one to replace or evict what it stored, one to be replayed to.
Rivals == {[conf |-> CacheOnly, rq |-> f] :
             f \in [Request -> {Fetch(u1), Fetch(u2)}]}

SomeStarts == Singles \cup Pairs \cup Rivals

\* Two GETs for one variant, and a GET after a HEAD.
SameVariant == {[conf |-> CacheOnly, rq |-> f] :
                  f \in [Request -> {Fetch(u1)}]}
WithHead == {[conf |-> CacheOnly, rq |-> f] :
               f \in [Request -> {Fetch(u1),
                                  Ask(u1, NoType, "app", FALSE, "HEAD")}]}

\* Requests are alike.
Symmetry == Permutations(Request)

=============================================================================

------------------------------ MODULE MCIngress ------------------------------
(* Ingress for TLC: three families of starts, one about each of start-up, the *)
(* path and the client's address.                                             *)
EXTENDS Ingress, SequencesExt

CONSTANTS id, adm, assets, api, wk, appjson, envfile, php, js, dot, dotdot,
          clash, long,                  \* segments
          here, here6, edge, lb, junk,  \* addresses
          near, wide, all,              \* networks
          happ, pasted                  \* User-Agents

MCSegment == {id, adm, assets, api, wk, appjson, envfile, php, js, dot, dotdot,
              clash, long}
MCDotted == {wk, appjson, envfile, dot, dotdot}
MCSpelling == {here, here6, edge, lb, junk, Us}
MCNormal == [a \in MCSpelling |-> IF a = here6 THEN here ELSE a]
MCCovers == near :> {edge} @@ wide :> {edge, lb}
                @@ all :> {edge, lb, here, here6, Us}
MCDefault == [shutdown |-> 15, subTTL |-> 60, maxBytes |-> 64, maxBody |-> 2]

-----------------------------------------------------------------------------

Plainly(kind, n) == [kind |-> kind, n |-> n, unit |-> 1]
Unset == Plainly("unset", 0)

Env0 == [shutdown |-> Unset, subTTL |-> Unset, maxBytes |-> Unset,
         maxBody |-> Unset, maxEntries |-> Unset, healthPort |-> Unset,
         appPort |-> Unset, logFormat |-> "ok", logLevel |-> "ok",
         cached |-> "unset", panel |-> "unset", forced |-> "unset",
         upstreamURL |-> "ok", panelURL |-> "ok", token |-> "ok", healthHost |-> "any",
         explicit |-> FALSE, prefix |-> <<>>, trust |-> [kind |-> "unset"]]

Rq0 == [path |-> <<id>>, agent |-> happ, client |-> here, spoofed |-> <<>>,
        proxies |-> <<edge>>, host |-> "us", hosts |-> <<>>, protos |-> <<>>,
        tls |-> FALSE]

Together(es, fs, rs) == [envs |-> es, files |-> fs, rqs |-> rs]

\* Start-up: the cache's three limits together, the rest by themselves.
\* 40 overflows once multiplied, and 64 comes back as 0.
Values == {Unset, Plainly("spaces", 0), Plainly("bad", 0)}
            \cup {Plainly("bare", n) : n \in {-1, 0, 1, 40, 64}}
            \cup {[Plainly("unit", n) EXCEPT !.unit = 4] : n \in {-1, 0, 5, 40}}

Triples ==
    {[Env0 EXCEPT !.cached = b, !.subTTL = t, !.maxBytes = n, !.maxBody = m] :
        b \in {"unset", "true", "false", "bad"}, t \in Values, n \in Values,
        m \in Values}

Singles ==
    UNION {{[Env0 EXCEPT ![k] = w] : w \in Values} :
               k \in {"shutdown", "maxEntries", "appPort"}}
    \cup {[Env0 EXCEPT !.healthPort = w, !.healthHost = h] :
             w \in Values, h \in {"any", "loopback", "elsewhere"}}
    \cup {[Env0 EXCEPT !.panel = b, !.panelURL = u, !.upstreamURL = v,
                       !.token = t] :
             b \in {"unset", "true", "false", "bad"},
             u \in {"ok", "missing", "bad"}, v \in {"ok", "missing", "bad"},
             t \in {"ok", "missing"}}
    \cup {[Env0 EXCEPT !.logFormat = f, !.logLevel = l] :
             f \in {"ok", "bad"}, l \in {"ok", "bad"}}

Files ==
    {[DefaultFile EXCEPT !.state = s, !.broken = b, !.unknown = u] :
        s \in {"missing", "malformed", "read"}, b \in BOOLEAN,
        u \in {"none", "section", "key"}}

Startups ==
    {Together(Triples, {DefaultFile}, {Rq0}),
     Together(Singles, {DefaultFile}, {Rq0}),
     Together({[Env0 EXCEPT !.explicit = x] : x \in BOOLEAN}, Files, {Rq0})}

\* The path: three segments of any kind, two of any kind under a prefix, and
\* four of the kinds that the rules name.
Short == SeqOf(MCSegment \cup {Empty}, 2)
Paths == SeqOf(MCSegment \cup {Empty}, 3)

Under(prefix) ==
    Paths \cup {prefix \o p : p \in Short}
          \cup {<<prefix[1]>> \o p : p \in {q \in Short : prefix # <<>>}}

Deep == [1..4 -> {id, adm, assets, wk, appjson, php, js, dot, dotdot}]

SubPrefixes ==
    {<<>>, <<id>>, <<adm>>, <<adm, Empty, api>>, <<php>>, <<wk>>}

Blocks == {[DefaultFile EXCEPT !.block = b, !.patterns = p] :
              b \in BOOLEAN, p \in {{}, {{<<id>>, <<adm, id>>}}}}

Walks ==
    {Together({[Env0 EXCEPT !.prefix = x]}, Blocks,
              {[Rq0 EXCEPT !.path = p] : p \in Under(x)}) : x \in SubPrefixes}
    \cup {Together({[Env0 EXCEPT !.prefix = x] : x \in {<<>>, <<adm>>}},
                   {DefaultFile}, {[Rq0 EXCEPT !.path = p] : p \in Deep})}

\* The address, and what else is forwarded.
Trusts ==
    {[kind |-> k] : k \in {"unset", "true", "false"}}
    \cup {[kind |-> "number", hops |-> n] : n \in -1..3}
    \cup {[kind |-> "list", nets |-> s, unreadable |-> u] :
             s \in {{}, {near}, {wide}, {near, wide}, {all}}, u \in BOOLEAN}

Callers ==
    {[Rq0 EXCEPT !.client = c, !.spoofed = s, !.proxies = p] :
        c \in {here, here6}, s \in SeqOf({junk, edge, here6, Blank}, 2),
        p \in {<<>>, <<edge>>, <<edge, lb>>, <<lb, edge>>}}

Origins ==
    {[Rq0 EXCEPT !.path = p, !.host = h, !.hosts = hs, !.protos = ps,
                 !.tls = t] :
        p \in {<<id>>, <<id, clash>>, <<js>>}, h \in {"us", Blank},
        hs \in {<<>>, <<"a", "b">>, <<Blank, "b">>},
        ps \in {<<>>, <<"http", "https">>, <<Blank, "http">>}, t \in BOOLEAN}

Rule(a, m) == [broken |-> FALSE, pattern |-> {pasted}, message |-> m,
               action |-> a]
Rules == {Rule("notice", TRUE), Rule("block", TRUE), Rule("block", FALSE),
          [Rule("notice", TRUE) EXCEPT !.broken = TRUE],
          [Rule("notice", TRUE) EXCEPT !.pattern = {happ}]}

Sections == {[DefaultFile EXCEPT !.rewrites = w, !.shuffles = s] :
                w \in BOOLEAN, s \in BOOLEAN}

Meetings ==
    {Together({[Env0 EXCEPT !.trust = t] : t \in Trusts}, {DefaultFile}, Callers),
     Together({[Env0 EXCEPT !.forced = b, !.cached = c] :
                  b \in {"unset", "true", "bad"}, c \in {"unset", "true"}},
              Sections, Origins),
     Together({Env0},
              {[f EXCEPT !.rules = u] : f \in Sections, u \in SeqOf(Rules, 2)},
              {[r EXCEPT !.agent = a] : r \in Origins, a \in {happ, pasted}})}

MCStarts == Startups \cup Walks \cup Meetings

=============================================================================

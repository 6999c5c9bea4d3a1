------------------------------- MODULE Ingress -------------------------------
(***************************************************************************)
(* From the environment to the first words with the page: the process      *)
(* starts, or refuses to, and a request comes in (config.Load, newHandler, *)
(* ServeHTTP up to the round trip).  Composes PathRules, ClientAddress and *)
(* Settings; the verdicts are those that Proxy takes as inputs.            *)
(*                                                                         *)
(* Requests are handled alike and share nothing here, so one will do.  In  *)
(* front of the proxy stand others: each appends to X-Forwarded-For the    *)
(* address it was called from, and the client may have written one itself. *)
(***************************************************************************)
EXTENDS PathRules, ClientAddress, Settings

CONSTANTS
    Starts,  \* environments, files and requests that are tried together
    Us,      \* the proxy's own address, as the page sees it
    Nil

ASSUME StartsAssumption ==
    /\ Us \in Spelling
    /\ \A s \in Starts :
          /\ \A e \in s.envs :
                /\ \A k \in DOMAIN Default \cup DOMAIN DefaultInt :
                      e[k] \in Written
                /\ e.prefix \in Path
                /\ e.trust \in Trust
                /\ e.healthHost \in {"any", "loopback", "elsewhere"}
          /\ \A r \in s.rqs :
                /\ r.path \in Path
                /\ r.client \in Spelling
                /\ r.spoofed \in Seq(Spelling \cup {Blank})
                /\ r.proxies \in Seq(Spelling)

VARIABLES
    env,      \* the environment, as written
    file,     \* the configuration file
    rq,       \* the request
    pc,       \* how far the process has come
    cfg,      \* what Load made of the environment
    handler,  \* what newHandler made of both
    out       \* what became of the request

vars == <<env, file, rq, pc, cfg, handler, out>>

Init ==
    /\ \E s \in Starts : env \in s.envs /\ file \in s.files /\ rq \in s.rqs
    /\ pc = "load"
    /\ cfg = Nil /\ handler = Nil /\ out = Nil

-----------------------------------------------------------------------------
(* Start-up                                                                *)

\* MUTANT problems are collected and forgotten.
LoadAnyway ==
    /\ pc = "load" /\ pc' = "file"
    /\ cfg' = Loaded(env)
    /\ UNCHANGED <<env, file, rq, handler, out>>

\* Load, the environment.
Load ==
    /\ pc = "load"
    /\ IF Problems(env) # {}
       THEN pc' = "fatal" /\ UNCHANGED cfg
       ELSE pc' = "file" /\ cfg' = Loaded(env)
    /\ UNCHANGED <<env, file, rq, handler, out>>

\* Load, the file.
LoadFile ==
    /\ pc = "file"
    /\ pc' = IF RefusesFile(file, env.explicit) THEN "fatal" ELSE "handler"
    /\ UNCHANGED <<env, file, rq, cfg, handler, out>>

\* TRUST_PROXY is read only here; the patterns are compiled once more.
NewHandler ==
    /\ pc = "handler"
    /\ IF ~Readable(cfg.trust) THEN pc' = "fatal" /\ UNCHANGED handler
       ELSE LET f == LoadedFile(file)
            IN  /\ pc' = "serving"
                /\ handler' =
                     [blocker |-> [enabled |-> f.block, patterns |-> f.patterns,
                                   prefix |-> SplitPath(cfg.prefix)],
                      resolver |-> ParseTrust(cfg.trust),
                      rules |-> CompileUserAgents(f.rules),
                      shuffles |-> f.shuffles, rewrites |-> f.rewrites]
    /\ UNCHANGED <<env, file, rq, cfg, out>>

-----------------------------------------------------------------------------
(* The request                                                             *)

\* The socket's peer and X-Forwarded-For, as the proxies before us leave them.
Remote == IF rq.proxies = <<>> THEN rq.client ELSE rq.proxies[Len(rq.proxies)]
Forwarded ==
    rq.spoofed \o
        (IF rq.proxies = <<>> THEN <<>>
         ELSE <<rq.client>> \o SubSeq(rq.proxies, 1, Len(rq.proxies) - 1))

RealIP == ClientIP(handler.resolver, Forwarded, Remote)

\* firstListValue, which the page applies as well.
First(list) == IF list = <<>> THEN Blank ELSE list[1]

Scheme(tls) == IF tls THEN "https" ELSE "http"

\* MUTANT X-Forwarded-For as httputil.ReverseProxy leaves it by default.
ForwardedWithPeer == <<RealIP, Normal[Remote]>>

\* forwardHeaders
ForwardedFor == <<RealIP>>

ForwardedProto ==
    IF cfg.forced THEN <<"https">>
    ELSE IF rq.protos = <<>> THEN <<Scheme(rq.tls)>> ELSE rq.protos

ForwardedHost ==
    IF rq.hosts # <<>> THEN rq.hosts
    ELSE IF rq.host = Blank THEN <<>> ELSE <<rq.host>>

LinkScheme ==
    IF cfg.forced THEN "https"
    ELSE IF First(rq.protos) = Blank THEN Scheme(rq.tls) ELSE First(rq.protos)

LinkHost == IF First(rq.hosts) = Blank THEN rq.host ELSE First(rq.hosts)

\* MUTANT the prefix is left out of the link.
UnprefixedLink(sub) ==
    IF LinkHost = Blank THEN Nil
    ELSE [scheme |-> LinkScheme, host |-> LinkHost, path |-> <<sub>>]

\* subscriptionURL: the client type is left out on purpose.
SubscriptionURL(sub) ==
    IF LinkHost = Blank THEN Nil
    ELSE [scheme |-> LinkScheme, host |-> LinkHost,
          path |-> Append(cfg.prefix, sub)]

\* observes: without a stage that looks at responses the path is not parsed.
Observes ==
    \/ handler.rewrites \/ cfg.cached \/ handler.shuffles
    \/ handler.rules # <<>>

Route == IF Observes THEN ParseRoute(rq.path, handler.blocker.prefix)
         ELSE NoRoute

Notice == IF Route.sub = Empty THEN "none" ELSE Match(handler.rules, rq.agent)

\* templateRequest works the link out only if something may show it.
Link == IF Route.sub # Empty /\ (handler.rewrites \/ Notice # "none")
        THEN SubscriptionURL(Route.sub) ELSE Nil

Finally(result) ==
    /\ pc' = "done"
    /\ out' = result
    /\ UNCHANGED <<env, file, rq, cfg, handler>>

Probed == Blocked(handler.blocker, rq.path)

Refuse ==
    /\ pc = "serving" /\ Probed
    /\ Finally([kind |-> "refused"])

\* writeBlock
Answer ==
    /\ pc = "serving" /\ ~Probed /\ Notice = "block"
    /\ Finally([kind |-> "answered", route |-> Route, link |-> Link])

\* To the page, with the Rewrite hook's headers.
Forward ==
    /\ pc = "serving" /\ ~Probed /\ Notice # "block"
    /\ Finally([kind |-> "forwarded", route |-> Route, link |-> Link,
                for |-> ForwardedFor, proto |-> ForwardedProto,
                host |-> ForwardedHost])

Next == Load \/ LoadFile \/ NewHandler \/ Refuse \/ Answer \/ Forward

Spec == Init /\ [][Next]_vars

-----------------------------------------------------------------------------
(* Properties                                                              *)

Done == pc = "done"
Segments == SplitPath(rq.path)
Prefix == handler.blocker.prefix

\* No custom pattern matches the path.
Unmatched(path) == \A pattern \in handler.blocker.patterns : path \notin pattern

\* A path under the prefix is refused, and names a subscription, exactly as the
\* rest of it would without a prefix: CUSTOM_SUB_PREFIX=admin refuses nobody,
\* and hides no probe.  Custom patterns and file names in the prefix aside.
PrefixTransparent ==
    Done /\ HasPrefix(Segments, Prefix) /\ Unmatched(rq.path)
         /\ ~HasScannerFile(Prefix) =>
        LET rest == Rest(Segments, Prefix)
        IN  /\ out.kind = "refused" <=>
                    handler.blocker.enabled /\ Refuses(rest, <<>>)
            /\ out.kind # "refused" /\ Observes =>
                    out.route = ParseRoute(rest, <<>>)

\* What a server may make of a path: "." and ".." resolved.
Enter(dir, s) ==
    IF s = Dot THEN dir
    ELSE IF s = DotDot THEN
        IF dir = <<>> THEN <<>> ELSE SubSeq(dir, 1, Len(dir) - 1)
    ELSE Append(dir, s)

Resolve(segments) ==
    LET resolved[n \in 0..Len(segments)] ==
            IF n = 0 THEN <<>> ELSE Enter(resolved[n - 1], segments[n])
    IN  resolved[Len(segments)]

\* Whatever file the page takes a forwarded path for, a leading part of it with
\* the dots resolved, a request for that file would have passed too: neither
\* /index.php/x nor /assets/../.env is a way around the blocker.
ForwardedAsJudged ==
    Done /\ out.kind # "refused" /\ handler.blocker.enabled
         /\ (\A i \in DOMAIN Prefix : Prefix[i] \notin Dotted) =>
        \A n \in 0..Len(Segments) :
            ~Refuses(Resolve(SubSeq(Segments, 1, n)), Prefix)

\* A list header that has something to say does not begin with nothing.
Plain(list) == list = <<>> \/ First(list) # Blank

\* The link rebuilt for {SUBSCRIPTION_URL} leads back: it has the origin that
\* the page is told, it is not refused, and it names the same user and no
\* client type, so that every app may use it.
LinkLeadsBack ==
    Done /\ out.kind # "refused" /\ out.link # Nil =>
        /\ ParseRoute(out.link.path, Prefix) =
               [sub |-> out.route.sub, type |-> Empty]
        /\ Unmatched(out.link.path) => ~Blocked(handler.blocker, out.link.path)
        /\ out.kind = "forwarded" =>
               /\ Plain(rq.protos) => out.link.scheme = First(out.proto)
               /\ Plain(rq.hosts) => out.link.host = First(out.host)

\* TRUST_PROXY names the proxies that are there: by their number, or by
\* networks that hold them all and not the client.
TrustFits ==
    LET resolver == handler.resolver
    IN  IF resolver.trustAll THEN rq.spoofed = <<>>
        ELSE IF resolver.nets = {} THEN resolver.hops = Len(rq.proxies)
        ELSE /\ ~Trusted(resolver, Normal[rq.client])
             /\ \A i \in DOMAIN rq.proxies :
                   Trusted(resolver, Normal[rq.proxies[i]])

\* A page with TRUST_PROXY=1 behind us sees the client, whatever X-Forwarded-For
\* the client wrote, if our own TRUST_PROXY fits what stands before us.
PageSeesTheClient ==
    Done /\ out.kind = "forwarded" /\ TrustFits =>
        ClientIP([TrustNobody EXCEPT !.hops = 1], out.for, Us)
            = Normal[rq.client]

\* A number of seconds that fits in the code's width.
Fits(n) == -Half <= n /\ n < Half

LimitAsWritten(k, w, value, scale) ==
    /\ IsUnset(w) => value = Default[k]
    /\ ~IsUnset(w) /\ Fits(w.n * scale) => value = w.n * scale

\* A process that serves has the limits it was told, never a default in place
\* of one it could not use; a fallback cache it keeps has a lifetime and room;
\* and the container's health check, which reads the environment anew, does not
\* report it, given a port it can read and an address it can reach.
StartedAsWritten ==
    pc \in {"serving", "done"} =>
        /\ \A k \in {"shutdown", "subTTL"} :
              LimitAsWritten(k, env[k], cfg[k],
                             IF env[k].kind = "bare" THEN Second ELSE 1)
        /\ \A k \in {"maxBytes", "maxBody"} :
              LimitAsWritten(k, env[k], cfg[k],
                             IF env[k].kind = "unit" THEN env[k].unit ELSE 1)
        /\ cfg.cached =>
              cfg.subTTL > 0 /\ cfg.maxBody > 0 /\ cfg.maxBytes >= cfg.maxBody
        /\ env.healthHost # "elsewhere" /\ env.healthPort.kind # "spaces"
                /\ cfg.healthPort >= 0 =>
              Healthy(env, cfg)

=============================================================================

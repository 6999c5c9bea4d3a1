------------------------------- MODULE Settings -------------------------------
(***************************************************************************)
(* What the process makes of its environment and its configuration file    *)
(* (internal/config, and the health probe of main.go, which reads the same *)
(* environment): defaults, values that are refused, limits that depend on  *)
(* one another, and the rules about User-Agents.  The nine durations and   *)
(* the five switches are read alike, so two and three of them stand for    *)
(* all; what is only passed on is left out.                                *)
(*                                                                         *)
(* A written value is what its parser finds: nothing, something it cannot  *)
(* read, or a number with its unit.  Numbers wrap around at Half.          *)
(***************************************************************************)
EXTENDS Integers, Sequences, FiniteSets

CONSTANTS
    Half,     \* the least number that is too large; 2^63 in the code
    Second,   \* in the unit of durations; 10^9 in the code
    Default,  \* of durations and sizes, by key
    Agent     \* what a User-Agent header may hold

ASSUME SettingsAssumption ==
    /\ Half \in Nat \ {0} /\ Second \in Nat \ {0}
    /\ DOMAIN Default = {"shutdown", "subTTL", "maxBytes", "maxBody"}
    /\ \A k \in DOMAIN Default : Default[k] \in Nat

\* The integers that stand in the code.
DefaultInt == [appPort |-> 3020, maxEntries |-> 10000, healthPort |-> 3021]

\* "unset", or only spaces; "bad" for what cannot be read; a bare number; or
\* one with a unit.
Kind == {"unset", "spaces", "bad", "bare", "unit"}
Written == [kind : Kind, n : Int, unit : Nat]

\* lookup finds no value.
IsUnset(w) == w.kind \in {"unset", "spaces"}

\* What the code's width keeps of a number.
Wrap(n) == ((n + Half) % (2 * Half)) - Half

-----------------------------------------------------------------------------
(* Values of the environment                                               *)

\* duration: the sign is checked before a bare number is multiplied.
RefusesDuration(w) == w.kind = "bad" \/ (~IsUnset(w) /\ w.n < 0)

Duration(k, w) ==
    IF IsUnset(w) \/ RefusesDuration(w) THEN Default[k]
    ELSE IF w.kind = "bare" THEN Wrap(w.n * Second) ELSE w.n

\* parseSize
Bytes(w) == IF w.kind = "unit" THEN Wrap(w.n * w.unit) ELSE w.n

\* sizeVal: the sign is checked after a number is multiplied.
RefusesSize(w) == w.kind = "bad" \/ (~IsUnset(w) /\ Bytes(w) < 0)

Size(k, w) == IF IsUnset(w) \/ RefusesSize(w) THEN Default[k] ELSE Bytes(w)

\* intVal takes any sign.
RefusesInt(w) == w.kind \in {"bad", "unit"}

IntVal(k, w) == IF IsUnset(w) \/ RefusesInt(w) THEN DefaultInt[k] ELSE w.n

\* boolVal
RefusesBool(b) == b = "bad"

BoolVal(b, default) == IF b \in {"true", "false"} THEN b = "true" ELSE default

\* A required value, or a required URL: parseURL's complaints are one kind.
RefusesRequired(v) == v \in {"missing", "bad"}

\* LOG_FORMAT and LOG_LEVEL are one of a few words.
RefusesWord(v) == v = "bad"

-----------------------------------------------------------------------------
(* Load                                                                    *)

\* envString("TRUST_PROXY", "1")
OneHop == [kind |-> "number", hops |-> 1]

\* What an environment amounts to.
Loaded(env) ==
    [port |-> IntVal("appPort", env.appPort),
     shutdown |-> Duration("shutdown", env.shutdown),
     cached |-> BoolVal(env.cached, FALSE),
     subTTL |-> Duration("subTTL", env.subTTL),
     maxBytes |-> Size("maxBytes", env.maxBytes),
     maxBody |-> Size("maxBody", env.maxBody),
     maxEntries |-> IntVal("maxEntries", env.maxEntries),
     healthPort |-> IntVal("healthPort", env.healthPort),
     forced |-> BoolVal(env.forced, FALSE),
     prefix |-> env.prefix,
     trust |-> IF env.trust.kind = "unset" THEN OneHop ELSE env.trust]

\* The values that cannot be read, each reported under its key.
Unreadables(env) ==
    {k \in {"shutdown", "subTTL"} : RefusesDuration(env[k])}
    \cup {k \in {"maxBytes", "maxBody"} : RefusesSize(env[k])}
    \cup {k \in DOMAIN DefaultInt : RefusesInt(env[k])}
    \cup {k \in {"cached", "panel", "forced"} : RefusesBool(env[k])}
    \cup {k \in {"logFormat", "logLevel"} : RefusesWord(env[k])}
    \cup {k \in {"upstreamURL"} : RefusesRequired(env[k])}
    \cup {k \in {"panelURL", "token"} : BoolVal(env.panel, TRUE)
                                          /\ RefusesRequired(env[k])}

\* The combinations that make no sense: no cache without a lifetime or without
\* room for one response.
Contradictions(cfg) ==
    {k \in {"maxEntries"} : cfg.maxEntries < 0}
    \cup (IF ~cfg.cached THEN {}
          ELSE {k \in {"subTTL"} : cfg.subTTL <= 0}
               \cup {k \in {"maxBody"} : cfg.maxBody <= 0}
               \cup {k \in {"maxBytes"} : cfg.maxBytes < cfg.maxBody})

\* envError: all of them are reported at once.
Problems(env) == Unreadables(env) \cup Contradictions(Loaded(env))

\* The health server, unless its port is not positive.
HasHealth(cfg) == cfg.healthPort > 0

\* MUTANT the probe asks the port of the other server.
AppPort(w) == IF w.kind = "unset" THEN 3020 ELSE w.n

\* The port that runHealthcheck asks, with a default of its own.
ProbePort(w) == IF w.kind = "unset" THEN 3021 ELSE w.n

\* runHealthcheck, in a process of its own with the same environment: content
\* with a zero, else with an answer of the health server on the port it reads.
\* It trims nothing, and asks the loopback address whatever HEALTH_HOST is.
Healthy(env, cfg) ==
    \/ env.healthPort.kind = "bare" /\ env.healthPort.n = 0
    \/ /\ env.healthPort.kind \in {"unset", "bare"}
       /\ HasHealth(cfg) /\ env.healthHost \in {"any", "loopback"}
       /\ ProbePort(env.healthPort) = cfg.healthPort

-----------------------------------------------------------------------------
(* The configuration file                                                  *)

\* compilePatterns, for block.patterns and hosts.shuffle: a blank pattern, or
\* no regular expression.
RefusesPatterns(file) == file.broken

\* CompileUserAgents: rules without a message are left out.
CompileUserAgents(rules) ==
    LET Speaks(rule) == rule.message
    IN  SelectSeq(rules, Speaks)

RefusesUserAgents(rules) ==
    \E i \in DOMAIN rules : rules[i].broken

DefaultFile ==
    [state |-> "read", unknown |-> "none", block |-> TRUE, patterns |-> {},
     broken |-> FALSE, rules |-> <<>>, shuffles |-> FALSE, rewrites |-> TRUE]

\* splitUnknownFields: a section that is not known is skipped, a key within a
\* known one is an error.
RefusesFields(file) == file.unknown = "key"

\* loadFile: only the default path may lead nowhere; what is read must parse
\* and pass validate.
RefusesFile(file, explicit) ==
    CASE file.state = "missing" -> explicit
      [] file.state = "malformed" -> TRUE
      [] OTHER -> RefusesFields(file) \/ RefusesPatterns(file)
                  \/ RefusesUserAgents(file.rules)

LoadedFile(file) == IF file.state = "missing" THEN DefaultFile ELSE file

\* UserAgentFilter.Match: the first rule whose pattern matches, and its action.
Match(rules, agent) ==
    LET hits == {i \in DOMAIN rules : agent \in rules[i].pattern}
    IN  IF hits = {} THEN "none"
        ELSE rules[CHOOSE i \in hits : \A j \in hits : i <= j].action

=============================================================================

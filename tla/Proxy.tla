------------------------------- MODULE Proxy -------------------------------
(***************************************************************************)
(* The life of a request in the proxy (internal/proxy): what is answered   *)
(* without the subscription page, what is forwarded, how the page's answer *)
(* is rewritten, shuffled, annotated and kept, and what the client gets    *)
(* when the page fails.  Requests run concurrently and share the fallback  *)
(* cache, which is SubCache: its Get and the two halves of its Put are     *)
(* called here where the code calls them.                                  *)
(*                                                                         *)
(* The page is external.  Of its answer only what the pipeline tells apart *)
(* is kept; the content of a response is the request it answered.          *)
(***************************************************************************)
EXTENDS Integers, FiniteSets

CONSTANTS
    Request,      \* requests, one goroutine each
    NoRequest,
    Sub,          \* short UUIDs
    NoSub,        \* of a path that names no subscription
    ClientType,   \* client types a path may ask for
    NoType,       \* of a path that asks for none, or for an unknown one
    Starts,       \* configurations to start with and the requests that come
    TTL, MaxBytes, MaxBody,  \* of the fallback cache
    BodySizes, HeaderSizes,  \* sizes of the page's answers
    Never,        \* the time of what has not happened
    MaxTime       \* bound of the model: the clock stops there

\* What ServeHTTP derives from the path and the headers.  "broken" agents match
\* a notice rule of user_agents, "banned" ones a block rule, an "app" neither.
Arrival == [probe : BOOLEAN, sub : Sub \cup {NoSub}, type : ClientType,
            agent : {"app", "broken", "banned"}, gzip : BOOLEAN,
            method : {"GET", "HEAD"}]

\* Which stages of Options are on.
Config == [cache : BOOLEAN, rewrites : BOOLEAN, shuffler : BOOLEAN,
           userAgents : BOOLEAN]

ASSUME ConstantsAssumption ==
    /\ NoRequest \notin Request
    /\ NoSub \notin Sub
    /\ IsFiniteSet(Sub)  \* a short UUID has at most 128 bytes
    /\ IsFiniteSet(ClientType) /\ NoType \in ClientType
    /\ Starts \subseteq [conf : Config, rq : [Request -> Arrival]]
    /\ TTL \in Nat /\ MaxBytes \in Int /\ MaxBody \in Nat /\ MaxTime \in Nat
    /\ BodySizes \subseteq Nat /\ HeaderSizes \subseteq Nat
    /\ Never \notin Nat

VARIABLES
    conf,     \* the configuration, fixed at startup
    rq,       \* what each request asks
    pc,       \* the stage each request is in
    up,       \* what the page said to it
    body,     \* whose response it is about to write; NoRequest for a notice
    reply,    \* what its client got
    heardAt,  \* history: when the page sent what may be stored
    keptAt,   \* history: when its response was stamped for the cache
    now, entries, bytes, putting  \* the fallback cache (SubCache)

cacheVars == <<entries, bytes, putting>>
vars == <<conf, rq, pc, up, body, reply, heardAt, keptAt, now, cacheVars>>

-----------------------------------------------------------------------------
(* Who takes part in what                                                  *)

Key == [sub : Sub, type : ClientType, agent : {"app", "broken", "banned"},
        gzip : BOOLEAN]

Cache == INSTANCE SubCache WITH
            Writer <- Request, Origin <- Request, NoOrigin <- NoRequest

\* p.observes: some stage looks at responses; without one the proxy relays.
Observes == conf.rewrites \/ conf.cache \/ conf.shuffler \/ conf.userAgents

\* UserAgentFilter.Match, asked about subscription paths only.
Rule(r) == IF conf.userAgents /\ rq[r].sub # NoSub THEN rq[r].agent ELSE "app"

HasNotice(r) == Rule(r) = "broken"

\* info.cacheKey is set.
Keyed(r) == conf.cache /\ rq[r].sub # NoSub /\ ~HasNotice(r)

\* MUTANT Accept-Encoding is left out of the key.
KeyWithoutEncoding(r) ==
    [sub |-> rq[r].sub, type |-> rq[r].type, agent |-> rq[r].agent,
     gzip |-> FALSE]

\* MUTANT the client type is left out of the key.
KeyWithoutType(r) ==
    [sub |-> rq[r].sub, type |-> NoType, agent |-> rq[r].agent,
     gzip |-> rq[r].gzip]

\* subcache.Key
KeyOf(r) == [sub |-> rq[r].sub, type |-> rq[r].type, agent |-> rq[r].agent,
             gzip |-> rq[r].gzip]

\* shuffles
Shuffles(r) == conf.shuffler /\ rq[r].sub # NoSub

\* The Rewrite hook: Accept-Encoding goes if the body is to be rewritten.
AsksForGzip(r) == rq[r].gzip /\ ~(Shuffles(r) \/ HasNotice(r))

-----------------------------------------------------------------------------
(* The page                                                                *)

\* "down": refused, reset or timed out.  "eof": closed without an answer, the
\* page's way to refuse.  "canceled": the client went away first.  "failing": a
\* 5xx.  "payload": a subscription, perhaps compressed, perhaps breaking off.
\* "other": the web page, or any other status.
Answer == [kind : {"none", "down", "eof", "canceled", "failing", "other",
                   "payload"},
           zip : BOOLEAN, size : Nat, whole : BOOLEAN]

Bare(kind) == [kind |-> kind, zip |-> FALSE, size |-> 0, whole |-> TRUE]

Payloads(r) ==
    IF rq[r].method = "HEAD" THEN {Bare("payload")}
    ELSE [kind : {"payload"}, zip : {FALSE} \cup {AsksForGzip(r)},
          size : BodySizes, whole : {TRUE}]
         \cup [kind : {"payload"}, zip : {FALSE}, size : {0}, whole : {FALSE}]

Answers(r) ==
    {Bare(kind) : kind \in {"down", "eof", "canceled", "failing", "other"}}
        \cup Payloads(r)

NoResponse(a) == a.kind \in {"down", "eof", "canceled"}

-----------------------------------------------------------------------------
\* "refused", "block": answered here.  "notice", "own", "aborted": the page's
\* answer with its hosts replaced, as it is, or breaking off.
Reply == [kind : {"none", "refused", "block", "notice", "dropped", "gone"},
          from : {NoRequest}]
         \cup [kind : {"own", "aborted", "replay"}, from : Request]

TypeOK ==
    /\ conf \in Config
    /\ rq \in [Request -> Arrival]
    /\ pc \in [Request -> {"new", "error", "modify", "rewrite", "finish",
                           "put", "copy", "done"}]
    /\ up \in [Request -> Answer]
    /\ body \in [Request -> Request \cup {NoRequest}]
    /\ reply \in [Request -> Reply]
    /\ heardAt \in [Request -> Nat \cup {Never}]
    /\ keptAt \in [Request -> Nat \cup {Never}]
    /\ Cache!TypeOK

Init ==
    /\ \E start \in Starts : conf = start.conf /\ rq = start.rq
    /\ pc = [r \in Request |-> "new"]
    /\ up = [r \in Request |-> Bare("none")]
    /\ body = [r \in Request |-> r]
    /\ reply = [r \in Request |-> [kind |-> "none", from |-> NoRequest]]
    /\ heardAt = [r \in Request |-> Never]
    /\ keptAt = [r \in Request |-> Never]
    /\ Cache!Init

Goto(r, stage) == pc' = [pc EXCEPT ![r] = stage]

Finally(r, kind, from) ==
    /\ Goto(r, "done")
    /\ reply' = [reply EXCEPT ![r] = [kind |-> kind, from |-> from]]

-----------------------------------------------------------------------------
(* ServeHTTP                                                               *)

\* The blocker refuses a probe before anything else looks at it.
ServeProbe(r) ==
    /\ pc[r] = "new"
    /\ rq[r].probe
    /\ Finally(r, "refused", NoRequest)
    /\ UNCHANGED <<conf, rq, up, body, heardAt, keptAt, now, cacheVars>>

\* A block rule: the message is written without the page.
ServeBlock(r) ==
    /\ pc[r] = "new"
    /\ ~rq[r].probe
    /\ Rule(r) = "banned"
    /\ Finally(r, "block", NoRequest)
    /\ UNCHANGED <<conf, rq, up, body, heardAt, keptAt, now, cacheVars>>

\* Anything else is forwarded: the reverse proxy's round trip.
RoundTrip(r) ==
    /\ pc[r] = "new"
    /\ ~rq[r].probe
    /\ Rule(r) # "banned"
    /\ \E a \in Answers(r) :
          /\ up' = [up EXCEPT ![r] = a]
          /\ heardAt' = [heardAt EXCEPT ![r] =
                            IF Keyed(r) /\ a.kind = "payload" THEN now ELSE Never]
          /\ Goto(r, IF NoResponse(a) THEN "error"
                     ELSE IF Observes THEN "modify" ELSE "copy")
    /\ UNCHANGED <<conf, rq, body, reply, keptAt, now, cacheVars>>

-----------------------------------------------------------------------------
(* handleError                                                             *)

\* MUTANT an expired entry counts as found.
ReplayableIfPresent(r) == Keyed(r) /\ entries[KeyOf(r)].from # NoRequest

\* cached: there is a key, and Get finds something under it.
Replayable(r) == Keyed(r) /\ Cache!Fresh(KeyOf(r))

\* Get, where the code calls it: an expired entry goes on the way.
LookUp(r) ==
    /\ IF Keyed(r) THEN Cache!Get(KeyOf(r)) ELSE UNCHANGED <<entries, bytes>>
    /\ UNCHANGED <<putting, now>>

\* The client is gone; nothing is written.
GiveUp(r) ==
    /\ pc[r] = "error"
    /\ up[r].kind = "canceled"
    /\ Finally(r, "gone", NoRequest)
    /\ UNCHANGED <<conf, rq, up, body, heardAt, keptAt, now, cacheVars>>

\* writeFromCache
Replay(r) ==
    /\ pc[r] = "error"
    /\ up[r].kind # "canceled"
    /\ Replayable(r)
    /\ LookUp(r)
    /\ Finally(r, "replay", Cache!Found(KeyOf(r)).from)
    /\ UNCHANGED <<conf, rq, up, body, heardAt, keptAt>>

\* Nothing to replay: the connection is closed (or, where it cannot be taken
\* over, answered 502).
Drop(r) ==
    /\ pc[r] = "error"
    /\ up[r].kind # "canceled"
    /\ ~Replayable(r)
    /\ LookUp(r)
    /\ Finally(r, "dropped", NoRequest)
    /\ UNCHANGED <<conf, rq, up, body, heardAt, keptAt>>

-----------------------------------------------------------------------------
(* ModifyResponse                                                          *)

\* MUTANT the page's errors always pass through.
ReplacesNothing(r) == FALSE

\* replaceWithCache, its first test: a status of 500 or more.
Replaces(r) == up[r].kind = "failing"

\* replaceWithCache and what follows it at once.
Substitute(r) ==
    /\ pc[r] = "modify"
    /\ Replaces(r) /\ Replayable(r)
    /\ LookUp(r)
    /\ body' = [body EXCEPT ![r] = Cache!Found(KeyOf(r)).from]
    /\ Goto(r, "copy")
    /\ UNCHANGED <<conf, rq, up, reply, heardAt, keptAt>>

Process(r) ==
    /\ pc[r] = "modify"
    /\ ~(Replaces(r) /\ Replayable(r))
    /\ IF Replaces(r) THEN LookUp(r) ELSE UNCHANGED <<now, cacheVars>>
    /\ Goto(r, IF HasNotice(r) \/ conf.rewrites THEN "rewrite" ELSE "finish")
    /\ UNCHANGED <<conf, rq, up, body, reply, heardAt, keptAt>>

\* noticeMessage and Engine.Apply: what they do to message and headers is not
\* this module's concern; that they may wait for the panel is.
Rewrite(r) ==
    /\ pc[r] = "rewrite"
    /\ Goto(r, "finish")
    /\ UNCHANGED <<conf, rq, up, body, reply, heardAt, keptAt, now, cacheVars>>

\* rewritable
Rewritable(r) == up[r].kind = "payload"

\* applyNotice: the hosts go; other answers pass.  Nothing is kept.
ApplyNotice(r) ==
    /\ pc[r] = "finish"
    /\ HasNotice(r)
    /\ body' = IF Rewritable(r) THEN [body EXCEPT ![r] = NoRequest] ELSE body
    /\ Goto(r, "copy")
    /\ UNCHANGED <<conf, rq, up, reply, heardAt, keptAt, now, cacheVars>>

\* MUTANT what was read before the page broke off is kept.
StoresPartial(r) == Keyed(r) /\ Rewritable(r) /\ up[r].size <= MaxBody

\* MUTANT what was read up to the limit is kept.
StoresCut(r) == Keyed(r) /\ Rewritable(r) /\ up[r].whole

\* store: a subscription, read to its end within the limit.  shuffle came first
\* and has read the same body; a permutation changes neither test.
Stores(r) == Keyed(r) /\ Rewritable(r) /\ up[r].whole /\ up[r].size <= MaxBody

Pass(r) ==
    /\ pc[r] = "finish"
    /\ ~HasNotice(r)
    /\ ~Stores(r)
    /\ Goto(r, "copy")
    /\ UNCHANGED <<conf, rq, up, body, reply, heardAt, keptAt, now, cacheVars>>

StampEntry(r) ==
    /\ pc[r] = "finish"
    /\ ~HasNotice(r)
    /\ Stores(r)
    /\ \E h \in HeaderSizes : Cache!Stamp(r, KeyOf(r), r, up[r].size, h)
    /\ keptAt' = [keptAt EXCEPT ![r] = now]
    /\ Goto(r, "put")
    /\ UNCHANGED <<conf, rq, up, body, reply, heardAt, now, entries, bytes>>

PutEntry(r) ==
    /\ pc[r] = "put"
    /\ Cache!Insert(r)
    /\ Goto(r, "copy")
    /\ UNCHANGED <<conf, rq, up, body, reply, heardAt, keptAt>>

\* The reverse proxy writes the response out.  One that broke off upstream
\* breaks off here too.
CopyOut(r) ==
    /\ pc[r] = "copy"
    /\ LET kind == CASE body[r] = NoRequest -> "notice"
                     [] body[r] \in Request \ {r} -> "replay"
                     [] OTHER -> IF up[r].whole THEN "own" ELSE "aborted"
       IN  Finally(r, kind, body[r])
    /\ UNCHANGED <<conf, rq, up, body, heardAt, keptAt, now, cacheVars>>

-----------------------------------------------------------------------------
Step(r) == \/ ServeProbe(r) \/ ServeBlock(r) \/ RoundTrip(r)
           \/ GiveUp(r) \/ Replay(r) \/ Drop(r)
           \/ Substitute(r) \/ Process(r) \/ Rewrite(r)
           \/ ApplyNotice(r) \/ Pass(r) \/ StampEntry(r) \/ PutEntry(r)
           \/ CopyOut(r)

Tick ==
    /\ now < MaxTime
    /\ now' = now + 1
    /\ UNCHANGED <<conf, rq, pc, up, body, reply, heardAt, keptAt, cacheVars>>

Next == (\E r \in Request : Step(r)) \/ Tick

Spec == Init /\ [][Next]_vars

-----------------------------------------------------------------------------
(* Properties                                                              *)

\* The variant of a subscription a client asks for, as the README lists what
\* entries are keyed by; NoKey if nothing may be kept for or replayed to it.
NoKey == [sub |-> NoSub, type |-> NoType, agent |-> "app", gzip |-> FALSE]
Variant(r) ==
    IF conf.cache /\ rq[r].sub # NoSub
        /\ ~(conf.userAgents /\ rq[r].agent = "broken")
    THEN [sub |-> rq[r].sub, type |-> rq[r].type, agent |-> rq[r].agent,
          gzip |-> rq[r].gzip]
    ELSE NoKey

\* What a request heard from the page, in the contract's terms.
Complete(a) == a.kind = "payload" /\ a.whole /\ a.size <= MaxBody
Verdict(r) == CASE up[r].kind = "none"                       -> "nothing"
                [] up[r].kind \in {"down", "eof", "failing"} -> "failed"
                [] up[r].kind = "canceled"                   -> "gone"
                [] Complete(up[r])                           -> "good"
                [] OTHER                                     -> "unfit"

Decided(r) ==
    CASE reply[r].kind \in {"refused", "block"} ->
            [kind |-> "local", from |-> NoRequest]
      [] reply[r].kind \in {"own", "notice", "aborted"} ->
            [kind |-> "own", from |-> r]
      [] reply[r].kind \in {"dropped", "gone"} ->
            [kind |-> "closed", from |-> NoRequest]
      [] reply[r].kind = "replay" ->
            [kind |-> "replay", from |-> reply[r].from]
      [] pc[r] = "copy" /\ body[r] \in Request \ {r} ->
            [kind |-> "replay", from |-> body[r]]
      [] OTHER -> [kind |-> "none", from |-> NoRequest]

\* What the README promises of the fallback cache: the page is asked first; a
\* stored response is used only if that fails, for the same user, client type,
\* client and encoding, within its TTL; only complete subscriptions within
\* SUBSCRIPTION_CACHE_MAX_BODY are stored, and never those answered with a notice.
Contract == INSTANCE FallbackContract WITH
    key <- [r \in Request |-> Variant(r)],
    said <- [r \in Request |-> Verdict(r)],
    kept <- keptAt,
    outcome <- [r \in Request |-> Decided(r)]
HonoursContract == Contract!Spec

\* Nobody is sent a compressed body who did not ask for one, replay or not.
AcceptableEncoding ==
    \A r \in Request :
        reply[r].kind \in {"own", "aborted", "replay"} /\ up[reply[r].from].zip
            => rq[r].gzip

\* Nobody is turned away, or sent the page's error, while a stored response of
\* his own is still within its TTL.
OutageCovered ==
    [][\A r \in Request :
         /\ Variant(r) # NoKey
         /\ \/ reply'[r].kind = "dropped" /\ reply[r].kind = "none"
            \/ up[r].kind = "failing" /\ pc[r] = "modify"
                  /\ pc'[r] \in {"rewrite", "finish"}
         => ~Cache!Fresh(Variant(r))]_vars

-----------------------------------------------------------------------------
(* Statements of the repository that the code does not meet                *)

\* README: "Requests the upstream refuses are dropped rather than answered, as
\* the page itself does."  The page refuses by closing the connection.
RefusalsAreDropped ==
    \A r \in Request : up[r].kind = "eof" => reply[r].kind \in {"none", "dropped"}

\* README: the proxy replays the last response "so existing users keep a
\* working configuration": what a GET gets in a replay is a payload.
ReplaysAreUsable ==
    \A r \in Request :
        reply[r].kind = "replay" /\ rq[r].method = "GET"
            => up[reply[r].from].size > 0

\* README: the proxy "keeps the last successful subscription response": what is
\* kept for a key is never replaced by something the page said before it.
KeepsTheLast ==
    [][\A k \in Key :
         entries[k].from # NoRequest /\ entries'[k].from # NoRequest
            => heardAt[entries'[k].from] >= heardAt[entries[k].from]]_vars

=============================================================================

# Verification of remnawave-subpage-proxy

TLA+ models of the proxy's core logic, the TLC runs that check them on small
instances, and theorems about them that the TLA+ proof system checks for every
value of their constants. Paths below are relative to the repository; line
numbers refer to the commit this directory sits beside.

To check a run: `tlc -config MCPanelCache.cfg MCPanelCache` (each `.cfg` names
its run's instance; `PROJECT.json` lists which module it belongs to). To check
the proofs: `tlapm PanelCache_proofs.tla`, and likewise for the other `_proofs`
modules and `SetLemmas`.

## The system

The proxy stands between clients and the Remnawave subscription page. A request
is refused, answered here, or forwarded; the page's answer is rewritten,
shuffled, annotated, kept, and sent. When the page fails, a kept answer may
stand in for it.

| Component | Code | State it keeps | Operations | Hard behaviour |
|---|---|---|---|---|
| Panel cache | `internal/panel/cache.go` | entries with expiry, calls in flight | `SubscriptionInfo`, `lookup`, `store`, `evictIfNeededLocked` | two critical sections per call; collapsed calls; clients that hang up; a fetch detached from its leader's context; expiry; a bound |
| Panel client | `internal/panel/client.go` | none (a connection pool) | `SubscriptionInfo`, `Ping` | timeouts, three kinds of outcome |
| Fallback cache | `internal/subcache/subcache.go` | stored responses, a running byte total | `Get`, `Put`, `evictLocked`, `Stats` | clock read before the lock; a budget in bytes; eviction by age; expiry on lookup |
| Proxy pipeline | `internal/proxy/proxy.go`, `cache.go`, `body.go`, `shuffle.go` | none beyond its parts | `ServeHTTP`, the hooks of the reverse proxy, `handleError` | concurrent requests over one cache; a page that fails in several ways; bodies that break off; stages that must happen in one order |
| User-agent filter | `internal/proxy/useragent.go` | rules | `Match`, `applyNotice`, `writeBlock` | annotated answers must not be kept |
| Route and blocker | `internal/proxy/route.go`, `block.go` | patterns, prefix | `ParseRoute`, `Blocked` | both must read one path alike |
| Rewrite engine | `internal/rewrite/engine.go`, `codec.go` | rules | `Apply`, `Render` | rules that need the panel to decide; the quota read before it is hidden; map order |
| Subscription info | `internal/subinfo` | formats | `NeedsPanel`, `Lookup`, `Limit` | header first, panel to fill in |
| Host shuffler | `internal/hosts` | groups | `Apply` per format | a permutation within groups, and lists of names that follow it |
| Templates | `internal/tmpl`, `internal/b64` | none | `Render`, `Truncate`, `Decode` | text |
| Client address | `internal/realip` | trust setting | `ClientIP` | hops beyond the chain |
| Server lifecycle | `cmd/subpage-proxy/main.go` | two servers | `serve`, health endpoints | signals against listen errors; one deadline for all |
| Configuration | `internal/config` | none after startup | `Load`, `validate` | rejected combinations |
| Header spelling, logging, version | `internal/proxy/headercase.go`, `internal/logging`, `internal/version` | none | | |

How they interact: `ServeHTTP` asks the blocker, the router and the user-agent
filter, in that order, and hands the request to `httputil.ReverseProxy`. Its
`ModifyResponse` hook calls the fallback cache (on a 5xx), the engine (which
calls the panel cache, which calls the panel client), the shuffler and the
fallback cache again (to keep the answer). Its `ErrorHandler` calls the fallback
cache alone. Two pieces of state are shared by concurrent requests, each behind
a mutex of its own: the panel cache and the fallback cache. That is where the
models start.

What makes each component correct:

- *Panel cache*: never two lookups of one user at once; no lookup the cache
  could have answered; nobody's hang-up is felt by others; nobody waits for
  ever; no answer older than promised; the bound holds, and live entries are
  given up last.
- *Fallback cache*: it is a map that may forget, never one that mixes up keys
  or revives what was replaced; the byte count is right; the budget holds; the
  oldest go first, and none goes that would have fitted.
- *Proxy pipeline*: the page is always asked first; a stored response is used
  only when the page failed, for the same client, within its time, and only if
  it was a complete subscription; while there is one, an outage is not seen.
- *Engine*: per header the first rule that holds wins, whatever the order of
  scanning; conditions and placeholders see the page's quota, not the hidden
  one; the panel is asked only when something cannot be answered without it;
  what nothing asks to be changed passes byte for byte.
- *Shuffler*: hosts move only within their group, none is lost or doubled, and
  every list of names follows them.
- *Route and blocker*: a prefix changes neither what is a probe nor what is a
  subscription; whatever file the page takes a path for, it was judged too.
- *Client address*: the page sees the client, whatever the client wrote, if
  `TRUST_PROXY` fits what stands in front.
- *Configuration*: a process that serves has the limits it was told.
- *Server lifecycle*: a clean exit means that nothing in flight was cut off;
  every signal ends in an exit, and before the orchestrator's kill.

## Modules

| Module | Models | Checked by | Proved in |
|---|---|---|---|
| `PanelCache` | `internal/panel/cache.go`; `client.go` by its outcomes | `panel_cache`, `panel_cache_live` | `PanelCache_proofs` |
| `SubCache` | `internal/subcache/subcache.go` | `sub_cache`, and inside `proxy` | `SubCache_proofs` |
| `FallbackStore` | what `SubCache` promises its callers: an abstract map | refined in `sub_cache` | refinement in `SubCache_proofs` |
| `Proxy` | `internal/proxy`, composed with `SubCache` | `proxy`, `proxy_refusal`, `proxy_head`, `proxy_last` | `Proxy_proofs` |
| `HeaderEngine` | `internal/rewrite`, and the parts of `internal/subinfo` and `internal/tmpl` it decides by | `header_engine`, `header_partial` | `HeaderEngine_proofs` |
| `HostShuffle` | `internal/hosts` | `host_shuffle` | `HostShuffle_proofs` |
| `Filtering` | loops that keep some entries of a list (`splitPath`, `forwardedChain`, `reorderNames`) | inside `ingress`, `host_shuffle` | `SetLemmas` |
| `PathRules` | `route.go`, `block.go` | inside `ingress` | `Ingress_proofs` |
| `ClientAddress` | `internal/realip` | inside `ingress` | `Ingress_proofs` |
| `Settings` | `internal/config`, and the health probe of `main.go` | inside `ingress` | `Ingress_proofs` |
| `Ingress` | start-up and a request up to the round trip, composed of the three above | `ingress` | `Ingress_proofs` |
| `Serve` | `run` and `serve` of `cmd/subpage-proxy/main.go` | `serve` | `Serve_proofs` |
| `FallbackContract` | what the README promises under "Subscription fallback cache" | refined in `proxy` | refinement in `Proxy_proofs` |

`MC*` modules and `.cfg` files give the constants small values and name the
symmetric sets. Operators marked `MUTANT` are deliberate faults: each is a form
of the operator below it with a plausible mistake in it, and no specification
uses one. Put in the place of the operator it mutates, it makes the property
that `PROJECT.json` lists beside it fail, which shows that the property can
fail.

### PanelCache

One caller is one call of `Cache.SubscriptionInfo` on its own goroutine. A
critical section of `c.mu` is one step, and everything else may happen between
two steps. `pc` follows the code: `idle` before `lookup`; `enter` between the
first look (cache.go:54) and the second lock (58); then a hit (`EnterHit`), a
wait on another's call (`Join`, `wait`) or a flight of one's own (`Lead`,
`fetch`, `publish`, `close`, for lines 72-87). The channel of a call is
`call[leader].done`, closed outside the lock as in the code. A call is named by
its leader, which is sound because a goroutine leads one call at most.

The panel is outside. A fetch ends with one of the three outcomes the cache
tells apart ("info", `ErrNotFound`, any other error) and the moment the panel
spoke, which lies between the fetch's start and its end. The entry remembers
that moment, so the age of an answer can be talked about; the code does not
store it. `Return` clears what the goroutine held in locals.

`Tick` lets time pass up to the deadline of the fetches under way: line 76 gives
a fetch 30 s. `FetchLimit` also covers the moment between the fetch's return and
its publication, during which the goroutine only takes a lock; a goroutine kept
off the processor for longer is not modelled, and would add that time to
`FreshAnswers`.

### SubCache and FallbackStore

A stored response is its origin (which request it answered), the sizes of its
body and headers, and its time. `Put` is two steps, `Stamp` (subcache.go:84-87,
before the lock) and `Insert` (89-95), so that two puts can pass each other.
`evictLocked` is stated by its outcome: a set of expired entries that the first
loop may have removed, in any order, when it stopped, and then the oldest of
what is left until the second loop stops. A loop that stopped was still over
the budget before its last turn; in the first that may have been any entry, in
the second it is the youngest of those it took (`YoungestOf`). Ties in age are
broken either way, as by Go's map order. `EvictsOnlyForRoom` states the outcome
without the loops: a live entry goes only if it and all that was stored no
earlier do not fit. The clock cannot move between the two reads of `c.now()` in
one critical section: ticks are seconds or longer, as the TTL is.

`FallbackStore` is what a caller may rely on: a key holds nothing or the last
response taken from a writer that offered it under that key.
`SubCache!ImplementsStore` is the refinement, with the writers' stamped entries
as offers.

### Proxy and FallbackContract

A request is one run of `ServeHTTP`. Its inputs are what the routing functions
derive: whether it is a probe, which subscription and client type its path names
(`NoType` for none, or for one the page does not know), which kind of rule its
User-Agent matches, whether it accepts gzip, and its method. The stages in
`pc` are those at which another request can run in between: the round trip, the
panel lookup (`Rewrite`), the stamp and the insertion of the kept response, the
copy to the client. `Proxy` calls `SubCache`'s operators `Get`, `Stamp` and
`Insert` where the code calls the cache's methods, so the cache in this module
is the same definition that is checked and proved about on its own.

The page is outside; it may answer with a subscription (complete, compressed if
that was asked for, too large, or breaking off), with a 5xx, with anything else
(the web page, a 404), not at all, or by closing the connection, and the client
may be gone first. A body that stalls until a timeout is one that breaks off.
`heardAt` and `keptAt` are history: they record when the page spoke and when the
answer was stamped, and no action reads them.

`FallbackContract` restates the README's promise over what a client can see: a
request is heard by the page before anything but a local answer, a replay needs
a failure, the same key, a kept answer and its TTL, and only good answers are
kept: subscriptions that arrived whole and within the size limit. Anything else
the page says for good is "unfit", and such an answer may be passed on but not
kept. `Proxy!HonoursContract` maps each request's state to it. The key it uses
is `Variant`, written from the README's list of what entries are keyed by (user,
client type, kind of User-Agent, encoding), not from `KeyOf`; its mutants are a
key without the client type, a body kept although it broke off, and one kept
although it was cut at the limit.

`AcceptableEncoding` takes from the page that it honours `Accept-Encoding`: it
compresses only if it was asked to. A page that does not would be passed on as
it answers, with or without the cache.

In this module the engine is one step, `Rewrite`, and the shuffler is the
condition on which bodies are read; what they do to a response is in the two
modules below.

### HeaderEngine

One behaviour is one response going through `Engine.Render` (the notice for a
broken User-Agent, if there is one) and `Engine.Apply`. Engine, request,
response and panel are chosen at the start; the only choices after that are the
ones the code leaves open, of which there is one: Go's map order, in
`CollectHeaders`.

| Action | Code |
|---|---|
| `RenderNotice` | `Render`, engine.go:168-173 |
| `Enter` | counters read, quota hidden, the early return (90-107) |
| `CollectRule`, `CollectHeaders` | `collect`, first the rules, then the scan (217-261) |
| `Fetch` | the tally of what needs the panel, and `fetchInfo` (109-136, 176-194) |
| `Write` | one turn of the loop over candidates (138-166) |

A text is the set of what it is made of: words, placeholders, values in their
place, fields of the userinfo header. That keeps everything a rule can see (does
the text contain a placeholder, which, what is shown instead) and leaves out
order and wording. A header has a wire form besides; `base64url` stands for
base64 in any alphabet but the one the code writes, so that a text that was
decoded and encoded again differs from the one that came. Values carry where
they came from, and those that depend on what was known their amount or date.

`Catalog` has a name or two of each way in which `Lookup` comes to a value: from
the request (`SHORT_UUID`), from the header's counters or, where it has none,
the panel's (`TRAFFIC_USED`, `TRAFFIC_LIMIT`), from the header alone
(`TRAFFIC_DOWNLOAD`), a date that is shown as "never" if there is none
(`EXPIRES_AT`), the days left (`DAYS_LEFT`), and the panel alone (`USERNAME`).
The others are formatted differently or computed from these.

`Expected` says what a header should end as without candidates, tallies or
order: ask the panel at once, take the first rule that holds and has something
to do. `LazyLookupUnseen` compares. Its premise, `WholeInfo`, is that a
userinfo header that is there has its counters and a date; `header_partial`
shows what happens without one. There is one thing it leaves open, because the
code does (vars.go:268): the days left are the panel's count if the panel was
asked, for whatever reason, and are counted from the header's date otherwise. So
a rule that asks the panel may change the days that another header shows.
`Undated` lets a text show either of the two and nothing else.

Two things the code does are in `Expected` as they are: a header that some rule
names is not scanned, even when no rule of it holds for this request
(engine.go:226); and a rule that holds but has nothing to do, such as the
removal of a header that is not there, lets a later one decide (engine.go:238).
With `force_unlimited`, `{ORIGINAL_VALUE}` of the userinfo header is the one
with the quota hidden.

### HostShuffle

One behaviour is one body going through `Shuffler.Apply`: `Sniff`, then
`permutation` group by group (`ShuffleGroup`, any order that `rand.Shuffle` may
draw), `Place` for the new order of the entries, then `FollowList` for each
sing-box selector or Clash group, and `Encode`. The pattern of a group is the
set of names it matches. A host is an atom with a name; the formats differ in
which entries have one (in sing-box only those with a server) and whether there
are lists. `perm` is the code's: the entry that fills a slot.

A member of a list that is not a scalar (a YAML alias) has the empty name, as in
`scalarValue`, and Clash's members are looked up by name after the sort; so two
such members in a list that moves would become one. `ListsKeepMembers` speaks of
lists with at most one.

`ListsMirrorHosts` says why lists have to follow: a client takes the first entry
of a selector as others take the first host. It is about lists that named every
shuffled host in the hosts' order, as the panel writes them. A list that names
only some is sorted too, and there a group may take another's positions.

### PathRules, ClientAddress, Settings and Ingress

The first three are operators without state, one module for each package; a
definition has the name of the function it stands for where there is one.

In `PathRules` a segment is an atom, and sets of segments say what the rules see
in its spelling (begins with a dot, has a scanner's extension, is longer than
128 bytes). `Shared` is how far the prefix is matched, since `stripPrefix` gives
back what is left when the first segment differs: the router discards that, the
blocker does not, and looks at the shorter path (block.go:91).

In `ClientAddress` an address has several spellings, of which `Normal` keeps
one; which addresses a network holds is a parameter. In `Settings` a written
value is what its parser finds in it, and products wrap at `Half`, half of what
an integer can be (2^63 in the program).
`Loaded`, `Problems` and `RefusesFile` are the outcome of `config.Load`.

`Ingress` puts them together. One behaviour is one start of the process and one
request: `Load`, `LoadFile` and `NewHandler`, each of which may end it, then
`Refuse`, `Answer` (a broken User-Agent that is blocked) or `Forward`. Requests
share nothing on this path, so one is enough. The request is described by who
sent it and which proxies passed it on, and `Remote` and `Forwarded` work out
what arrives; what the client wrote into `X-Forwarded-For` itself (`spoofed`) is
in front. What `Ingress` finds out is what `Proxy` takes as given: probe or not,
which subscription, what its User-Agent calls for.

- `PrefixTransparent` compares a path under the prefix with the rest of it
  without one. Two things are left aside, both as the code has them: custom
  patterns see the whole path, and a prefix with a scanner's extension refuses
  everything under it.
- `ForwardedAsJudged` takes each leading part of a forwarded path with its dots
  resolved, and asks the blocker again. The README's `/index.php/x` and
  `/assets/../` are instances.
- `LinkLeadsBack` reads the rebuilt link as a request. It compares origins with
  what the page is told, unless a forwarded header begins with an empty entry,
  where the code takes another value for the link.
- `PageSeesTheClient` applies `ClientIP` once more, as a page with
  `TRUST_PROXY=1`, to what is forwarded. Its premise `TrustFits` is what an
  operator has to get right: the number of proxies, or networks that hold all of
  them and not the client; with `true`, a client that wrote nothing.
- `StartedAsWritten` compares the limits in force with the values as written,
  where their product fits the width, and asks that the container's health probe
  find a process that works. The probe reads `HEALTH_PORT` by itself, with a
  default of its own (`ProbePort`), and `Healthy` compares what it reads with
  where the process listens. Its premise is a port that is unset or a plain
  number, and a host that the loopback address reaches.

### Serve

`main`, one goroutine per server, requests, the orchestrator and the clock
interleave. `pc` is where `main` is: in `run`, in the `select` (main.go:200),
between turns of the shutdown loop (`stop`), or inside a `Shutdown`, before its
first look at open connections (`poll`) or waiting for them or for its context
(`wait`). `turn` counts `i` down, and is `i + 1`. `deadline` belongs to
`shutdownCtx`, which all servers share.

Of `http.Server` the module keeps what `serve` relies on: `ListenAndServe` may
fail at any time before `Shutdown`; it returns `ErrServerClosed` after, also
when `Shutdown` came first; `Shutdown` looks at open requests before it looks at
its context, and cuts nothing off. What is cut off is what is in flight when
`main` returns (`cut`). The grace period is chosen at the start, above, at or
below the timeout, since only the deployment knows it. Ticks are long: whoever
can run runs before time passes, so the few instructions between two waits take
none of it.

`CutsAreJustified` reads the exit status: 0 means that nobody was cut off, and
an error of the health server that only its probes were. It also says that the
public server, which comes last, has the whole timeout from the signal even if
the health server used it up as well. `NeverKilled` and `Exits` are the other
half: the process is gone in time, whatever is in flight.

## Runs

| Run | Shows | Bounds |
|---|---|---|
| `panel_cache` | every safety property of the panel cache, including who is evicted | 3 callers, 3 keys, 2 entries, TTL 1 and negative TTL 2, a fetch of at most 1 tick, time up to 2 |
| `panel_cache_live` | every call returns | 3 callers of 1 key, time up to 1, weak fairness |
| `sub_cache` | accounting, budget, choice of victims, refinement of `FallbackStore` | 3 keys, 2 writers, a budget of 5, bodies of 1, 3 and (over the limit) 4, headers of 0 and 3 (an exact fit, and one entry over the budget alone), TTL 1, time up to 3 |
| `proxy` | the contract, encodings, coverage of outages | 3 requests, 2 users, 2 client types, 4 configurations, two storable responses exceed the budget, time up to 2 |
| `header_engine` | each header ends as the first rule that holds would have it; the panel is asked only if need be; what passes and what is shown | 3 headers, 34 lists of up to two rules, 60 responses, 8 sets of options, 3 panels and no short UUID |
| `header_partial` | the fallback for a missing counter (see Findings) | no rules, a header without a quota |
| `ingress` | a prefix changes no verdict, nothing passes under another name, links lead back, the page sees the client, limits are as written | 6 prefixes, paths of 3 segments of any of 13 kinds or empty, of 4 segments of 9 kinds, 2 segments of any kind under each prefix; 18 values of `TRUST_PROXY` for chains of up to 2 proxies behind a client that wrote up to 2 entries; 12 values for each limit, the cache's three in all combinations; lists of up to 2 User-Agent rules; 8-bit numbers |
| `serve` | who is cut off, that the process ends, and in time | 2 servers, 3 requests, a timeout of 2 ticks, grace periods of 1 to 3 |
| `host_shuffle` | no host lost, layout kept, lists follow | bodies of up to 4 hosts with 5 names, 4 sets of patterns, lists of up to 4 members, all formats |
| `proxy_refusal`, `proxy_head`, `proxy_last` | statements of the repository that the code does not meet (see Findings) | 2 requests for one user |

Why the bounds suffice. *Panel cache*: the interesting cases need a leader, a
waiter and a third caller that publishes or evicts between the two; two keys
more than fill a cache of two, and time 2 lets an entry expire and be fetched
again within both lifetimes. Callers do not repeat: a caller that has returned
holds nothing, so a second call is another caller. *Fallback cache*: two writers
is the number that can pass each other between the clock and the lock; three
keys let one eviction remove an expired entry, an old one and keep a third.
*Proxy*: one request stores, another replaces or evicts, a third is replayed to;
`SomeStarts` combines all kinds of request with every configuration alone and in
pairs, and three plain requests of one or two users with the cache alone.
*Headers*: one header has lists of two rules, drawn from six that use every
condition, encoding and kind of action, in both orders, since what a rule can do
to another is to come before it or after; another has a rule while a third is
scanned. Options do not read one another, so each is changed on its own, with
`force` and the userinfo header in all forms. By the page's date two days are
left and by the panels' counts one or none, with a day that has begun, a date of
zero and none at all. *Hosts*: an exchange within one
group next to another needs three hosts, a name that two patterns match needs
two, and the fourth repeats a name, has none, or is in no group; lists of four
hold all of them in any order. *Paths*: the blocker's exemptions look at two
segments and the router at two after the prefix, so three of every kind hold a
rule, its exemption and what spoils it, and a fourth lets dots undo one of them.
*Addresses*: two proxies and two entries that the client wrote make every hop
count from 0 to 3 fall on the client, beside him, or off the chain. *Settings*:
with 8 bits the values hold a zero, a negative, an overflow to a negative and one
to zero. *Serve*: one request in flight at each server and one that arrives in
between; a second tick is what the server whose turn comes last would gain from a
timeout of its own.

Deadlock is checked in `sub_cache`. It is not in the `proxy` and `panel_cache`
runs, where every request or call ends and the clock stops, which is a state
without a successor, nor in the header and host runs, where a response is done
after a few steps, nor in `ingress` and `serve`, where a process that has given
up or exited does nothing more; that no caller of the panel cache is left waiting is
`NoOrphanWaiter` in `panel_cache` and `EveryCallReturns` in `panel_cache_live`.

### Fairness

`PanelCache!FairSpec` assumes weak fairness of each caller's own steps: the Go
runtime schedules a goroutine that can run, a mutex is handed to whoever waits
for it, and a fetch ends because its context ends (cache.go:76). Nothing is
assumed about asking, hanging up, or the clock. `EveryCallReturns` starts at the
second critical section, so it says nothing about callers that never ask.

`Serve!FairSpec` assumes weak fairness of `main`'s steps, as a goroutine that
can run, and of the clock. Nothing is assumed about listeners, requests, signals
or the orchestrator: `Exits` holds for requests that never end, because the
context of the shutdown does. No other liveness is claimed.

## Findings

Four runs refute statements the repository makes; `PROJECT.json` quotes them.

- `proxy_refusal`: the page refuses by closing the connection, `handleError`
  treats that as an outage (proxy.go:239), so a refused user is served his
  stored subscription until its TTL ends. The README has both statements: that a
  dropped connection is an outage, and that refusals are dropped.
- `proxy_head`: a HEAD's empty 200 is stored under the key of the GET
  (proxy.go:212), and replayed to it during an outage.
- `proxy_last`: the answer kept is the one that finished last, not the one the
  page gave last (proxy.go:165).
- `header_partial`: a userinfo header that lacks a counter keeps its placeholder
  unfilled although the panel knows the value, because `NeedsPanel` asks only
  when the header is missing altogether (vars.go:114). vars.go:19 says that such
  placeholders fall back to the panel. Once something else makes the proxy ask,
  they do.

Other disagreements were met while modelling; no run is spent on them.

- README.md:463 exempts `.well-known` and `/assets/.app-config-v2.json`, "those
  two only"; the code exempts every dotted name with the extension `.json`
  directly in `/assets` (block.go:110). `Exempt` is the code's.
- env.go:11 says that every problem is reported at once; one in `TRUST_PROXY`
  is reported by `newHandler` (main.go:100), after those of the environment and
  of the file have been corrected.
- A number of seconds whose product overflows passes the sign check (env.go:66)
  and becomes any duration, a negative one included, although the message says
  that it must not be negative. `StartedAsWritten` speaks of what fits.
- The health probe reads `HEALTH_PORT` without trimming it and asks 127.0.0.1
  whatever `HEALTH_HOST` is (main.go:254-261): with spaces around the port, or a
  server bound to another address, it reports a process that works.
- vars.go:19 says of the placeholders marked `OriginTraffic` that they prefer the
  response header. `{DAYS_LEFT}` is one, but is the panel's count although the
  header has the date, once something else makes the proxy ask the panel
  (vars.go:268). `Lookup` is the code's, and `Undated` leaves this open.
- A signal and a listener's failure that are ready together may end in either
  branch of the `select`: with the signal's, the failure is forgotten and the
  exit status is 0. A failed health listener ends the process without a drain,
  requests of the public server included (main.go:201).
- `validate` refuses a rule behind an unconditional one as unreachable
  (file.go:304-310), though the engine would come to it when the first has
  nothing to do (engine.go:238). `HeaderEngine` takes only lists that `validate`
  accepts.

## Proofs

Every invariant and every action property that a passing run checks is also a
theorem: it holds for every value of the constants that the assumptions allow,
where the run shows it for small ones. So are both refinements. What each
theorem establishes is listed in `PROJECT.json`; here is what they rest on.

`SetLemmas` holds what several proofs need. Induction is stated with a set in
place of a predicate (`NumberInduction`, `SubsetInduction`: a set of numbers, or
of subsets of a finite set, that is closed under one step is everything), since
the provers cannot instantiate a predicate. `Numbering` and `RankNumbers` say
that counting what comes before numbers the members of an ordered finite set,
`LastIndex`, `KeptEntries`, `KeptType`, `KeptBefore` and `KeptWhole` what
filtering keeps.

**PanelCache_proofs**, for every set of callers, every finite set of keys and
every value of the times and of the bound. The assumptions are those of
`PanelCache` on its constants: times are integers, `FetchLimit` is a natural
number, keys are finitely many. The properties are not inductive as they stand;
`IInv` adds what ties the parts together:

- `FlightInv`: a registered call and its leader's `pc` determine each other, and
  nothing live is stored under its key. `SingleFlight` and `FlightOnlyForStale`
  follow. The second look at the entries is what `Lead` needs to establish it.
- `NoOrphanWaiter` with `DoneInv`: a leader has not returned before its call is
  done, so a waiter's call is either done or on its way.
- `CancelInv`: no fetch ends in "canceled", which only the detached context
  makes true.
- `TimeInv`: what a caller's question, its leader's fetch and the stored entry
  have to do with each other. A waiter asked before its leader's fetch had to be
  over; an entry expires at most a fetch and a lifetime after the panel's word.
  `FreshAnswers` needs each of its parts. `Tick`'s guard, the fetch's deadline,
  is the only thing that keeps it.

Each part is kept by a lemma with one step per action; `Inductive` puts them
together. `EvictsLiveOnlyWhenFull` is an action property and needs `TypeOK`
only.

**SubCache_proofs**, for every budget, limit and TTL, any writers and finitely
many keys. From `Held`, the types of what is stored and carried, follow the
refinement of `FallbackStore` (`Refines`) and `OldestGoFirst`. The byte count is
a sum over a set, which the model writes as a fold. The lemmas under "Sums" show
that the fold satisfies its own recursive equation and that one function alone
does, by induction over the subsets of a finite set; from there, that the order
of summation does not matter (`SumAny`), that replacing an entry adds the
difference (`SumUpdate`), and that taking entries away subtracts what they cost
(`SumWithout`). `Balanced` (`Held` and `Accounting`) is then inductive.
`BudgetHolds` uses that evicting everything would leave nothing, so that a loop
which ended has found room. `NothingEvictedInVain` looks at the last turn of the
second loop: before it the total was over the budget, and what was left then is
no more than what was stored no earlier than the entry lost (`LastTurn`,
`SumMonotone`).

**Proxy_proofs**, for any requests, any finite sets of users and client types
and any limits of the cache.

- *Composition.* `Shared` is the instance of `SubCache_proofs` with the proxy's
  requests as writers. `UsesCache` shows that every step of `Proxy` is a step of
  `SubCache` or leaves the cache alone, hence `Proxy` implements `SubCache!Spec`,
  and all that was proved of the cache holds in the proxy (`CacheAlways`).
- *Invariant.* `Inv` says where a request stands (`Standing`: what its stage
  tells of the page's answer, that it has not kept anything before the stamp,
  that only a client who takes gzip was sent it), and that a response that is
  stored, in a writer's hand, in a reader's hand or sent is good for its key
  (`Stored`, `Carrying`, `Serves`): it was whole, a subscription, for the same
  key, and was kept when the entry says. The last is what carries the age of an
  entry to the contract. `AcceptableEncoding` follows because the key has the
  encoding in it.
- *Outages.* `OutagesCovered` is an action property. There are two ways to give
  up, `Drop` and `Process` of a failing response; both come after a look into
  the cache, in the same step. A copy that breaks off is answered already.
- *Refinement.* `ContractHonoured` maps each action to one of `FallbackContract`
  or to a stutter, one lemma for each; the replay is the one that needs `Inv`.

**HeaderEngine_proofs**, for every finite set of names, every list of rules that
configuration accepts, all options and any answer of the panel. The assumptions
say what a rule and a response are: texts that come or are configured hold no
filled-in values yet, times are numbers and a day is a positive one, the panel's
count of days is an integer (`ConstantsAssumption`).

- `Untouched` and `RealQuotaShown` rest on `Shape` (types), `BeforeWriting`
  (until the first write only the quota may have been hidden), `CandidatesOK` (a
  candidate has a reason in what was sent, and the texts it will render tell of
  no other quota) and `CountersOK` (the counters in use are the page's as sent,
  which is what the order in `Enter` is for).
- `LookupUnseen` says that late and spared lookups are not seen, but for the days
  left. `Expected` knows no queue; what connects them is `Race`: while rules are collected, the
  first that holds so far comes before all others of its header (`Collecting`);
  after the scan this is so for every header not yet written (`Ahead`), and a
  header written is as expected (`Settled`). `Suffices` says that what the code
  knows of the panel decides every candidate as the whole of it would; that the
  tally before `Fetch` gives it is the heart of the proof, and where `WholeInfo`
  is needed: with a whole header every name but `DAYS_LEFT` resolves as it would
  with the panel (`ResolvesAlike`, `ResultsAlike`), and the two counts of days
  are opened on both sides.
- `CommonCaseFree` follows the names that a tally can meet back to what was sent
  and what the rules say. `LiteralAlways` has an invariant of its own,
  `StillLiteral`, that the placeholders are still there at every stage.

**HostShuffle_proofs**, for any patterns, bodies, lists and draws. The
assumption is that hosts can be told apart. The invariant is that `perm` is a
bijection that respects groups (`PermOK`); that exchanging one group's slots
keeps it one needs the rest of the slots to be mapped among themselves, which
the groups give. `ListsOK` says that a list is put in order once, from the list
that was sent. The sort of `reorderNames` is described by ranks: who is k-th is
the one with k - 1 before it. `BeforeIsOrder` shows that this is an order,
`PickedNumbers` that the ranks number the slots, and `ReorderingPermutes` that
the result is a permutation that leaves the other positions alone; then lists
keep their members (`MembersOK`, with the types). For `ListsAreMirrored`,
`ReorderingMirrors` shows that sorting by the new index of a list that had the
old order exchanges its names as the hosts were exchanged, and `FollowOK` that
every list dealt with is the one that was sent, so sorted.

**Serve_proofs**, for any set of requests, any timeout and any grace periods,
from the assumption that these are natural numbers. The inductive invariant adds
`Clock` (no time passes before the drain begins, none after its deadline, and an
error means that the deadline has come), `Drain` (a server whose turn has come
accepts nothing, and one whose turn is over has nothing in flight unless the
error says so) and `Ended`. `Drain` is needed because the last server's verdict
rests on what the earlier turn left.

**Ingress_proofs**, for any environment, file, path, prefix, chain of proxies
and table of defaults. The assumptions are those of the modules it is composed
of: what a segment can look like (a name like `.env` begins with a dot, a dotted
name is no client type, and so on), that an address has one normal spelling,
that the defaults are there; and that the
process is started and asked with values of these kinds (`StartsAssumption`).
The invariant is short, since a process is started once and asked once: what was
loaded is what the environment says, without problems, and what became of the
request is what the handler makes of it. The work is in lemmas about the
operators.

- `StartedRight` compares, limit by limit, the arithmetic that wraps with the
  product as written.
- `PageSeesRight` looks at the chain from its trusted end, one case for each
  kind of `TRUST_PROXY`; `LastUntrusted` is reached through `LastIndex`, and
  what the client wrote through what filtering keeps before and after it.
- `PrefixIsTransparent` needs that splitting what was split changes nothing
  (`SplitOnce`), how far a prefix is shared (`Agree`, `SharedIs`) and what is
  left of a path (`RestIs`).
- `LinkLeadsHome` adds an identifier to the prefix and parses the two again
  (`AfterPrefix`, `NamedSubscription`), and shows that what passed in the
  request passes in the link (`LinkPasses`).
- `JudgedAsForwarded` shows that a leading part of a path that passes would have
  passed (`PartPasses`: it shares less of the prefix, or as much and leaves less
  behind it), and that such a part has no dots to resolve (`PassedUndotted`,
  `Undotted`).

Some definitions have the form they have because of the provers. `Kept` and
`Picked` count, since `SelectSeq` and `SortSeq` are recursive or chosen and say
nothing to a prover; the arms of a `CASE` do not overlap; a path is resolved by
a recursive function. TLC checks them in the same form.

Left to TLC: `EveryCallReturns` and `Exits`, which are liveness under fairness
and need `ENABLED`; and the four refuted statements, which are what a run is
for.

## Not modelled

Formatting and parsing of text, JSON and YAML, HTTP framing, connection pools,
logging. Fetchers that panic. Of the configuration: the settings that are only
passed on, the seven durations that are read like the two that are modelled, and
the sections of the file that are checked value by value (formats, vars, enums),
which count as readable or not. Of the health server: its two endpoints, which
keep no state. How long a body may stall. Of the engine: `max_length`, the
modifiers and formats of placeholders, and the further values of a header that
has several; the panel gives one answer to the notice's lookup and to the
headers', where the cache between them could have it change. Of the shuffler:
what makes a line, an outbound or a YAML node a host of a certain name, and YAML
anchors inside a host. The order in which Go's `select`
looks at two ready channels is left open (`Wake` or `Leave`). Details are with
each component in `PROJECT.json`.

## Plan

Modelled and proved so far, in this order: `PanelCache`, `SubCache` with
`FallbackStore`, `Serve`, `Proxy` with `FallbackContract`, `HeaderEngine`,
`HostShuffle`, `Ingress` with `PathRules`, `ClientAddress` and `Settings`.

What is left:

1. What `PanelCache` promises `HeaderEngine`, as an abstract specification: each
   call is answered with something the panel said about that user, in a step of
   its own, recently enough. `PanelCache` should refine it, with a proof from
   `IInv`.
2. The same for `HostShuffle`: one step that takes a body to a permutation of
   it, within groups, with its lists following; the stages refine it.
3. That the verdicts of `Ingress` are the inputs that `Proxy` assumes, so that
   what is proved of each holds of the two in sequence.

----------------------------- MODULE PanelCache -----------------------------
(***************************************************************************)
(* The memoising, call-collapsing cache in front of the Remnawave panel    *)
(* (internal/panel/cache.go).  Every subscription request that needs panel *)
(* data calls Cache.SubscriptionInfo on a goroutine of its own; a caller   *)
(* here is one such call, so it asks once and returns once.                *)
(*                                                                         *)
(* A critical section of c.mu is one step; between two of them every other *)
(* caller may run.  The panel is external: a fetch ends with what the      *)
(* client reports (internal/panel/client.go), reduced to the three kinds   *)
(* the cache tells apart, together with the moment the panel said it.      *)
(***************************************************************************)
EXTENDS Integers, FiniteSets

CONSTANTS
    Key,         \* short UUIDs
    Caller,      \* calls of SubscriptionInfo, one goroutine each
    NoCall,      \* no call is in flight; not a caller
    TTL,         \* CACHE_TTL, in ticks; zero or less caches nothing
    NegTTL,      \* CACHE_NEGATIVE_TTL
    MaxEntries,  \* CACHE_MAX_ENTRIES; zero or less is unbounded
    FetchLimit,  \* ticks from a fetch's start to its publication, at most
    MaxTime      \* bound of the model: the clock stops there

ASSUME ConstantsAssumption ==
    /\ NoCall \notin Caller
    /\ TTL \in Int /\ NegTTL \in Int /\ MaxEntries \in Int
    /\ FetchLimit \in Nat /\ MaxTime \in Nat
    /\ IsFiniteSet(Key)

VARIABLES
    now,       \* what c.now() reads
    entries,   \* c.entries; a key without an entry maps to NoEntry
    inFlight,  \* c.inFlight; the call a key maps to is named by its leader
    call,      \* the call objects, by leader: what fetch returned, and done
    started,   \* by leader: when its fetch began
    pc,        \* where each caller stands
    key,       \* the short UUID each caller asks for
    joined,    \* the call a waiting caller waits on
    hungUp,    \* the callers whose client is gone: their ctx is done
    asked,     \* when each caller called
    answer     \* what each caller returned

vars == <<now, entries, inFlight, call, started, pc, key, joined, hungUp,
          asked, answer>>

-----------------------------------------------------------------------------
(* Outcomes and entries                                                    *)

\* "info": an Info.  "notfound": ErrNotFound.  "transient": any other error
\* of the fetch.  "canceled": ctx.Err() of the caller's own context.
Kinds == {"info", "notfound", "transient", "canceled"}

Outcome == [kind : Kinds, at : Nat]
Unknown == [kind |-> "transient", at |-> 0]

Entry == [kind : {"none", "info", "notfound"}, at : Nat, expiresAt : Nat]

\* The zero value a missing map key reads as.
NoEntry == [kind |-> "none", at |-> 0, expiresAt |-> 0]

Present == {k \in Key : entries[k].kind # "none"}
Live(k) == entries[k].kind # "none" /\ now < entries[k].expiresAt
LiveKeys == {k \in Key : Live(k)}
Stored(k) == [kind |-> entries[k].kind, at |-> entries[k].at]

TypeOK ==
    /\ now \in Nat
    /\ entries \in [Key -> Entry]
    /\ inFlight \in [Key -> Caller \cup {NoCall}]
    /\ call \in [Caller -> [done : BOOLEAN, res : Outcome]]
    /\ started \in [Caller -> Nat]
    /\ pc \in [Caller -> {"idle", "enter", "wait", "fetch", "publish",
                          "close", "done"}]
    /\ key \in [Caller -> Key]
    /\ joined \in [Caller -> Caller \cup {NoCall}]
    /\ hungUp \in SUBSET Caller
    /\ asked \in [Caller -> Nat]
    /\ answer \in [Caller -> [kind : Kinds, age : Nat]]

Init ==
    /\ now = 0
    /\ entries = [k \in Key |-> NoEntry]
    /\ inFlight = [k \in Key |-> NoCall]
    /\ call = [c \in Caller |-> [done |-> FALSE, res |-> Unknown]]
    /\ started = [c \in Caller |-> 0]
    /\ pc = [c \in Caller |-> "idle"]
    /\ key \in [Caller -> Key]
    /\ joined = [c \in Caller |-> NoCall]
    /\ hungUp = {}
    /\ asked = [c \in Caller |-> 0]
    /\ answer = [c \in Caller |-> [kind |-> "transient", age |-> 0]]

-----------------------------------------------------------------------------
(* A caller's way through SubscriptionInfo                                 *)

Goto(c, where) == pc' = [pc EXCEPT ![c] = where]

\* The call returns o to a client that asked at time t, and its locals go.
\* The answer keeps how old the panel's word already was when it was asked for.
Return(c, o, t) ==
    /\ Goto(c, "done")
    /\ answer' = [answer EXCEPT ![c] =
            [kind |-> o.kind, age |-> IF o.at < t THEN t - o.at ELSE 0]]
    /\ asked' = [asked EXCEPT ![c] = 0]
    /\ started' = [started EXCEPT ![c] = 0]
    /\ joined' = [joined EXCEPT ![c] = NoCall]

\* lookup: the first look at the cache, in a critical section of its own.
Lookup(c) ==
    /\ pc[c] = "idle"
    /\ \/ /\ Live(key[c])
          /\ Return(c, Stored(key[c]), now)
       \/ /\ ~Live(key[c])
          /\ asked' = [asked EXCEPT ![c] = now]
          /\ Goto(c, "enter")
          /\ UNCHANGED <<started, joined, answer>>
    /\ UNCHANGED <<now, entries, inFlight, call, key, hungUp>>

\* The second critical section looks again: the entry may have come meanwhile.
EnterHit(c) ==
    /\ pc[c] = "enter"
    /\ Live(key[c])
    /\ Return(c, Stored(key[c]), asked[c])
    /\ UNCHANGED <<now, entries, inFlight, call, key, hungUp>>

\* A call for the key is in flight: wait for it.
Join(c) ==
    /\ pc[c] = "enter"
    /\ ~Live(key[c])
    /\ inFlight[key[c]] # NoCall
    /\ joined' = [joined EXCEPT ![c] = inFlight[key[c]]]
    /\ Goto(c, "wait")
    /\ UNCHANGED <<now, entries, inFlight, call, started, key, hungUp, asked,
                   answer>>

\* MUTANT the second critical section does not look at the entries again.
LeadUnchecked(c) ==
    /\ pc[c] = "enter"
    /\ inFlight[key[c]] = NoCall
    /\ inFlight' = [inFlight EXCEPT ![key[c]] = c]
    /\ started' = [started EXCEPT ![c] = now]
    /\ Goto(c, "fetch")
    /\ UNCHANGED <<now, entries, call, key, joined, hungUp, asked, answer>>

\* MUTANT the caller does not look for a call in flight.
LeadAlways(c) ==
    /\ pc[c] = "enter"
    /\ ~Live(key[c])
    /\ inFlight' = [inFlight EXCEPT ![key[c]] = c]
    /\ started' = [started EXCEPT ![c] = now]
    /\ Goto(c, "fetch")
    /\ UNCHANGED <<now, entries, call, key, joined, hungUp, asked, answer>>

\* No call is in flight: register one and start its fetch.
Lead(c) ==
    /\ pc[c] = "enter"
    /\ ~Live(key[c])
    /\ inFlight[key[c]] = NoCall
    /\ inFlight' = [inFlight EXCEPT ![key[c]] = c]
    /\ started' = [started EXCEPT ![c] = now]
    /\ Goto(c, "fetch")
    /\ UNCHANGED <<now, entries, call, key, joined, hungUp, asked, answer>>

\* MUTANT the fetch runs under the leader's own context.
AttachedOutcomes(c) ==
    {"info", "notfound", "transient"}
        \cup (IF c \in hungUp THEN {"canceled"} ELSE {})

\* context.WithoutCancel: the leader's client hanging up never shows here.
FetchOutcomes(c) == {"info", "notfound", "transient"}

\* The fetcher returns what the panel said at some moment of the fetch.
FetchEnd(c) ==
    /\ pc[c] = "fetch"
    /\ \E kind \in FetchOutcomes(c), at \in started[c] .. now :
          call' = [call EXCEPT ![c].res = [kind |-> kind, at |-> at]]
    /\ Goto(c, "publish")
    /\ UNCHANGED <<now, entries, inFlight, started, key, joined, hungUp, asked,
                   answer>>

\* MUTANT every error is remembered like a "not found".
TtlOfAnyError(kind) == IF kind = "info" THEN TTL ELSE NegTTL

\* store: how long an outcome is kept; transient failures are not.
TtlOf(kind) == CASE kind = "info"     -> TTL
                 [] kind = "notfound" -> NegTTL
                 [] OTHER             -> 0

\* MUTANT the bound is compared after the insertion it should make room for.
SurvivesOffByOne(keep) ==
    IF MaxEntries <= 0 \/ Cardinality(Present) <= MaxEntries
    THEN keep = Present
    ELSE IF Cardinality(LiveKeys) < MaxEntries
         THEN keep = LiveKeys
         ELSE keep \subseteq LiveKeys /\ Cardinality(keep) = MaxEntries - 1

\* MUTANT at the bound arbitrary entries go, expired or not.
SurvivesArbitrary(keep) ==
    IF MaxEntries <= 0 \/ Cardinality(Present) < MaxEntries
    THEN keep = Present
    ELSE keep \subseteq Present /\ Cardinality(keep) = MaxEntries - 1

\* evictIfNeededLocked: at the bound the expired entries go; if that is not
\* enough, arbitrary live ones (Go's map order) until there is room for one.
Survives(keep) ==
    IF MaxEntries <= 0 \/ Cardinality(Present) < MaxEntries
    THEN keep = Present
    ELSE IF Cardinality(LiveKeys) < MaxEntries
         THEN keep = LiveKeys
         ELSE keep \subseteq LiveKeys /\ Cardinality(keep) = MaxEntries - 1

\* MUTANT store does not look at the error.
StoreAnything(k, o) ==
    entries' = [entries EXCEPT ![k] = [kind |-> o.kind, at |-> o.at,
                                       expiresAt |-> now + TTL]]

\* store
Store(k, o) ==
    IF TtlOf(o.kind) <= 0
    THEN UNCHANGED entries
    ELSE \E keep \in SUBSET Key :
            /\ Survives(keep)
            /\ entries' = [x \in Key |->
                    IF x = k THEN [kind |-> o.kind, at |-> o.at,
                                   expiresAt |-> now + TtlOf(o.kind)]
                    ELSE IF x \in keep THEN entries[x] ELSE NoEntry]

\* The leader's last critical section: out of flight and into the cache.
Publish(c) ==
    /\ pc[c] = "publish"
    /\ inFlight' = [inFlight EXCEPT ![key[c]] = NoCall]
    /\ Store(key[c], call[c].res)
    /\ Goto(c, "close")
    /\ UNCHANGED <<now, call, started, key, joined, hungUp, asked, answer>>

\* MUTANT the channel is never closed.
CloseNothing(c) ==
    /\ pc[c] = "close"
    /\ Return(c, call[c].res, asked[c])
    /\ UNCHANGED <<now, entries, inFlight, call, key, hungUp>>

\* close(pending.done), outside the lock, and return.
Close(c) ==
    /\ pc[c] = "close"
    /\ call' = [call EXCEPT ![c].done = TRUE]
    /\ Return(c, call[c].res, asked[c])
    /\ UNCHANGED <<now, entries, inFlight, key, hungUp>>

\* <-existing.done.
Wake(c) ==
    /\ pc[c] = "wait"
    /\ call[joined[c]].done
    /\ Return(c, call[joined[c]].res, asked[c])
    /\ UNCHANGED <<now, entries, inFlight, call, key, hungUp>>

\* <-ctx.Done(): only the waiter whose own client is gone leaves early.
Leave(c) ==
    /\ pc[c] = "wait"
    /\ c \in hungUp
    /\ Return(c, [kind |-> "canceled", at |-> now], asked[c])
    /\ UNCHANGED <<now, entries, inFlight, call, key, hungUp>>

-----------------------------------------------------------------------------
(* The environment                                                         *)

HangUp(c) ==
    /\ pc[c] \notin {"idle", "done"}
    /\ hungUp' = hungUp \cup {c}
    /\ UNCHANGED <<now, entries, inFlight, call, started, pc, key, joined,
                   asked, answer>>

\* fetchCtx ends a fetch after 30 s: the clock does not pass a fetch that has
\* used up its limit, nor the publication that follows at once.
Tick ==
    /\ now < MaxTime
    /\ \A c \in Caller : pc[c] \in {"fetch", "publish"}
                            => now < started[c] + FetchLimit
    /\ now' = now + 1
    /\ UNCHANGED <<entries, inFlight, call, started, pc, key, joined, hungUp,
                   asked, answer>>

Step(c) == \/ EnterHit(c) \/ Join(c) \/ Lead(c) \/ FetchEnd(c) \/ Publish(c)
           \/ Close(c) \/ Wake(c) \/ Leave(c)

Next == \/ \E c \in Caller : Lookup(c) \/ Step(c) \/ HangUp(c)
        \/ Tick

\* The runtime schedules a goroutine that can run, and a fetch ends at its
\* deadline.  Nobody has to ask, to hang up or to let time pass.
Fairness == \A c \in Caller : WF_vars(Step(c))

Spec == Init /\ [][Next]_vars
FairSpec == Spec /\ Fairness

-----------------------------------------------------------------------------
(* Properties                                                              *)

\* However callers interleave between the two critical sections, the panel is
\* never asked twice at once about the same user.
SingleFlight ==
    \A c, d \in Caller :
        pc[c] \in {"fetch", "publish"} /\ pc[d] \in {"fetch", "publish"}
            /\ key[c] = key[d] => c = d

\* Nobody asks the panel for what the cache could have answered: while a call
\* is in flight its key has no live entry, so a publication never overwrites
\* one.  A caller that looked before a publication and locks after it depends
\* on the second look.
FlightOnlyForStale ==
    \A k \in Key : inFlight[k] # NoCall => ~Live(k)

\* How old the panel's word may be, at most, when a caller asks and gets it.
\* A cached answer is strictly younger than its time to live when it is read.
MaxAge(kind) == FetchLimit + CASE kind = "info" /\ TTL > 0        -> TTL - 1
                               [] kind = "notfound" /\ NegTTL > 0 -> NegTTL - 1
                               [] OTHER                           -> 0

\* An answer, fetched, shared or cached, was the panel's word at most its own
\* time to live and one fetch before the caller asked; a failure is never
\* handed on after its flight.
FreshAnswers ==
    \A c \in Caller :
        pc[c] = "done" => answer[c].age <= MaxAge(answer[c].kind)

\* A client hanging up cancels nobody else's lookup, also when it is the
\* leader whose fetch the others share.
NoForeignCancel ==
    \A c \in Caller : answer[c].kind = "canceled" => c \in hungUp

\* CACHE_MAX_ENTRIES holds at every moment.
BoundedEntries == MaxEntries > 0 => Cardinality(Present) <= MaxEntries

\* A live entry is given up only when live entries alone fill the cache.
EvictsLiveOnlyWhenFull ==
    [][\A k \in Key : Live(k) /\ entries'[k].kind = "none"
            => MaxEntries > 0 /\ Cardinality(LiveKeys) >= MaxEntries]_vars

\* A waiter always has somebody to wake it: the call it joined is done, or its
\* leader is still on the way to closing it, whoever hung up meanwhile.
NoOrphanWaiter ==
    \A c \in Caller :
        pc[c] = "wait" =>
            /\ joined[c] \in Caller
            /\ \/ call[joined[c]].done
               \/ pc[joined[c]] \in {"fetch", "publish", "close"}

\* Every call returns: no waiter is left on a flight that nobody lands.
EveryCallReturns ==
    \A c \in Caller : pc[c] = "enter" ~> pc[c] = "done"

=============================================================================

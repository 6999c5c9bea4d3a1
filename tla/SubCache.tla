------------------------------ MODULE SubCache ------------------------------
(***************************************************************************)
(* The fallback cache (internal/subcache/subcache.go): what it holds, how  *)
(* a Put makes room, and what a Get may find.  A writer is a goroutine     *)
(* inside Put.  Put reads the clock before it takes the lock, so it is two *)
(* steps; Get and the rest of Put are one critical section each.           *)
(*                                                                         *)
(* A stored response is its origin (whose response it is) and its sizes;   *)
(* header names and values count toward the budget as one number.          *)
(***************************************************************************)
EXTENDS Integers, FiniteSets, FiniteSetsExt

CONSTANTS
    Key,       \* cache keys
    Writer,    \* goroutines that may be inside Put
    Origin,    \* whose response an entry holds
    NoOrigin,  \* of the absent entry
    TTL,       \* SUBSCRIPTION_CACHE_TTL, in ticks
    MaxBytes,  \* SUBSCRIPTION_CACHE_MAX_BYTES; zero or less is unbounded
    MaxBody,   \* SUBSCRIPTION_CACHE_MAX_BODY
    MaxTime    \* bound of the model: the clock stops there

ASSUME ConstantsAssumption ==
    /\ NoOrigin \notin Origin
    /\ TTL \in Nat /\ MaxBytes \in Int /\ MaxBody \in Nat /\ MaxTime \in Nat
    /\ IsFiniteSet(Key)

VARIABLES
    now,      \* what c.now() reads
    entries,  \* c.entries; a key without an entry maps to NoEntry
    bytes,    \* c.bytes, the running total
    putting   \* by writer: the stamped entry it carries to the lock

vars == <<now, entries, bytes, putting>>

-----------------------------------------------------------------------------
Entry == [from : Origin, body : Nat, header : Nat, storedAt : Nat]
NoEntry == [from |-> NoOrigin, body |-> 0, header |-> 0, storedAt |-> 0]

Idle == [busy |-> FALSE]
Put(k, e) == [busy |-> TRUE, key |-> k, entry |-> e]

\* Entry.size
Size(e) == e.body + e.header

Occupied(f) == {k \in Key : f[k] # NoEntry}
SizeOf(f, S) == MapThenSumSet(LAMBDA k : Size(f[k]), S)

Expired(e) == now - e.storedAt > TTL
Fresh(k) == entries[k] # NoEntry /\ ~Expired(entries[k])

TypeOK ==
    /\ now \in Nat
    /\ entries \in [Key -> Entry \cup {NoEntry}]
    /\ bytes \in Int
    /\ putting \in [Writer -> {Idle} \cup [busy : {TRUE}, key : Key, entry : Entry]]

Init ==
    /\ now = 0
    /\ entries = [k \in Key |-> NoEntry]
    /\ bytes = 0
    /\ putting = [w \in Writer |-> Idle]

-----------------------------------------------------------------------------
(* Get                                                                     *)

\* What Get returns.
Found(k) == IF Fresh(k) THEN entries[k] ELSE NoEntry

\* MUTANT an expired entry leaves without giving its bytes back.
GetLeaking(k) ==
    /\ entries' = IF Fresh(k) THEN entries ELSE [entries EXCEPT ![k] = NoEntry]
    /\ UNCHANGED bytes

\* What Get does to the cache: an expired entry is removed on the way.
Get(k) ==
    IF Fresh(k)
    THEN UNCHANGED <<entries, bytes>>
    ELSE /\ entries' = [entries EXCEPT ![k] = NoEntry]
         /\ bytes' = bytes - Size(entries[k])

-----------------------------------------------------------------------------
(* Put                                                                     *)

\* Put up to the lock: a body over the limit is turned away, others stamped.
Stamp(w, k, from, body, header) ==
    /\ putting[w] = Idle
    /\ putting' = IF body > MaxBody THEN putting
                  ELSE [putting EXCEPT ![w] =
                            Put(k, [from |-> from, body |-> body,
                                    header |-> header, storedAt |-> now])]

\* Every member of G was stored no later than any that C keeps.
OldestOf(f, C, G) ==
    \A g \in G, c \in C \ G : f[g].storedAt <= f[c].storedAt

\* The members of G that a loop over the oldest comes to last.
YoungestOf(f, G) == {g \in G : \A x \in G : f[x].storedAt <= f[g].storedAt}

\* A loop that removes members of C while the total is over budget ends with G
\* removed: it ran dry or got under, and was still over before it came to the
\* last of them, which is one of ends.
EndsWith(f, total, C, G, ends) ==
    /\ G \subseteq C
    /\ G = C \/ total - SizeOf(f, G) <= MaxBytes
    /\ G # {} => \E last \in ends : total - SizeOf(f, G \ {last}) > MaxBytes

\* MUTANT the loop over the oldest drops entries in map order.
EvictedAnyhow(f, total, gone) ==
    IF MaxBytes <= 0 THEN gone = {}
    ELSE EndsWith(f, total, Occupied(f), gone, gone)

\* MUTANT the loop goes on until the total is below the budget.
EvictedTooMuch(f, total, gone) ==
    IF MaxBytes <= 0 \/ total < MaxBytes THEN gone = {}
    ELSE /\ gone \subseteq Occupied(f)
         /\ OldestOf(f, Occupied(f), gone)
         /\ total - SizeOf(f, gone) < MaxBytes
         /\ \E last \in YoungestOf(f, gone) :
                total - SizeOf(f, gone \ {last}) >= MaxBytes

\* MUTANT only expired entries are dropped.
EvictedExpiredOnly(f, total, gone) ==
    IF MaxBytes <= 0 THEN gone = {}
    ELSE EndsWith(f, total, {k \in Occupied(f) : Expired(f[k])}, gone, gone)

\* evictLocked: expired entries in map order, then always the oldest, each while
\* the total is over budget.
Evicted(f, total, gone) ==
    LET old == {k \in Occupied(f) : Expired(f[k])}
    IN  IF MaxBytes <= 0 THEN gone = {}
        ELSE \E first \in SUBSET old :
                LET rest == Occupied(f) \ first
                    next == gone \ first
                IN  /\ first \subseteq gone
                    /\ EndsWith(f, total, old, first, first)
                    /\ EndsWith(f, total - SizeOf(f, first), rest, next,
                                YoungestOf(f, next))
                    /\ OldestOf(f, rest, next)

\* The cache as Put leaves it before it evicts, and its total.
Filled(w) == [entries EXCEPT ![putting[w].key] = putting[w].entry]
Total(w) == bytes - Size(entries[putting[w].key]) + Size(putting[w].entry)

\* MUTANT a key that has an entry keeps it.
InsertKeepingFirst(w) ==
    /\ putting[w] # Idle
    /\ IF entries[putting[w].key] # NoEntry
       THEN UNCHANGED <<entries, bytes>>
       ELSE /\ entries' = Filled(w)
            /\ bytes' = Total(w)
    /\ putting' = [putting EXCEPT ![w] = Idle]
    /\ UNCHANGED now

\* MUTANT an unstamped entry reaches the map.
InsertUnstamped(w) ==
    /\ putting[w] # Idle
    /\ entries' = [Filled(w) EXCEPT ![putting[w].key].storedAt = -1]
    /\ bytes' = Total(w)
    /\ putting' = [putting EXCEPT ![w] = Idle]
    /\ UNCHANGED now

\* Put under the lock: replace, count, evict.
Insert(w) ==
    /\ putting[w] # Idle
    /\ \E gone \in SUBSET Occupied(Filled(w)) :
          /\ Evicted(Filled(w), Total(w), gone)
          /\ entries' = [k \in Key |-> IF k \in gone THEN NoEntry
                                       ELSE Filled(w)[k]]
          /\ bytes' = Total(w) - SizeOf(Filled(w), gone)
    /\ putting' = [putting EXCEPT ![w] = Idle]
    /\ UNCHANGED now

-----------------------------------------------------------------------------
(* The cache on its own: any writer may put, any key may be looked up.     *)

CONSTANTS
    BodySizes,   \* sizes of the bodies that arrive
    HeaderSizes  \* sizes of their headers

ASSUME SizesAssumption == BodySizes \subseteq Nat /\ HeaderSizes \subseteq Nat

Tick ==
    /\ now < MaxTime
    /\ now' = now + 1
    /\ UNCHANGED <<entries, bytes, putting>>

BeginPut == \E w \in Writer, k \in Key, from \in Origin :
                \E body \in BodySizes, header \in HeaderSizes :
                    /\ Stamp(w, k, from, body, header)
                    /\ UNCHANGED <<now, entries, bytes>>

EndPut == \E w \in Writer : Insert(w)

LookUp == \E k \in Key : Get(k) /\ UNCHANGED <<now, putting>>

Next == BeginPut \/ EndPut \/ LookUp \/ Tick

Spec == Init /\ [][Next]_vars

-----------------------------------------------------------------------------
(* Properties                                                              *)

\* The running total is the sum of what is held, however puts, replacements,
\* evictions and expiries on lookup interleave.
Accounting == bytes = SizeOf(entries, Key)

\* SUBSCRIPTION_CACHE_MAX_BYTES holds whenever the lock is free.
WithinBudget == MaxBytes > 0 => bytes <= MaxBytes

\* What Put lost beside the entry it replaced, w's put being the one that ends.
LostTo(w) == Occupied(Filled(w)) \ Occupied(entries')
Ends(w) == putting[w] # Idle /\ putting'[w] = Idle

\* Room is made at the expense of the oldest: whatever survives an eviction was
\* stored no earlier than any live entry that did not, the new one included.
EvictsOldestFirst ==
    [][\A w \in Writer : Ends(w) =>
         \A k \in LostTo(w) : ~Expired(Filled(w)[k]) =>
            \A j \in Occupied(entries') :
                entries'[j].storedAt >= Filled(w)[k].storedAt]_vars

\* What f holds that was stored no earlier than k's entry.
NoOlder(f, k) == {j \in Occupied(f) : f[j].storedAt >= f[k].storedAt}

\* Nothing is evicted for room that is not needed: a live entry goes only when it
\* and all that was stored no earlier, the new entry included, do not fit into
\* the budget together.  One turn of the loop too many loses one that would fit.
EvictsOnlyForRoom ==
    [][\A w \in Writer : Ends(w) =>
         \A k \in LostTo(w) : ~Expired(Filled(w)[k]) =>
            SizeOf(Filled(w), NoOlder(Filled(w), k)) > MaxBytes]_vars

\* To its callers the cache is a map that may forget but never mixes up keys or
\* brings an older response back (FallbackStore).
Store == INSTANCE FallbackStore WITH
            Value <- Entry, Nothing <- NoEntry, mem <- entries,
            NoOffer <- Idle, offer <- putting
ImplementsStore == Store!Spec

=============================================================================

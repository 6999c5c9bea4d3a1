---------------------------- MODULE Proxy_proofs ----------------------------
(***************************************************************************)
(* Proofs about Proxy, for any set of requests, any configuration and any  *)
(* limits of the fallback cache: its types, that it uses the cache as the  *)
(* cache expects (so that what SubCache_proofs shows holds in the proxy),  *)
(* that nobody is sent a compressed body who did not ask for one, that     *)
(* outages are covered, and that it implements FallbackContract.           *)
(***************************************************************************)
EXTENDS Proxy, FiniteSetTheorems, TLAPS

-----------------------------------------------------------------------------
(* Types                                                                   *)

Kinds == {"none", "down", "eof", "canceled", "failing", "other", "payload"}
Pages == {"new", "error", "modify", "rewrite", "finish", "put", "copy", "done"}

\* What is asked and what the page says, with the sizes that bodies have here:
\* a HEAD has none, nor has one that breaks off.
Sizes == BodySizes \cup {0}
Heard ==
    /\ conf \in Config
    /\ rq \in [Request -> Arrival]
    /\ pc \in [Request -> Pages]
    /\ up \in [Request -> Answer]
    /\ \A r \in Request : up[r].size \in Sizes

\* The cache and what is proved of it.
Shared == INSTANCE SubCache_proofs WITH
            Writer <- Request, Origin <- Request, NoOrigin <- NoRequest,
            BodySizes <- Sizes

\* There are finitely many keys, since there are finitely many users and
\* client types.
LEMMA KeysAreFinite == IsFiniteSet(Key)
  <1> DEFINE A == {"app", "broken", "banned"}
             B == A \X BOOLEAN
             P == (Sub \X ClientType) \X B
             f == [p \in P |-> [sub |-> p[1][1], type |-> p[1][2],
                                agent |-> p[2][1], gzip |-> p[2][2]]]
  <1>1. IsFiniteSet(A)
    <2>1. IsFiniteSet({} \cup {"app"})
      BY FS_EmptySet, FS_AddElement
    <2>2. IsFiniteSet(({} \cup {"app"}) \cup {"broken"})
      BY <2>1, FS_AddElement
    <2>3. IsFiniteSet((({} \cup {"app"}) \cup {"broken"}) \cup {"banned"})
      BY <2>2, FS_AddElement
    <2>4. A = (({} \cup {"app"}) \cup {"broken"}) \cup {"banned"}
      OBVIOUS
    <2> QED
      BY <2>3, <2>4
  <1>2. IsFiniteSet(BOOLEAN)
    <2>1. BOOLEAN = ({} \cup {TRUE}) \cup {FALSE}
      OBVIOUS
    <2> QED
      BY <2>1, FS_EmptySet, FS_AddElement
  <1>3. IsFiniteSet(P)
    <2>1. IsFiniteSet(Sub \X ClientType)
      BY ConstantsAssumption, FS_Product DEF ConstantsAssumption
    <2> HIDE DEF A
    <2>2. IsFiniteSet(B)
      BY <1>1, <1>2, FS_Product
    <2> HIDE DEF B
    <2> QED
      BY <2>1, <2>2, FS_Product
  <1>4. f \in Surjection(P, Key)
    <2>1. \A p \in P : f[p] \in Key
      BY DEF Key
    <2>2. ASSUME NEW k \in Key PROVE \E p \in P : f[p] = k
      <3> DEFINE p == <<<<k.sub, k.type>>, <<k.agent, k.gzip>>>>
      <3>1. p \in P /\ f[p] = k
        BY DEF Key
      <3> QED
        BY <3>1
    <2> HIDE DEF P
    <2>3. f \in [P -> Key]
      BY <2>1
    <2> QED
      BY <2>2, <2>3 DEF Surjection
  <1> QED
    BY <1>3, <1>4, FS_Surjection

LEMMA SharedFinite == Shared!IsFiniteSet(Key)
  BY KeysAreFinite DEF IsFiniteSet, Shared!IsFiniteSet

LEMMA AnswerType ==
  ASSUME Heard, NEW r \in Request, NEW a \in Answers(r)
  PROVE  a \in Answer /\ a.size \in Sizes /\ a.kind # "none"
  <1>1. CASE a \in {Bare(kind) : kind \in {"down", "eof", "canceled", "failing",
                                         "other"}}
    <2>1. PICK kind \in {"down", "eof", "canceled", "failing", "other"} :
             a = [kind |-> kind, zip |-> FALSE, size |-> 0, whole |-> TRUE]
      BY <1>1 DEF Bare
    <2> QED
      BY <2>1 DEF Answer, Sizes
  <1>2. CASE a \in Payloads(r)
    <2>1. AsksForGzip(r) \in BOOLEAN
      BY DEF AsksForGzip
    <2>2. a \in [kind : {"payload"}, zip : BOOLEAN, size : Sizes, whole : BOOLEAN]
      <3>1. CASE rq[r].method = "HEAD"
        <4>1. a = [kind |-> "payload", zip |-> FALSE, size |-> 0, whole |-> TRUE]
          BY <1>2, <3>1 DEF Payloads, Bare
        <4> QED
          BY <4>1 DEF Sizes
      <3>2. CASE a \in [kind : {"payload"}, zip : {FALSE} \cup {AsksForGzip(r)},
                        size : BodySizes, whole : {TRUE}]
        BY <3>2, <2>1 DEF Sizes
      <3>3. CASE a \in [kind : {"payload"}, zip : {FALSE}, size : {0},
                        whole : {FALSE}]
        BY <3>3 DEF Sizes
      <3> QED
        BY <1>2, <3>1, <3>2, <3>3 DEF Payloads
    <2>3. Sizes \subseteq Nat
      BY ConstantsAssumption DEF ConstantsAssumption, Sizes
    <2> QED
      BY <2>2, <2>3 DEF Answer
  <1> QED
    BY <1>1, <1>2 DEF Answers

LEMMA HeardInit == Init => Heard
  BY ConstantsAssumption
     DEF ConstantsAssumption, Init, Heard, Bare, Answer, Sizes, Pages

LEMMA HeardStep == Heard /\ [Next]_vars => Heard'
  <1> SUFFICES ASSUME Heard, [Next]_vars PROVE Heard'
    OBVIOUS
  <1>1. ASSUME NEW r \in Request, RoundTrip(r) PROVE Heard'
    <2>1. PICK a \in Answers(r) :
             /\ up' = [up EXCEPT ![r] = a]
             /\ Goto(r, IF NoResponse(a) THEN "error"
                        ELSE IF Observes THEN "modify" ELSE "copy")
      BY <1>1 DEF RoundTrip
    <2>2. pc' \in [Request -> Pages]
      BY <2>1 DEF Goto, Pages, Heard
    <2>3. a \in Answer /\ a.size \in Sizes
      BY AnswerType
    <2>4. up' \in [Request -> Answer] /\ \A q \in Request : up'[q].size \in Sizes
      BY <2>1, <2>3 DEF Heard
    <2>5. UNCHANGED <<conf, rq>>
      BY <1>1 DEF RoundTrip
    <2> QED
      BY <2>2, <2>4, <2>5 DEF Heard
  <1>2. ASSUME NEW r \in Request, Step(r), ~RoundTrip(r) PROVE Heard'
    <2>1. UNCHANGED <<conf, rq, up>>
      BY <1>2 DEF Step, ServeProbe, ServeBlock, GiveUp, Replay, Drop, Substitute,
                  Process, Rewrite, ApplyNotice, Pass, StampEntry, PutEntry,
                  CopyOut
    <2>2. \E stage \in Pages : pc' = [pc EXCEPT ![r] = stage]
      BY <1>2 DEF Step, ServeProbe, ServeBlock, GiveUp, Replay, Drop, Substitute,
                  Process, Rewrite, ApplyNotice, Pass, StampEntry, PutEntry,
                  CopyOut, Goto, Finally, Pages
    <2> QED
      BY <2>1, <2>2 DEF Heard
  <1>3. CASE Tick \/ UNCHANGED vars
    BY <1>3 DEF Tick, vars, Heard
  <1> QED
    BY <1>1, <1>2, <1>3 DEF Next

\* What is asked and what the page says keep their types.
THEOREM HeardAlways == Spec => []Heard
  BY HeardInit, HeardStep, PTL DEF Spec

-----------------------------------------------------------------------------
(* The cache in use                                                        *)

\* Shared's operators are those the proxy calls.
LEMMA SameSize ==
  ASSUME NEW f, NEW S
  PROVE  Cache!SizeOf(f, S) = Shared!SizeOf(f, S)
  BY DEF Cache!SizeOf, Shared!SizeOf, Cache!Size, Shared!Size,
         Cache!MapThenSumSet, Shared!MapThenSumSet, Cache!MapThenFoldSet,
         Shared!MapThenFoldSet

LEMMA SameOccupied ==
  ASSUME NEW f
  PROVE  Cache!Occupied(f) = Shared!Occupied(f)
  BY DEF Cache!Occupied, Shared!Occupied, Cache!NoEntry, Shared!NoEntry

LEMMA SameEnds ==
  ASSUME NEW f, NEW total, NEW C, NEW G, NEW ends,
         Cache!EndsWith(f, total, C, G, ends)
  PROVE  Shared!EndsWith(f, total, C, G, ends)
  BY SameSize DEF Cache!EndsWith, Shared!EndsWith

LEMMA SameEvicted ==
  ASSUME NEW f, NEW total, NEW gone, Cache!Evicted(f, total, gone)
  PROVE  Shared!Evicted(f, total, gone)
  <1>1. CASE MaxBytes <= 0
    BY <1>1 DEF Cache!Evicted, Shared!Evicted
  <1>2. CASE ~(MaxBytes <= 0)
    <2> DEFINE old == {k \in Shared!Occupied(f) : Shared!Expired(f[k])}
    <2>1. old = {k \in Cache!Occupied(f) : Cache!Expired(f[k])}
      BY SameOccupied DEF Cache!Expired, Shared!Expired
    <2> HIDE DEF old
    <2>2. PICK first \in SUBSET old :
             /\ first \subseteq gone
             /\ Cache!EndsWith(f, total, old, first, first)
             /\ Cache!EndsWith(f, total - Cache!SizeOf(f, first),
                               Cache!Occupied(f) \ first, gone \ first,
                               Cache!YoungestOf(f, gone \ first))
             /\ Cache!OldestOf(f, Cache!Occupied(f) \ first, gone \ first)
      BY <1>2, <2>1 DEF Cache!Evicted
    <2>3. Cache!YoungestOf(f, gone \ first) = Shared!YoungestOf(f, gone \ first)
      BY DEF Cache!YoungestOf, Shared!YoungestOf
    <2>4. Shared!EndsWith(f, total, old, first, first)
      BY <2>2, SameEnds
    <2>5. Shared!EndsWith(f, total - Shared!SizeOf(f, first),
                          Shared!Occupied(f) \ first, gone \ first,
                          Shared!YoungestOf(f, gone \ first))
      BY <2>2, <2>3, SameEnds, SameSize, SameOccupied
    <2>6. Shared!OldestOf(f, Shared!Occupied(f) \ first, gone \ first)
      BY <2>2, SameOccupied DEF Cache!OldestOf, Shared!OldestOf
    <2> QED
      BY <1>2, <2>2, <2>4, <2>5, <2>6 DEF Shared!Evicted, old
  <1> QED
    BY <1>1, <1>2

LEMMA SameInsert ==
  ASSUME NEW r \in Request, Cache!Insert(r)
  PROVE  Shared!Insert(r)
  <1>1. Cache!Filled(r) = Shared!Filled(r) /\ Cache!Total(r) = Shared!Total(r)
    BY DEF Cache!Filled, Shared!Filled, Cache!Total, Shared!Total,
           Cache!Size, Shared!Size
  <1> QED
    BY <1>1, SameSize, SameOccupied, SameEvicted
       DEF Cache!Insert, Shared!Insert, Cache!Idle, Shared!Idle,
           Cache!NoEntry, Shared!NoEntry

LEMMA KeyType ==
  ASSUME rq \in [Request -> Arrival], NEW r \in Request, Keyed(r)
  PROVE  KeyOf(r) \in Key
  BY DEF Keyed, KeyOf, Key, Arrival

\* Every step of the proxy is one of the cache's or leaves it alone.
LEMMA CacheStep == Heard /\ [Next]_vars => [Shared!Next]_(Shared!vars)
  <1> SUFFICES ASSUME Heard, [Next]_vars
               PROVE  Shared!Next \/ UNCHANGED <<now, entries, bytes, putting>>
    BY DEF Shared!vars
  <1>1. ASSUME NEW r \in Request, LookUp(r)
        PROVE  Shared!Next \/ UNCHANGED <<now, entries, bytes, putting>>
    <2>1. CASE Keyed(r)
      <3>1. KeyOf(r) \in Key
        BY <2>1, KeyType DEF Heard
      <3>2. Shared!Get(KeyOf(r)) /\ UNCHANGED <<now, putting>>
        BY <1>1, <2>1
           DEF LookUp, Cache!Get, Shared!Get, Cache!Fresh, Shared!Fresh,
               Cache!Expired, Shared!Expired, Cache!NoEntry, Shared!NoEntry,
               Cache!Size, Shared!Size
      <3> QED
        BY <3>1, <3>2 DEF Shared!Next, Shared!LookUp
    <2>2. CASE ~Keyed(r)
      BY <1>1, <2>2 DEF LookUp
    <2> QED
      BY <2>1, <2>2
  <1>2. ASSUME NEW r \in Request, StampEntry(r)
        PROVE  Shared!Next
    <2>1. PICK h \in HeaderSizes : Cache!Stamp(r, KeyOf(r), r, up[r].size, h)
      BY <1>2 DEF StampEntry
    <2>2. Shared!Stamp(r, KeyOf(r), r, up[r].size, h)
      BY <2>1 DEF Cache!Stamp, Shared!Stamp, Cache!Idle, Shared!Idle,
                  Cache!Put, Shared!Put
    <2>3. KeyOf(r) \in Key
      BY <1>2, KeyType DEF Heard, StampEntry, Stores
    <2>4. up[r].size \in Sizes
      BY DEF Heard
    <2>5. UNCHANGED <<now, entries, bytes>>
      BY <1>2 DEF StampEntry
    <2> QED
      BY <2>2, <2>3, <2>4, <2>5 DEF Shared!Next, Shared!BeginPut
  <1>3. ASSUME NEW r \in Request, PutEntry(r)
        PROVE  Shared!Next
    <2>1. Cache!Insert(r)
      BY <1>3 DEF PutEntry
    <2> QED
      BY <2>1, SameInsert DEF Shared!Next, Shared!EndPut
  <1>4. CASE Tick
    BY <1>4 DEF Tick, cacheVars, Shared!Next, Shared!Tick
  <1>5. CASE UNCHANGED vars
    BY <1>5 DEF vars, cacheVars
  <1>6. ASSUME NEW r \in Request, Step(r)
        PROVE  \/ LookUp(r) \/ StampEntry(r) \/ PutEntry(r)
               \/ UNCHANGED <<now, entries, bytes, putting>>
    BY <1>6 DEF Step, ServeProbe, ServeBlock, RoundTrip, GiveUp, Replay, Drop,
                Substitute, Process, Rewrite, ApplyNotice, Pass, CopyOut,
                cacheVars
  <1> QED
    BY <1>1, <1>2, <1>3, <1>4, <1>5, <1>6 DEF Next

LEMMA CacheInit == Init => Shared!Init
  BY DEF Init, Cache!Init, Shared!Init, Cache!NoEntry, Shared!NoEntry,
         Cache!Idle, Shared!Idle

\* The proxy uses the cache as SubCache expects: whatever requests do, they
\* stamp and insert, look up, and let time pass.
THEOREM UsesCache == Spec => Shared!Spec
  BY CacheInit, CacheStep, HeardAlways, PTL DEF Spec, Shared!Spec

\* What SubCache assumes of its constants.
LEMMA CacheConstants ==
  /\ NoRequest \notin Request
  /\ TTL \in Nat /\ MaxBytes \in Int /\ MaxBody \in Nat /\ MaxTime \in Nat
  /\ Sizes \subseteq Nat /\ HeaderSizes \subseteq Nat
  BY ConstantsAssumption DEF ConstantsAssumption, Sizes

\* So its entries, total and offers are what it says they are.
THEOREM CacheAlways == Spec => [](Cache!TypeOK /\ Cache!Accounting /\ Cache!WithinBudget)
  <1>1. Shared!Spec => []Shared!TypeOK
    BY Shared!TypeCorrect, CacheConstants, SharedFinite
  <1>2. Shared!Spec => []Shared!Accounting
    BY Shared!TotalIsSum, CacheConstants, SharedFinite
  <1>3. Shared!Spec => []Shared!WithinBudget
    BY Shared!BudgetHolds, CacheConstants, SharedFinite
  <1>4. Shared!TypeOK => Cache!TypeOK
    BY DEF Shared!TypeOK, Cache!TypeOK, Shared!Entry, Cache!Entry,
           Shared!NoEntry, Cache!NoEntry, Shared!Idle, Cache!Idle
  <1>5. Shared!Accounting => Cache!Accounting
    BY SameSize DEF Shared!Accounting, Cache!Accounting
  <1>6. Shared!WithinBudget => Cache!WithinBudget
    BY DEF Shared!WithinBudget, Cache!WithinBudget
  <1> QED
    BY <1>1, <1>2, <1>3, <1>4, <1>5, <1>6, UsesCache, PTL

-----------------------------------------------------------------------------
(* Types                                                                   *)

\* What is written out and when it was heard and kept.
Written ==
    /\ body \in [Request -> Request \cup {NoRequest}]
    /\ reply \in [Request -> Reply]
    /\ heardAt \in [Request -> Nat \cup {Never}]
    /\ keptAt \in [Request -> Nat \cup {Never}]

\* What is replayed is some request's response.
LEMMA FoundType ==
  ASSUME Heard, Cache!TypeOK, NEW r \in Request, Replayable(r)
  PROVE  /\ Cache!Found(KeyOf(r)) = entries[KeyOf(r)]
         /\ entries[KeyOf(r)] \in Cache!Entry
         /\ entries[KeyOf(r)].from \in Request
  BY KeyType DEF Heard, Replayable, Cache!Found, Cache!Fresh, Cache!TypeOK, Cache!Entry

\* What the copy makes of a body: the three cases of CopyOut.
LEMMA Copied ==
  ASSUME NEW r \in Request, CopyOut(r)
  PROVE  \/ body[r] = NoRequest /\ Finally(r, "notice", NoRequest)
         \/ body[r] \in Request \ {r} /\ Finally(r, "replay", body[r])
         \/ /\ body[r] \notin (Request \ {r}) \cup {NoRequest}
            /\ Finally(r, IF up[r].whole THEN "own" ELSE "aborted", body[r])
  <1> DEFINE kind == CASE body[r] = NoRequest -> "notice"
                       [] body[r] \in Request \ {r} -> "replay"
                       [] OTHER -> IF up[r].whole THEN "own" ELSE "aborted"
  <1>1. Finally(r, kind, body[r])
    BY DEF CopyOut
  <1>2. body[r] = NoRequest => body[r] \notin Request \ {r} /\ kind = "notice"
    BY ConstantsAssumption DEF ConstantsAssumption
  <1>3. body[r] # NoRequest /\ body[r] \in Request \ {r} => kind = "replay"
    OBVIOUS
  <1>4. body[r] \notin (Request \ {r}) \cup {NoRequest}
          => kind = IF up[r].whole THEN "own" ELSE "aborted"
    OBVIOUS
  <1> HIDE DEF kind
  <1> QED
    BY <1>1, <1>2, <1>3, <1>4

LEMMA WrittenStep ==
  Heard /\ Cache!TypeOK /\ Written /\ [Next]_vars => Written'
  <1> SUFFICES ASSUME Heard, Cache!TypeOK, Written, [Next]_vars PROVE Written'
    OBVIOUS
  <1>1. ASSUME NEW r \in Request, RoundTrip(r) PROVE Written'
    <2>1. PICK a \in Answers(r) :
             heardAt' = [heardAt EXCEPT ![r] =
                           IF Keyed(r) /\ a.kind = "payload" THEN now ELSE Never]
      BY <1>1 DEF RoundTrip
    <2>2. heardAt' \in [Request -> Nat \cup {Never}]
      BY <2>1 DEF Written, Cache!TypeOK
    <2> QED
      BY <1>1, <2>2 DEF RoundTrip, Written
  <1>2. ASSUME NEW r \in Request, StampEntry(r) PROVE Written'
    <2>1. keptAt' \in [Request -> Nat \cup {Never}]
      BY <1>2 DEF StampEntry, Written, Cache!TypeOK
    <2> QED
      BY <1>2, <2>1 DEF StampEntry, Written
  <1>3. ASSUME NEW r \in Request, Substitute(r) PROVE Written'
    BY <1>3, FoundType DEF Substitute, Written
  <1>4. ASSUME NEW r \in Request, ApplyNotice(r) PROVE Written'
    BY <1>4 DEF ApplyNotice, Written
  <1>5. ASSUME NEW r \in Request, NEW kind, NEW from,
               [kind |-> kind, from |-> from] \in Reply, Finally(r, kind, from),
               UNCHANGED <<body, heardAt, keptAt>>
        PROVE  Written'
    BY <1>5 DEF Finally, Written
  <1>6. ASSUME NEW r \in Request, ServeProbe(r) PROVE Written'
    BY <1>5, <1>6 DEF ServeProbe, Reply
  <1>7. ASSUME NEW r \in Request, ServeBlock(r) PROVE Written'
    BY <1>5, <1>7 DEF ServeBlock, Reply
  <1>8. ASSUME NEW r \in Request, GiveUp(r) PROVE Written'
    BY <1>5, <1>8 DEF GiveUp, Reply
  <1>9. ASSUME NEW r \in Request, Drop(r) PROVE Written'
    BY <1>5, <1>9 DEF Drop, Reply
  <1>10. ASSUME NEW r \in Request, Replay(r) PROVE Written'
    <2>1. Cache!Found(KeyOf(r)).from \in Request
      BY <1>10, FoundType DEF Replay
    <2> QED
      BY <1>5, <1>10, <2>1 DEF Replay, Reply
  <1>11. ASSUME NEW r \in Request, CopyOut(r) PROVE Written'
    <2>1. CASE body[r] = NoRequest
      <3>1. Finally(r, "notice", NoRequest)
        BY <1>11, <2>1, Copied, ConstantsAssumption DEF ConstantsAssumption
      <3> QED
        BY <1>5, <1>11, <3>1 DEF CopyOut, Reply
    <2>2. CASE body[r] \in Request
      <3>1. \E kind \in {"own", "aborted", "replay"} : Finally(r, kind, body[r])
        <4>1. body[r] # NoRequest
          BY <2>2, ConstantsAssumption DEF ConstantsAssumption
        <4>2. CASE up[r].whole
          BY <1>11, <4>1, <4>2, Copied
        <4>3. CASE ~up[r].whole
          BY <1>11, <4>1, <4>3, Copied
        <4> QED
          BY <4>2, <4>3
      <3> QED
        BY <1>5, <1>11, <2>2, <3>1 DEF CopyOut, Reply
    <2> QED
      BY <2>1, <2>2 DEF Written
  <1>12. ASSUME NEW r \in Request,
                \/ Process(r) \/ Rewrite(r) \/ Pass(r) \/ PutEntry(r)
         PROVE  Written'
    BY <1>12 DEF Process, Rewrite, Pass, PutEntry, Written
  <1>13. CASE Tick \/ UNCHANGED vars
    BY <1>13 DEF Tick, vars, Written
  <1> QED
    BY <1>1, <1>2, <1>3, <1>4, <1>6, <1>7, <1>8, <1>9, <1>10, <1>11, <1>12, <1>13
       DEF Next, Step

\* TypeOK: the stages, what the page said, bodies, replies and histories, and
\* the cache's own variables, keep their types.
THEOREM TypeCorrect == Spec => []TypeOK
  <1>1. Init => Written
    BY DEF Init, Written, Reply
  <1>2. Heard /\ Cache!TypeOK /\ Written => TypeOK
    BY DEF Heard, Written, TypeOK, Pages
  <1> QED
    BY <1>1, <1>2, WrittenStep, HeardAlways, CacheAlways, PTL DEF Spec

-----------------------------------------------------------------------------
(* Where a request stands                                                  *)

Responses == {"failing", "other", "payload"}

\* What its stage tells of a request.
Standing(r) ==
    /\ pc[r] = "new" => up[r].kind = "none"
    /\ pc[r] = "error" => NoResponse(up[r])
    /\ pc[r] \in {"modify", "rewrite", "finish", "put", "copy"}
          => up[r].kind \in Responses
    /\ pc[r] \notin {"copy", "done"} => body[r] = r
    /\ pc[r] = "done" <=> reply[r].kind # "none"
    /\ pc[r] \in {"new", "error", "modify", "rewrite", "finish"}
          => keptAt[r] = Never
    /\ up[r].zip => rq[r].gzip

\* q's response is a complete subscription within the limit, kept for k.
Good(q, k) ==
    /\ q \in Request
    /\ Keyed(q) /\ KeyOf(q) = k
    /\ up[q].kind = "payload" /\ up[q].whole /\ up[q].size <= MaxBody
    /\ keptAt[q] \in Nat

\* Whatever is stored, or about to be, is good for its key, and was kept when
\* the entry says.
Stored(k) ==
    entries[k].from # NoRequest =>
        /\ Good(entries[k].from, k)
        /\ entries[k].storedAt = keptAt[entries[k].from]
Carrying(w) ==
    putting[w] # Cache!Idle =>
        /\ Good(putting[w].entry.from, putting[w].key)
        /\ putting[w].entry.storedAt = keptAt[putting[w].entry.from]

\* A client gets its own response or one that is good for its key.
Serves(r) ==
    /\ body[r] \in Request \ {r} => Keyed(r) /\ Good(body[r], KeyOf(r))
    /\ reply[r].kind = "replay" => Keyed(r) /\ Good(reply[r].from, KeyOf(r))
    /\ reply[r].kind \in {"own", "aborted"} => reply[r].from = r

Standings == \A r \in Request : Standing(r)
StoresGood == \A k \in Key : Stored(k)
CarriesGood == \A w \in Request : Carrying(w)
ServesGood == \A r \in Request : Serves(r)

Inv == TypeOK /\ Standings /\ StoresGood /\ CarriesGood /\ ServesGood

\* Who takes part in what does not change.
LEMMA Fixed ==
  ASSUME [Next]_vars
  PROVE  /\ conf' = conf /\ rq' = rq
         /\ \A r : /\ Keyed(r)' = Keyed(r) /\ KeyOf(r)' = KeyOf(r)
                   /\ HasNotice(r)' = HasNotice(r)
                   /\ Variant(r)' = Variant(r)
  <1>1. conf' = conf /\ rq' = rq
    BY DEF Next, Step, ServeProbe, ServeBlock, RoundTrip, GiveUp, Replay, Drop,
           Substitute, Process, Rewrite, ApplyNotice, Pass, StampEntry,
           PutEntry, CopyOut, Tick, vars
  <1> QED
    BY <1>1 DEF Keyed, KeyOf, HasNotice, Rule, Variant, NoKey

\* What is good for a key remains so: the page is asked once, and its answer
\* is stamped once.
LEMMA GoodStays ==
  ASSUME TypeOK, Standings, [Next]_vars, NEW q \in Request, NEW k, Good(q, k)
  PROVE  up'[q] = up[q] /\ keptAt'[q] = keptAt[q]
  <1>1. up'[q] = up[q]
    <2>1. CASE RoundTrip(q)
      BY <2>1 DEF RoundTrip, Good, Standings, Standing
    <2>2. ASSUME NEW r \in Request, r # q, RoundTrip(r) PROVE up'[q] = up[q]
      BY <2>2 DEF RoundTrip, TypeOK
    <2>3. ASSUME NEW r \in Request, Step(r), ~RoundTrip(r) PROVE up'[q] = up[q]
      BY <2>3 DEF Step, ServeProbe, ServeBlock, GiveUp, Replay, Drop, Substitute,
                  Process, Rewrite, ApplyNotice, Pass, StampEntry, PutEntry,
                  CopyOut
    <2> QED
      BY <2>1, <2>2, <2>3 DEF Next, Tick, vars
  <1>2. keptAt'[q] = keptAt[q]
    <2>1. CASE StampEntry(q)
      BY <2>1, ConstantsAssumption
         DEF ConstantsAssumption, StampEntry, Good, Standings, Standing
    <2>2. ASSUME NEW r \in Request, r # q, StampEntry(r)
          PROVE  keptAt'[q] = keptAt[q]
      BY <2>2 DEF StampEntry, TypeOK
    <2>3. ASSUME NEW r \in Request, Step(r), ~StampEntry(r)
          PROVE  keptAt'[q] = keptAt[q]
      BY <2>3 DEF Step, ServeProbe, ServeBlock, RoundTrip, GiveUp, Replay, Drop,
                  Substitute, Process, Rewrite, ApplyNotice, Pass, PutEntry,
                  CopyOut
    <2> QED
      BY <2>1, <2>2, <2>3 DEF Next, Tick, vars
  <1> QED
    BY <1>1, <1>2

\* What may become of an entry and of an offer.
LEMMA EntryMoves ==
  ASSUME TypeOK, [Next]_vars, NEW k \in Key
  PROVE  \/ entries'[k] = entries[k]
         \/ entries'[k].from = NoRequest
         \/ \E w \in Request : /\ putting[w] # Cache!Idle /\ putting[w].key = k
                               /\ entries'[k] = putting[w].entry
  <1>1. ASSUME NEW r \in Request, LookUp(r)
        PROVE  entries'[k] = entries[k] \/ entries'[k].from = NoRequest
    BY <1>1 DEF LookUp, Cache!Get, Cache!NoEntry, TypeOK, Cache!TypeOK
  <1>2. ASSUME NEW w \in Request, PutEntry(w)
        PROVE  \/ entries'[k] = entries[k]
               \/ entries'[k].from = NoRequest
               \/ /\ putting[w] # Cache!Idle /\ putting[w].key = k
                  /\ entries'[k] = putting[w].entry
    <2>1. PICK gone : entries' = [j \in Key |-> IF j \in gone THEN Cache!NoEntry
                                               ELSE Cache!Filled(w)[j]]
      BY <1>2 DEF PutEntry, Cache!Insert
    <2>2. putting[w] # Cache!Idle
      BY <1>2 DEF PutEntry, Cache!Insert
    <2>3. CASE k \in gone
      BY <2>1, <2>3 DEF Cache!NoEntry
    <2>4. CASE k \notin gone
      BY <2>1, <2>2, <2>4 DEF Cache!Filled, TypeOK, Cache!TypeOK
    <2> QED
      BY <2>3, <2>4
  <1>3. ASSUME NEW r \in Request, Step(r)
        PROVE  LookUp(r) \/ PutEntry(r) \/ UNCHANGED entries
    BY <1>3 DEF Step, ServeProbe, ServeBlock, RoundTrip, GiveUp, Replay, Drop,
                Substitute, Process, Rewrite, ApplyNotice, Pass, StampEntry,
                CopyOut, cacheVars
  <1> QED
    BY <1>1, <1>2, <1>3 DEF Next, Tick, vars, cacheVars

LEMMA OfferMoves ==
  ASSUME TypeOK, [Next]_vars, NEW w \in Request
  PROVE  \/ putting'[w] = putting[w]
         \/ putting'[w] = Cache!Idle
         \/ /\ StampEntry(w)
            /\ putting'[w].key = KeyOf(w) /\ putting'[w].entry.from = w
            /\ putting'[w].entry.storedAt = now
  <1>1. CASE StampEntry(w)
    <2>1. PICK h \in HeaderSizes :
             \/ putting' = putting
             \/ putting' = [putting EXCEPT ![w] =
                    [busy |-> TRUE, key |-> KeyOf(w),
                     entry |-> [from |-> w, body |-> up[w].size, header |-> h,
                                storedAt |-> now]]]
      BY <1>1 DEF StampEntry, Cache!Stamp, Cache!Put
    <2>2. w \in DOMAIN putting
      BY DEF TypeOK, Cache!TypeOK
    <2> QED
      BY <1>1, <2>1, <2>2
  <1>2. ASSUME NEW r \in Request, r # w, StampEntry(r)
        PROVE  putting'[w] = putting[w]
    BY <1>2 DEF StampEntry, Cache!Stamp, TypeOK, Cache!TypeOK
  <1>3. ASSUME NEW r \in Request, PutEntry(r)
        PROVE  putting'[w] = putting[w] \/ putting'[w] = Cache!Idle
    BY <1>3 DEF PutEntry, Cache!Insert, TypeOK, Cache!TypeOK
  <1>4. ASSUME NEW r \in Request, Step(r)
        PROVE  StampEntry(r) \/ PutEntry(r) \/ UNCHANGED putting
    BY <1>4 DEF Step, ServeProbe, ServeBlock, RoundTrip, GiveUp, Replay, Drop,
                Substitute, Process, Rewrite, ApplyNotice, Pass, LookUp,
                CopyOut, cacheVars
  <1> QED
    BY <1>1, <1>2, <1>3, <1>4 DEF Next, Tick, vars, cacheVars

LEMMA StoredStep ==
  ASSUME TypeOK, Standings, StoresGood, CarriesGood, [Next]_vars
  PROVE  StoresGood'
  <1> SUFFICES ASSUME NEW k \in Key, entries'[k].from # NoRequest
               PROVE  /\ Good(entries[k].from, k)'
                      /\ entries'[k].storedAt = keptAt'[entries'[k].from]
    BY DEF StoresGood, Stored
  <1>1. CASE entries'[k] = entries[k]
    <2> DEFINE q == entries[k].from
    <2>1. Good(q, k) /\ entries[k].storedAt = keptAt[q]
      BY <1>1 DEF StoresGood, Stored
    <2>2. q \in Request
      BY <2>1 DEF Good
    <2>3. keptAt'[q] = keptAt[q] /\ up'[q] = up[q]
      BY <2>1, <2>2, GoodStays
    <2> QED
      BY <1>1, <2>1, <2>3, Fixed DEF Good
  <1>2. ASSUME NEW w \in Request, putting[w] # Cache!Idle, putting[w].key = k,
               entries'[k] = putting[w].entry
        PROVE  /\ Good(entries[k].from, k)'
               /\ entries'[k].storedAt = keptAt'[entries'[k].from]
    <2> DEFINE q == putting[w].entry.from
    <2>1. Good(q, k) /\ putting[w].entry.storedAt = keptAt[q]
      BY <1>2 DEF CarriesGood, Carrying
    <2>2. q \in Request
      BY <2>1 DEF Good
    <2>3. keptAt'[q] = keptAt[q] /\ up'[q] = up[q]
      BY <2>1, <2>2, GoodStays
    <2> QED
      BY <1>2, <2>1, <2>3, Fixed DEF Good
  <1> QED
    BY <1>1, <1>2, EntryMoves

LEMMA CarryStep ==
  ASSUME TypeOK, Standings, CarriesGood, [Next]_vars
  PROVE  CarriesGood'
  <1> SUFFICES ASSUME NEW w \in Request, putting'[w] # Cache!Idle
               PROVE  /\ Good(putting[w].entry.from, putting[w].key)'
                      /\ putting'[w].entry.storedAt
                            = keptAt'[putting'[w].entry.from]
    BY DEF CarriesGood, Carrying, Cache!Idle
  <1>1. CASE putting'[w] = putting[w]
    <2> DEFINE q == putting[w].entry.from
               k == putting[w].key
    <2>1. Good(q, k) /\ putting[w].entry.storedAt = keptAt[q]
      BY <1>1 DEF CarriesGood, Carrying
    <2>2. q \in Request
      BY <2>1 DEF Good
    <2>3. keptAt'[q] = keptAt[q] /\ up'[q] = up[q]
      BY <2>1, <2>2, GoodStays
    <2> QED
      BY <1>1, <2>1, <2>3, Fixed DEF Good
  <1>2. CASE /\ StampEntry(w)
             /\ putting'[w].key = KeyOf(w) /\ putting'[w].entry.from = w
             /\ putting'[w].entry.storedAt = now
    <2>1. keptAt'[w] = now /\ now \in Nat
      BY <1>2 DEF StampEntry, TypeOK, Cache!TypeOK
    <2>2. /\ Keyed(w) /\ up'[w].kind = "payload" /\ up'[w].whole
          /\ up'[w].size <= MaxBody
      BY <1>2 DEF StampEntry, Stores, Rewritable
    <2> QED
      BY <1>2, <2>1, <2>2, Fixed DEF Good
  <1> QED
    BY <1>1, <1>2, OfferMoves

\* What is replayed is good for the key it is replayed under, and not the
\* asker's own.
LEMMA FoundIsGood ==
  ASSUME TypeOK, Standings, StoresGood, NEW r \in Request, Replayable(r),
         pc[r] \in {"error", "modify"}
  PROVE  /\ Cache!Found(KeyOf(r)) = entries[KeyOf(r)]
         /\ entries[KeyOf(r)].from \in Request \ {r}
         /\ Good(entries[KeyOf(r)].from, KeyOf(r))
         /\ now - keptAt[entries[KeyOf(r)].from] <= TTL
  <1> DEFINE k == KeyOf(r)
  <1>1. Keyed(r) /\ k \in Key /\ Cache!Found(k) = entries[k]
        /\ entries[k].from # NoRequest /\ now - entries[k].storedAt <= TTL
    <2>1. Keyed(r)
      BY DEF Replayable
    <2>2. k \in Key
      BY <2>1, KeyType DEF TypeOK
    <2>3. Cache!Fresh(k)
      BY DEF Replayable
    <2>4. entries[k] \in Cache!Entry
      BY <2>2, <2>3 DEF Cache!Fresh, TypeOK, Cache!TypeOK
    <2>5. entries[k].from # NoRequest
      BY <2>4, ConstantsAssumption DEF ConstantsAssumption, Cache!Entry
    <2>6. now - entries[k].storedAt <= TTL
      BY <2>3, <2>4, ConstantsAssumption
         DEF ConstantsAssumption, Cache!Fresh, Cache!Expired, Cache!Entry,
             TypeOK, Cache!TypeOK
    <2> QED
      BY <2>1, <2>2, <2>3, <2>5, <2>6 DEF Cache!Found
  <1>2. Good(entries[k].from, k) /\ entries[k].storedAt = keptAt[entries[k].from]
    BY <1>1 DEF StoresGood, Stored
  <1>3. keptAt[r] \notin Nat
    BY ConstantsAssumption DEF ConstantsAssumption, Standings, Standing
  <1> QED
    BY <1>1, <1>2, <1>3 DEF Good

\* A compressed answer is one to a request for it.
LEMMA ZipAsAsked ==
  ASSUME NEW r \in Request, NEW a \in Answers(r), a.zip
  PROVE  rq[r].gzip
  <1>1. ASSUME NEW kind, a = Bare(kind) PROVE FALSE
    BY <1>1 DEF Bare
  <1>2. a \in [kind : {"payload"}, zip : {FALSE} \cup {AsksForGzip(r)},
              size : BodySizes, whole : {TRUE}]
        \/ a \in [kind : {"payload"}, zip : {FALSE}, size : {0}, whole : {FALSE}]
    BY <1>1 DEF Answers, Payloads
  <1>3. a.zip \in {FALSE, AsksForGzip(r)}
    BY <1>2
  <1> QED
    BY <1>3 DEF AsksForGzip

\* A request's step does not touch another request.
LEMMA Elsewhere ==
  ASSUME TypeOK, NEW q \in Request, NEW r \in Request, r # q, Step(r)
  PROVE  /\ pc'[q] = pc[q] /\ up'[q] = up[q] /\ body'[q] = body[q]
         /\ reply'[q] = reply[q] /\ keptAt'[q] = keptAt[q]
  <1>1. pc'[q] = pc[q] /\ reply'[q] = reply[q]
    <2>1. ASSUME NEW stage, Goto(r, stage) PROVE pc'[q] = pc[q]
      BY <2>1 DEF Goto, TypeOK
    <2>2. ASSUME NEW kind, NEW from, Finally(r, kind, from)
          PROVE  pc'[q] = pc[q] /\ reply'[q] = reply[q]
      BY <2>2 DEF Finally, Goto, TypeOK
    <2>3. CASE CopyOut(r)
      BY <2>2, <2>3 DEF CopyOut
    <2>4. CASE ServeProbe(r) \/ ServeBlock(r) \/ GiveUp(r) \/ Replay(r) \/ Drop(r)
      BY <2>2, <2>4 DEF ServeProbe, ServeBlock, GiveUp, Replay, Drop
    <2>5. CASE RoundTrip(r)
      BY <2>1, <2>5 DEF RoundTrip
    <2>6. CASE \/ Substitute(r) \/ Process(r) \/ Rewrite(r) \/ ApplyNotice(r)
               \/ Pass(r) \/ StampEntry(r) \/ PutEntry(r)
      BY <2>1, <2>6 DEF Substitute, Process, Rewrite, ApplyNotice, Pass,
                        StampEntry, PutEntry
    <2> QED
      BY <2>3, <2>4, <2>5, <2>6 DEF Step
  <1>2. up'[q] = up[q]
    <2>1. CASE RoundTrip(r)
      BY <2>1 DEF RoundTrip, TypeOK
    <2>2. CASE ~RoundTrip(r)
      BY <2>2 DEF Step, ServeProbe, ServeBlock, GiveUp, Replay, Drop,
                Substitute, Process, Rewrite, ApplyNotice, Pass, StampEntry,
                PutEntry, CopyOut
    <2> QED
      BY <2>1, <2>2
  <1>3. body'[q] = body[q]
    <2>1. CASE Substitute(r) \/ ApplyNotice(r)
      BY <2>1 DEF Substitute, ApplyNotice, TypeOK
    <2>2. CASE ~(Substitute(r) \/ ApplyNotice(r))
      BY <2>2 DEF Step, ServeProbe, ServeBlock, RoundTrip, GiveUp, Replay,
                Drop, Process, Rewrite, Pass, StampEntry, PutEntry, CopyOut
    <2> QED
      BY <2>1, <2>2
  <1>4. keptAt'[q] = keptAt[q]
    <2>1. CASE StampEntry(r)
      BY <2>1 DEF StampEntry, TypeOK
    <2>2. CASE ~StampEntry(r)
      BY <2>2 DEF Step, ServeProbe, ServeBlock, RoundTrip, GiveUp, Replay,
                Drop, Substitute, Process, Rewrite, ApplyNotice, Pass, PutEntry,
                CopyOut
    <2> QED
      BY <2>1, <2>2
  <1> QED
    BY <1>1, <1>2, <1>3, <1>4

LEMMA StandingStep ==
  ASSUME TypeOK, Heard, Standings, [Next]_vars
  PROVE  Standings'
  <1> SUFFICES ASSUME NEW q \in Request PROVE Standing(q)'
    BY DEF Standings
  <1>1. Standing(q)
    BY DEF Standings
  <1>2. ASSUME NEW r \in Request, r # q, Step(r) PROVE Standing(q)'
    BY <1>1, <1>2, Elsewhere, Fixed DEF Standing, NoResponse
  <1>3. CASE RoundTrip(q)
    <2>1. PICK a \in Answers(q) :
             /\ up' = [up EXCEPT ![q] = a]
             /\ Goto(q, IF NoResponse(a) THEN "error"
                        ELSE IF Observes THEN "modify" ELSE "copy")
      BY <1>3 DEF RoundTrip
    <2>2. a \in Answer /\ a.kind # "none"
      BY AnswerType
    <2>3. NoResponse(a) \/ a.kind \in Responses
      BY <2>2 DEF Answer, Responses, NoResponse
    <2>4. a.zip => rq[q].gzip
      BY ZipAsAsked
    <2>5. up'[q] = a
      BY <2>1 DEF TypeOK
    <2>6. \/ pc'[q] = "error" /\ NoResponse(a)
          \/ pc'[q] \in {"modify", "copy"} /\ ~NoResponse(a)
      BY <2>1 DEF Goto, TypeOK
    <2>7. /\ body'[q] = q /\ keptAt'[q] = Never /\ reply'[q].kind = "none"
          /\ rq' = rq
      BY <1>1, <1>3 DEF RoundTrip, Standing
    <2> QED
      BY <2>3, <2>4, <2>5, <2>6, <2>7 DEF Standing, NoResponse, Responses
  <1>4. ASSUME NEW kind \in {"refused", "block", "notice", "dropped", "gone",
                             "own", "aborted", "replay"}, NEW from,
               Finally(q, kind, from), UNCHANGED <<rq, up>>
        PROVE  Standing(q)'
    <2>1. pc'[q] = "done" /\ reply'[q].kind # "none"
      BY <1>4 DEF Finally, Goto, TypeOK
    <2> QED
      BY <1>1, <1>4, <2>1 DEF Standing
  <1>5. CASE CopyOut(q)
    <2>1. UNCHANGED <<rq, up>>
      BY <1>5 DEF CopyOut
    <2> QED
      BY <1>4, <1>5, <2>1, Copied
  <1>6. CASE ServeProbe(q) \/ ServeBlock(q) \/ GiveUp(q) \/ Replay(q) \/ Drop(q)
    BY <1>4, <1>6 DEF ServeProbe, ServeBlock, GiveUp, Replay, Drop
  <1>7. CASE Substitute(q) \/ ApplyNotice(q)
    BY <1>1, <1>7 DEF Substitute, ApplyNotice, Goto, Standing, TypeOK
  <1>8. CASE Process(q) \/ Rewrite(q) \/ Pass(q)
    BY <1>1, <1>8 DEF Process, Rewrite, Pass, Goto, Standing, TypeOK
  <1>9. CASE StampEntry(q) \/ PutEntry(q)
    BY <1>1, <1>9 DEF StampEntry, PutEntry, Goto, Standing, TypeOK
  <1>10. CASE Tick \/ UNCHANGED vars
    BY <1>1, <1>10 DEF Tick, vars, Standing, NoResponse
  <1> QED
    BY <1>2, <1>3, <1>5, <1>6, <1>7, <1>8, <1>9, <1>10 DEF Next, Step

LEMMA ServesStep ==
  ASSUME TypeOK, Standings, StoresGood, ServesGood, [Next]_vars
  PROVE  ServesGood'
  <1> SUFFICES ASSUME NEW q \in Request PROVE Serves(q)'
    BY DEF ServesGood
  <1>1. Serves(q) /\ Standing(q)
    BY DEF ServesGood, Standings
  \* What was good for a key is.
  <1>2. ASSUME NEW p, Keyed(q), Good(p, KeyOf(q))
        PROVE  Keyed(q)' /\ Good(p, KeyOf(q))'
    <2>1. p \in Request
      BY <1>2 DEF Good
    <2>2. up'[p] = up[p] /\ keptAt'[p] = keptAt[p]
      BY <1>2, <2>1, GoodStays
    <2> QED
      BY <1>2, <2>2, Fixed DEF Good
  <1>3. ASSUME body'[q] = body[q], reply'[q] = reply[q] PROVE Serves(q)'
    <2>1. Good(body[q], KeyOf(q)) /\ Keyed(q)
             => Keyed(q)' /\ Good(body[q], KeyOf(q))'
      BY <1>2, <1>3 DEF Good
    <2>2. Good(reply[q].from, KeyOf(q)) /\ Keyed(q)
             => Keyed(q)' /\ Good(reply[q].from, KeyOf(q))'
      BY <1>2, <1>3 DEF Good
    <2> QED
      BY <1>1, <1>3, <2>1, <2>2 DEF Serves
  <1>4. CASE Substitute(q)
    <2>1. Replayable(q) /\ pc[q] = "modify" /\ UNCHANGED reply
      BY <1>4 DEF Substitute
    <2>2. Keyed(q)
      BY <2>1 DEF Replayable
    <2>3. PICK p \in Request \ {q} : /\ p = Cache!Found(KeyOf(q)).from
                                     /\ Good(p, KeyOf(q))
      BY <2>1, FoundIsGood
    <2>4. body'[q] = p
      BY <1>4, <2>3 DEF Substitute, TypeOK
    <2>5. Keyed(q)' /\ Good(p, KeyOf(q))'
      BY <1>2, <2>2, <2>3
    <2>6. reply'[q].kind = "none"
      BY <1>1, <2>1 DEF Standing
    <2> QED
      BY <2>4, <2>5, <2>6 DEF Serves, Good
  <1>5. CASE Replay(q)
    <2>1. Replayable(q) /\ pc[q] = "error" /\ UNCHANGED body
      BY <1>5 DEF Replay
    <2>2. Keyed(q)
      BY <2>1 DEF Replayable
    <2>3. PICK p \in Request \ {q} : /\ p = Cache!Found(KeyOf(q)).from
                                     /\ Good(p, KeyOf(q))
      BY <2>1, FoundIsGood
    <2>4. reply'[q] = [kind |-> "replay", from |-> p]
      BY <1>5, <2>3 DEF Replay, Finally, TypeOK
    <2>5. Keyed(q)' /\ Good(p, KeyOf(q))'
      BY <1>2, <2>2, <2>3
    <2>6. body'[q] = q
      BY <1>1, <2>1 DEF Standing
    <2> QED
      BY <2>4, <2>5, <2>6 DEF Serves, Good
  <1>6. CASE CopyOut(q)
    <2>1. body' = body
      BY <1>6 DEF CopyOut
    <2>2. q \in DOMAIN reply
      BY DEF TypeOK
    <2>3. CASE body[q] \in Request \ {q}
      <3>1. reply'[q] = [kind |-> "replay", from |-> body[q]]
        BY <1>6, <2>2, <2>3, Copied, ConstantsAssumption
           DEF ConstantsAssumption, Finally
      <3>2. Keyed(q)' /\ Good(body[q], KeyOf(q))'
        BY <1>1, <1>2, <2>1, <2>3 DEF Serves, Good
      <3> QED
        BY <2>1, <3>1, <3>2 DEF Serves, Good
    <2>4. CASE body[q] = q
      <3>1. Finally(q, "own", q) \/ Finally(q, "aborted", q)
        BY <1>6, <2>4, Copied, ConstantsAssumption DEF ConstantsAssumption
      <3>2. reply'[q].kind \in {"own", "aborted"} /\ reply'[q].from = q
        BY <2>2, <3>1 DEF Finally
      <3> QED
        BY <2>1, <2>4, <3>2 DEF Serves
    <2>5. CASE body[q] = NoRequest
      <3>1. Finally(q, "notice", NoRequest)
        BY <1>6, <2>5, Copied, ConstantsAssumption DEF ConstantsAssumption
      <3>2. body'[q] \notin Request
        BY <2>1, <2>5, ConstantsAssumption DEF ConstantsAssumption
      <3>3. reply'[q].kind = "notice"
        BY <2>2, <3>1 DEF Finally
      <3> QED
        BY <3>2, <3>3 DEF Serves
    <2> QED
      BY <2>3, <2>4, <2>5 DEF TypeOK
  <1>7. CASE ApplyNotice(q)
    <2>1. body'[q] \in {body[q], NoRequest} /\ reply' = reply
      BY <1>7 DEF ApplyNotice, TypeOK
    <2>2. body[q] = q /\ reply[q].kind = "none"
      BY <1>1, <1>7 DEF ApplyNotice, Standing
    <2> QED
      BY <2>1, <2>2, ConstantsAssumption DEF ConstantsAssumption, Serves
  <1>8. CASE ServeProbe(q) \/ ServeBlock(q) \/ GiveUp(q) \/ Drop(q)
    <2>1. body' = body /\ body[q] = q
      BY <1>1, <1>8 DEF ServeProbe, ServeBlock, GiveUp, Drop, Standing
    <2>2. reply'[q].kind \in {"refused", "block", "gone", "dropped"}
      BY <1>8 DEF ServeProbe, ServeBlock, GiveUp, Drop, Finally, TypeOK
    <2> QED
      BY <2>1, <2>2 DEF Serves
  <1>9. CASE \/ RoundTrip(q) \/ Process(q) \/ Rewrite(q) \/ Pass(q)
             \/ StampEntry(q) \/ PutEntry(q) \/ Tick \/ UNCHANGED vars
    BY <1>3, <1>9 DEF RoundTrip, Process, Rewrite, Pass, StampEntry, PutEntry,
                      Tick, vars
  <1>10. ASSUME NEW r \in Request, r # q, Step(r) PROVE Serves(q)'
    BY <1>3, <1>10, Elsewhere
  <1> QED
    BY <1>4, <1>5, <1>6, <1>7, <1>8, <1>9, <1>10 DEF Next, Step

LEMMA InvStep ==
  Inv /\ Heard /\ [Next]_vars /\ TypeOK' => Inv'
  BY StandingStep, StoredStep, CarryStep, ServesStep DEF Inv

\* Inv: the stages are what they seem, and whatever is stored, offered to the
\* cache or sent to a client is good for the key it is stored or sent under.
THEOREM InvAlways == Spec => []Inv
  <1>1. Init => Standings /\ StoresGood /\ CarriesGood /\ ServesGood
    <2> SUFFICES ASSUME Init
                 PROVE  Standings /\ StoresGood /\ CarriesGood /\ ServesGood
      OBVIOUS
    <2>1. Standings /\ ServesGood
      BY DEF Init, Standings, Standing, ServesGood, Serves, Bare
    <2>2. StoresGood /\ CarriesGood
      BY DEF Init, Cache!Init, StoresGood, Stored, CarriesGood, Carrying,
             Cache!NoEntry
    <2> QED
      BY <2>1, <2>2
  <1>2. Init /\ TypeOK => Inv
    BY <1>1 DEF Inv
  <1> QED
    BY <1>2, InvStep, TypeCorrect, HeardAlways, PTL DEF Spec

-----------------------------------------------------------------------------
(* What clients get                                                        *)

\* AcceptableEncoding: a compressed body goes only to who asked for one, since
\* Accept-Encoding is part of the key, and the page compresses on request.
THEOREM EncodingAccepted == Spec => []AcceptableEncoding
  <1>1. Inv => AcceptableEncoding
    <2> SUFFICES ASSUME Inv, NEW r \in Request,
                        reply[r].kind \in {"own", "aborted", "replay"},
                        up[reply[r].from].zip
                 PROVE  rq[r].gzip
      BY DEF AcceptableEncoding
    <2>1. Serves(r) /\ Standing(r)
      BY DEF Inv, ServesGood, Standings
    <2>2. CASE reply[r].kind # "replay"
      BY <2>1, <2>2 DEF Serves, Standing
    <2>3. CASE reply[r].kind = "replay"
      <3> DEFINE q == reply[r].from
      <3>1. q \in Request /\ KeyOf(q) = KeyOf(r)
        BY <2>1, <2>3 DEF Serves, Good
      <3>2. rq[q].gzip
        BY <3>1 DEF Inv, Standings, Standing
      <3> QED
        BY <3>1, <3>2 DEF KeyOf
    <2> QED
      BY <2>2, <2>3
  <1> QED
    BY <1>1, InvAlways, PTL

LEMMA KeyedVariant ==
  ASSUME NEW r \in Request
  PROVE  IF Keyed(r) THEN Variant(r) = KeyOf(r) /\ Variant(r) # NoKey
         ELSE Variant(r) = NoKey
  BY DEF Keyed, HasNotice, Rule, Variant, NoKey, KeyOf

\* OutageCovered: a client is turned away, or sent the page's error, only after
\* its key was looked up and nothing fresh was there.
THEOREM OutagesCovered == Spec => OutageCovered
  <1> DEFINE A == \A r \in Request :
         /\ Variant(r) # NoKey
         /\ \/ reply'[r].kind = "dropped" /\ reply[r].kind = "none"
            \/ up[r].kind = "failing" /\ pc[r] = "modify"
                  /\ pc'[r] \in {"rewrite", "finish"}
         => ~Cache!Fresh(Variant(r))
  <1>1. ASSUME TypeOK, [Next]_vars PROVE A
    <2> SUFFICES ASSUME NEW r \in Request, Variant(r) # NoKey,
                        \/ reply'[r].kind = "dropped" /\ reply[r].kind = "none"
                        \/ up[r].kind = "failing" /\ pc[r] = "modify"
                              /\ pc'[r] \in {"rewrite", "finish"}
                 PROVE  ~Cache!Fresh(Variant(r))
      OBVIOUS
    <2>1. Keyed(r) /\ Variant(r) = KeyOf(r)
      BY KeyedVariant
    <2>2. Step(r)
      <3>1. \A q \in Request : q # r /\ Step(q) => pc'[r] = pc[r] /\ reply'[r] = reply[r]
        BY <1>1, Elsewhere
      <3> QED
        BY <1>1, <3>1 DEF Next, Tick, vars
    <2>3. CASE reply'[r].kind = "dropped" /\ reply[r].kind = "none"
      <3>1. ASSUME NEW kind, NEW from, Finally(r, kind, from) PROVE kind = "dropped"
        BY <1>1, <2>3, <3>1 DEF Finally, TypeOK
      <3>2. CASE Drop(r)
        BY <2>1, <3>2 DEF Drop, Replayable
      <3>3. CASE CopyOut(r)
        BY <3>1, <3>3, Copied
      <3>4. CASE ServeProbe(r) \/ ServeBlock(r) \/ GiveUp(r) \/ Replay(r)
        BY <3>1, <3>4 DEF ServeProbe, ServeBlock, GiveUp, Replay
      <3>5. CASE \/ RoundTrip(r) \/ Substitute(r) \/ Process(r) \/ Rewrite(r)
                 \/ ApplyNotice(r) \/ Pass(r) \/ StampEntry(r) \/ PutEntry(r)
        BY <2>3, <3>5 DEF RoundTrip, Substitute, Process, Rewrite, ApplyNotice, Pass,
                          StampEntry, PutEntry
      <3> QED
        BY <2>2, <3>2, <3>3, <3>4, <3>5 DEF Step
    <2>4. CASE up[r].kind = "failing" /\ pc[r] = "modify"
                  /\ pc'[r] \in {"rewrite", "finish"}
      <3>1. CASE Process(r)
        BY <2>1, <2>4, <3>1 DEF Process, Replaces, Replayable
      <3>2. CASE Substitute(r)
        BY <1>1, <2>4, <3>2 DEF Substitute, Goto, TypeOK
      <3>3. CASE ~(Process(r) \/ Substitute(r))
        BY <2>2, <2>4, <3>3
           DEF Step, ServeProbe, ServeBlock, RoundTrip, GiveUp, Replay, Drop, Rewrite,
               ApplyNotice, Pass, StampEntry, PutEntry, CopyOut
      <3> QED
        BY <3>1, <3>2, <3>3
    <2> QED
      BY <2>3, <2>4
  <1>2. [][A]_vars <=> OutageCovered
    BY PTL DEF OutageCovered
  <1> QED
    BY <1>1, <1>2, TypeCorrect, PTL DEF Spec

-----------------------------------------------------------------------------
(* The contract                                                            *)

\* Decided and Verdict without their CASE, which SMT does not read.
Outcome(r) ==
    IF reply[r].kind \in {"refused", "block"}
    THEN [kind |-> "local", from |-> NoRequest]
    ELSE IF reply[r].kind \in {"own", "notice", "aborted"}
    THEN [kind |-> "own", from |-> r]
    ELSE IF reply[r].kind \in {"dropped", "gone"}
    THEN [kind |-> "closed", from |-> NoRequest]
    ELSE IF reply[r].kind = "replay"
    THEN [kind |-> "replay", from |-> reply[r].from]
    ELSE IF pc[r] = "copy" /\ body[r] \in Request \ {r}
    THEN [kind |-> "replay", from |-> body[r]]
    ELSE [kind |-> "none", from |-> NoRequest]

Said(r) ==
    IF up[r].kind = "none" THEN "nothing"
    ELSE IF up[r].kind \in {"down", "eof", "failing"} THEN "failed"
    ELSE IF up[r].kind = "canceled" THEN "gone"
    ELSE IF Complete(up[r]) THEN "good"
    ELSE "unfit"

Verdicts == \A r \in Request : Verdict(r) = Said(r)
Decisions == Standings => \A r \in Request : Decided(r) = Outcome(r)

LEMMA VerdictsAre == Verdicts
  <1> SUFFICES ASSUME NEW r \in Request PROVE Verdict(r) = Said(r)
    BY DEF Verdicts
  <1> DEFINE failed == up[r].kind \in {"down", "eof", "failing"}
             gone == up[r].kind = "canceled"
  <1>1. CASE up[r].kind = "none"
    <2>1. ~failed /\ ~gone /\ ~Complete(up[r])
      BY <1>1 DEF Complete
    <2> QED
      BY <1>1, <2>1, Zenon DEF Verdict, Said
  <1>2. CASE failed
    <2>1. up[r].kind # "none" /\ ~gone /\ ~Complete(up[r])
      BY <1>2 DEF Complete
    <2> QED
      BY <1>2, <2>1, Zenon DEF Verdict, Said
  <1>3. CASE gone
    <2>1. up[r].kind # "none" /\ ~failed /\ ~Complete(up[r])
      BY <1>3 DEF Complete
    <2> QED
      BY <1>3, <2>1, Zenon DEF Verdict, Said
  <1>4. CASE Complete(up[r])
    <2>1. up[r].kind # "none" /\ ~failed /\ ~gone
      BY <1>4 DEF Complete
    <2> QED
      BY <1>4, <2>1, Zenon DEF Verdict, Said
  <1>5. CASE up[r].kind # "none" /\ ~failed /\ ~gone /\ ~Complete(up[r])
    BY <1>5, Zenon DEF Verdict, Said
  <1> QED
    BY <1>1, <1>2, <1>3, <1>4, <1>5

LEMMA VerdictsNext == Verdicts'
  BY VerdictsAre, PTL

LEMMA DecisionsAre == Decisions
  <1> SUFFICES ASSUME Standings, NEW r \in Request PROVE Decided(r) = Outcome(r)
    BY DEF Decisions
  <1> DEFINE local == reply[r].kind \in {"refused", "block"}
             own == reply[r].kind \in {"own", "notice", "aborted"}
             closed == reply[r].kind \in {"dropped", "gone"}
             replayed == reply[r].kind = "replay"
             substituted == pc[r] = "copy" /\ body[r] \in Request \ {r}
  <1>1. local \/ own \/ closed \/ replayed => reply[r].kind # "none"
    OBVIOUS
  <1>2. substituted => reply[r].kind = "none"
    BY DEF Standings, Standing
  <1>3. CASE local
    <2>1. ~own /\ ~closed /\ ~replayed /\ ~substituted
      BY <1>1, <1>2, <1>3
    <2> QED
      BY <1>3, <2>1, Zenon DEF Decided, Outcome
  <1>4. CASE own
    <2>1. ~local /\ ~closed /\ ~replayed /\ ~substituted
      BY <1>1, <1>2, <1>4
    <2> QED
      BY <1>4, <2>1, Zenon DEF Decided, Outcome
  <1>5. CASE closed
    <2>1. ~local /\ ~own /\ ~replayed /\ ~substituted
      BY <1>1, <1>2, <1>5
    <2> QED
      BY <1>5, <2>1, Zenon DEF Decided, Outcome
  <1>6. CASE replayed
    <2>1. ~local /\ ~own /\ ~closed /\ ~substituted
      BY <1>1, <1>2, <1>6
    <2> QED
      BY <1>6, <2>1, Zenon DEF Decided, Outcome
  <1>7. CASE substituted
    <2>1. ~local /\ ~own /\ ~closed /\ ~replayed
      BY <1>1, <1>2, <1>7
    <2> QED
      BY <1>7, <2>1, Zenon DEF Decided, Outcome
  <1>8. CASE ~local /\ ~own /\ ~closed /\ ~replayed /\ ~substituted
    BY <1>8, Zenon DEF Decided, Outcome
  <1> QED
    BY <1>3, <1>4, <1>5, <1>6, <1>7, <1>8

LEMMA DecisionsNext == Decisions'
  BY DecisionsAre, PTL

LEMMA ContractInit == Init => Contract!Init
  <1> SUFFICES ASSUME Init PROVE Contract!Init
    OBVIOUS
  <1>1. rq \in [Request -> Arrival]
    BY HeardInit DEF Heard
  <1>2. \A r \in Request : Variant(r) \in Key \cup {NoKey}
    BY <1>1, KeyType, KeyedVariant
  <1>3. \A r \in Request : Verdict(r) = "nothing"
    BY VerdictsAre DEF Init, Verdicts, Said, Bare
  <1>4. \A r \in Request : Decided(r) = [kind |-> "none", from |-> NoRequest]
    BY DEF Init, Decided
  <1>5. now = 0 /\ keptAt = [r \in Request |-> Never]
    BY DEF Init, Cache!Init
  <1> QED
    BY <1>2, <1>3, <1>4, <1>5 DEF Contract!Init

\* Nothing is decided of a request before it is done or its body replaced.
Open(r) == Outcome(r) = [kind |-> "none", from |-> NoRequest]

\* What a step of r does to the variables of the contract.
LEMMA ContractMoves ==
  ASSUME Inv, Standings', [Next]_vars, NEW r \in Request, Step(r)
  PROVE  /\ [q \in Request |-> Variant(q)]' = [q \in Request |-> Variant(q)]
         /\ [q \in Request |-> Verdict(q)]'
               = [[q \in Request |-> Verdict(q)] EXCEPT ![r] = Said(r)']
         /\ [q \in Request |-> Decided(q)]'
               = [[q \in Request |-> Decided(q)] EXCEPT ![r] = Outcome(r)']
         /\ Said(r)' = Said(r) => UNCHANGED [q \in Request |-> Verdict(q)]
         /\ Outcome(r)' = Outcome(r) => UNCHANGED [q \in Request |-> Decided(q)]
         /\ Verdict(r) = Said(r) /\ Decided(r) = Outcome(r)
  <1>1. \A q \in Request : Verdict(q) = Said(q) /\ Verdict(q)' = Said(q)'
    BY VerdictsAre, VerdictsNext DEF Verdicts
  <1>2. \A q \in Request : Decided(q) = Outcome(q) /\ Decided(q)' = Outcome(q)'
    BY DecisionsAre, DecisionsNext DEF Decisions, Inv
  <1>3. \A q \in Request : q # r => Said(q)' = Said(q) /\ Outcome(q)' = Outcome(q)
    BY Elsewhere DEF Inv, Said, Outcome
  <1>4. \A q \in Request : Variant(q)' = Variant(q)
    BY Fixed
  <1> QED
    BY <1>1, <1>2, <1>3, <1>4

LEMMA OpenUndecided ==
  ASSUME Inv, NEW r \in Request, Open(r)
  PROVE  Contract!Undecided(r)
  <1>1. Decided(r) = Outcome(r)
    BY DecisionsAre DEF Decisions, Inv
  <1> QED
    BY <1>1 DEF Contract!Undecided, Open

LEMMA Decides ==
  ASSUME Inv, Standings', [Next]_vars, NEW r \in Request, Step(r),
         UNCHANGED <<now, keptAt>>, Said(r)' = Said(r), Open(r),
         NEW kind, NEW from, Outcome(r)' = [kind |-> kind, from |-> from]
  PROVE  Contract!Decide(r, kind, from)
  <1>1. [q \in Request |-> Decided(q)]'
           = [[q \in Request |-> Decided(q)] EXCEPT
                ![r] = [kind |-> kind, from |-> from]]
    BY ContractMoves
  <1>2. UNCHANGED <<[q \in Request |-> Variant(q)], [q \in Request |-> Verdict(q)]>>
    BY ContractMoves
  <1> QED
    BY <1>1, <1>2, OpenUndecided DEF Contract!Decide

LEMMA Stutters ==
  ASSUME Inv, Standings', [Next]_vars, NEW r \in Request, Step(r),
         UNCHANGED <<now, keptAt>>, Said(r)' = Said(r), Outcome(r)' = Outcome(r)
  PROVE  UNCHANGED Contract!vars
  BY ContractMoves DEF Contract!vars

\* Before it is copied a request is open.
LEMMA OpenAtFirst ==
  ASSUME Inv, NEW r \in Request, pc[r] \notin {"copy", "done"}
  PROVE  Open(r)
  BY DEF Inv, Standings, Standing, Open, Outcome

LEMMA LocalStep ==
  ASSUME Inv, Standings', [Next]_vars, NEW r \in Request,
         ServeProbe(r) \/ ServeBlock(r)
  PROVE  Contract!AnswerLocally(r)
  <1>1. /\ pc[r] = "new" /\ UNCHANGED <<now, keptAt, up>>
        /\ Finally(r, "refused", NoRequest) \/ Finally(r, "block", NoRequest)
    BY DEF ServeProbe, ServeBlock
  <1>2. Open(r)
    BY <1>1, OpenAtFirst
  <1>3. Said(r) = "nothing" /\ Said(r)' = Said(r)
    BY <1>1 DEF Inv, Standings, Standing, Said
  <1>4. Outcome(r)' = [kind |-> "local", from |-> NoRequest]
    <2>1. reply'[r].kind \in {"refused", "block"}
      BY <1>1 DEF Finally, Inv, TypeOK
    <2> QED
      BY <2>1 DEF Outcome
  <1> QED
    BY <1>1, <1>2, <1>3, <1>4, Decides, ContractMoves
       DEF Step, Contract!AnswerLocally

LEMMA HearStep ==
  ASSUME Inv, Standings', [Next]_vars, NEW r \in Request, RoundTrip(r)
  PROVE  Contract!Hear(r)
  <1>1. pc[r] = "new" /\ UNCHANGED <<now, keptAt, reply, body>>
    BY DEF RoundTrip
  <1>2. Open(r) /\ Said(r) = "nothing" /\ body[r] = r
    BY <1>1, OpenAtFirst DEF Inv, Standings, Standing, Said
  <1>3. Outcome(r)' = Outcome(r)
    BY <1>1, <1>2 DEF Open, Outcome
  <1>4. Said(r)' \in Contract!Verdicts
    <2>1. pc'[r] \in {"error", "modify", "copy"}
      BY DEF RoundTrip, Goto, Inv, TypeOK
    <2>2. up'[r].kind # "none"
      BY <2>1 DEF Standings, Standing, NoResponse, Responses
    <2> QED
      BY <2>2 DEF Said, Contract!Verdicts
  <1>5. Step(r)
    BY DEF Step
  <1>6. /\ [q \in Request |-> Verdict(q)]'
              = [[q \in Request |-> Verdict(q)] EXCEPT ![r] = Said(r)']
        /\ UNCHANGED <<[q \in Request |-> Variant(q)],
                       [q \in Request |-> Decided(q)]>>
        /\ Verdict(r) = "nothing"
    BY <1>2, <1>3, <1>5, ContractMoves
  <1> QED
    BY <1>1, <1>2, <1>4, <1>6, OpenUndecided DEF Contract!Hear

LEMMA CloseStep ==
  ASSUME Inv, Standings', [Next]_vars, NEW r \in Request, GiveUp(r) \/ Drop(r)
  PROVE  Contract!Close(r)
  <1>1. /\ pc[r] = "error" /\ UNCHANGED <<now, keptAt, up>>
        /\ Finally(r, "gone", NoRequest) \/ Finally(r, "dropped", NoRequest)
    BY DEF GiveUp, Drop, LookUp
  <1>2. Open(r)
    BY <1>1, OpenAtFirst
  <1>3. Said(r) \in {"failed", "gone"} /\ Said(r)' = Said(r)
    BY <1>1 DEF Inv, Standings, Standing, NoResponse, Said
  <1>4. Outcome(r)' = [kind |-> "closed", from |-> NoRequest]
    <2>1. reply'[r].kind \in {"gone", "dropped"}
      BY <1>1 DEF Finally, Inv, TypeOK
    <2> QED
      BY <2>1 DEF Outcome
  <1> QED
    BY <1>1, <1>2, <1>3, <1>4, Decides, ContractMoves DEF Step, Contract!Close

\* handleError and replaceWithCache both replay what is good for the key.
LEMMA ReplayStep ==
  ASSUME Inv, Standings', [Next]_vars, NEW r \in Request,
         Replay(r) \/ Substitute(r)
  PROVE  \E q \in Request : Contract!Replay(r, q)
  <1>1. Replayable(r) /\ pc[r] \in {"error", "modify"}
        /\ UNCHANGED <<now, keptAt, up>>
    BY DEF Replay, Substitute, LookUp
  <1>2. PICK q \in Request \ {r} :
           /\ q = Cache!Found(KeyOf(r)).from
           /\ Good(q, KeyOf(r)) /\ now - keptAt[q] <= TTL
    BY <1>1, FoundIsGood DEF Inv
  <1>3. Open(r)
    BY <1>1, OpenAtFirst
  <1>4. Said(r) = "failed" /\ Said(r)' = Said(r)
    <2>1. up[r].kind \in {"down", "eof", "failing"}
      BY DEF Replay, Substitute, Replaces, Inv, Standings, Standing, NoResponse
    <2> QED
      BY <1>1, <2>1 DEF Said
  <1>5. Outcome(r)' = [kind |-> "replay", from |-> q]
    <2>1. CASE Replay(r)
      BY <1>2, <2>1 DEF Replay, Finally, Inv, TypeOK, Outcome
    <2>2. CASE Substitute(r)
      <3>1. pc'[r] = "copy" /\ body'[r] = q /\ reply'[r] = reply[r]
        BY <1>2, <2>2 DEF Substitute, Goto, Inv, TypeOK
      <3>2. reply[r].kind = "none"
        BY <1>1 DEF Inv, Standings, Standing
      <3> QED
        BY <1>2, <3>1, <3>2 DEF Outcome
    <2> QED
      BY <2>1, <2>2
  <1>6. Variant(r) # NoKey /\ Variant(q) = Variant(r) /\ keptAt[q] # Never
    BY <1>1, <1>2, KeyedVariant, ConstantsAssumption
       DEF ConstantsAssumption, Replayable, Good
  <1> QED
    BY <1>1, <1>2, <1>3, <1>4, <1>5, <1>6, Decides, ContractMoves
       DEF Step, Contract!Replay

LEMMA KeepStep ==
  ASSUME Inv, Standings', [Next]_vars, NEW r \in Request, StampEntry(r)
  PROVE  Contract!Keep(r)
  <1>1. /\ pc[r] = "finish" /\ Stores(r) /\ keptAt' = [keptAt EXCEPT ![r] = now]
        /\ UNCHANGED <<now, up, body, reply>> /\ pc'[r] = "put"
    BY DEF StampEntry, Goto, Inv, TypeOK
  <1>2. Open(r) /\ keptAt[r] = Never /\ body[r] = r
    BY <1>1, OpenAtFirst DEF Inv, Standings, Standing
  <1>3. Said(r) = "good" /\ Said(r)' = Said(r)
    <2>1. up[r].kind = "payload" /\ Complete(up[r])
      BY <1>1 DEF Stores, Rewritable, Complete
    <2> HIDE DEF Complete
    <2> QED
      BY <1>1, <2>1 DEF Said
  <1>4. Outcome(r)' = Outcome(r)
    BY <1>1, <1>2 DEF Outcome
  <1>5. Variant(r) # NoKey
    BY <1>1, KeyedVariant DEF Stores
  <1>6. Step(r)
    BY DEF Step
  <1>7. /\ UNCHANGED <<[q \in Request |-> Variant(q)],
                       [q \in Request |-> Verdict(q)],
                       [q \in Request |-> Decided(q)]>>
        /\ Verdict(r) = "good"
    BY <1>3, <1>4, <1>6, ContractMoves
  <1> QED
    BY <1>1, <1>2, <1>5, <1>7, OpenUndecided DEF Contract!Keep

\* What was decided at replaceWithCache is written out later; anything else is
\* decided as it is written.
LEMMA CopyStep ==
  ASSUME Inv, Standings', [Next]_vars, NEW r \in Request, CopyOut(r)
  PROVE  Contract!AnswerOwn(r) \/ UNCHANGED Contract!vars
  <1>1. pc[r] = "copy" /\ UNCHANGED <<now, keptAt, up, body>>
    BY DEF CopyOut
  <1>2. Said(r) # "nothing" /\ Said(r)' = Said(r) /\ reply[r].kind = "none"
    BY <1>1 DEF Inv, Standings, Standing, Responses, Said
  <1>3. CASE body[r] \in Request \ {r}
    <2>1. Finally(r, "replay", body[r])
      BY <1>3, Copied, ConstantsAssumption DEF ConstantsAssumption
    <2>2. Outcome(r)' = Outcome(r)
      BY <1>1, <1>2, <1>3, <2>1 DEF Finally, Inv, TypeOK, Outcome
    <2> QED
      BY <1>1, <1>2, <2>2, Stutters DEF Step
  <1>4. CASE body[r] \notin Request \ {r}
    <2>1. \/ Finally(r, "notice", NoRequest)
          \/ Finally(r, "own", body[r]) \/ Finally(r, "aborted", body[r])
      BY <1>4, Copied
    <2>2. Outcome(r)' = [kind |-> "own", from |-> r]
      <3>1. reply'[r].kind \in {"own", "notice", "aborted"}
        BY <2>1 DEF Finally, Inv, TypeOK
      <3> QED
        BY <3>1 DEF Outcome
    <2>3. Open(r)
      BY <1>1, <1>2, <1>4 DEF Open, Outcome
    <2> QED
      BY <1>1, <1>2, <2>2, <2>3, Decides, ContractMoves DEF Step, Contract!AnswerOwn
  <1> QED
    BY <1>3, <1>4

LEMMA InnerStep ==
  ASSUME Inv, Standings', [Next]_vars, NEW r \in Request,
         Process(r) \/ Rewrite(r) \/ ApplyNotice(r) \/ Pass(r) \/ PutEntry(r)
  PROVE  UNCHANGED Contract!vars
  <1>1. /\ pc[r] \in {"modify", "rewrite", "finish", "put"}
        /\ UNCHANGED <<now, keptAt, up, reply>>
    BY DEF Process, Rewrite, ApplyNotice, Pass, PutEntry, LookUp, Cache!Insert
  <1>2. Open(r) /\ body[r] = r /\ reply[r].kind = "none"
    BY <1>1, OpenAtFirst DEF Inv, Standings, Standing
  <1>3. body'[r] \in {r, NoRequest}
    BY <1>2 DEF Process, Rewrite, ApplyNotice, Pass, PutEntry, Inv, TypeOK
  <1>4. Outcome(r)' = Outcome(r)
    BY <1>1, <1>2, <1>3, ConstantsAssumption DEF ConstantsAssumption, Open, Outcome
  <1>5. Said(r)' = Said(r)
    BY <1>1 DEF Said
  <1> QED
    BY <1>1, <1>4, <1>5, Stutters DEF Step

LEMMA ContractStep ==
  Inv /\ Standings' /\ [Next]_vars => [Contract!Next]_(Contract!vars)
  <1> SUFFICES ASSUME Inv, Standings', [Next]_vars
               PROVE  Contract!Next \/ UNCHANGED Contract!vars
    OBVIOUS
  <1>1. ASSUME NEW r \in Request, Step(r)
        PROVE  Contract!Next \/ UNCHANGED Contract!vars
    BY <1>1, LocalStep, HearStep, CloseStep, ReplayStep, KeepStep, CopyStep, InnerStep
       DEF Step, Contract!Next
  <1>2. CASE Tick \/ UNCHANGED vars
    <2>1. \A r \in Request : Said(r)' = Said(r) /\ Outcome(r)' = Outcome(r)
      BY <1>2 DEF Tick, vars, Said, Outcome
    <2>2. \A r \in Request : /\ Verdict(r)' = Verdict(r) /\ Decided(r)' = Decided(r)
                             /\ Variant(r)' = Variant(r)
      BY <2>1, VerdictsAre, VerdictsNext, DecisionsAre, DecisionsNext, Fixed
         DEF Verdicts, Decisions, Inv
    <2>3. UNCHANGED keptAt /\ now' \in {now, now + 1}
      BY <1>2 DEF Tick, vars
    <2> QED
      BY <2>2, <2>3 DEF Contract!vars, Contract!Next, Contract!Tick
  <1> QED
    BY <1>1, <1>2 DEF Next

\* HonoursContract: the pipeline implements FallbackContract.  The page is asked
\* first; a response stands in for its answer only if it failed, only for the
\* same key, within the TTL, and only if it was a complete subscription.
THEOREM ContractHonoured == Spec => HonoursContract
  <1>1. Inv => Standings
    BY DEF Inv
  <1> QED
    BY <1>1, ContractInit, ContractStep, InvAlways, PTL
       DEF Spec, HonoursContract, Contract!Spec

=============================================================================

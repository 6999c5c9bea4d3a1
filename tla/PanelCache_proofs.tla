-------------------------- MODULE PanelCache_proofs --------------------------
(***************************************************************************)
(* Proofs about PanelCache, for every set of callers, every finite set of  *)
(* keys and every value of the times and of the bound.                     *)
(***************************************************************************)
EXTENDS PanelCache, FiniteSetTheorems, TLAPS

-----------------------------------------------------------------------------
(* The inductive invariant                                                 *)

\* A registered call is one whose leader is between registration and removal,
\* and vice versa; and nothing live is stored under its key meanwhile.
FlightInv ==
    /\ \A k \in Key : inFlight[k] # NoCall =>
          /\ pc[inFlight[k]] \in {"fetch", "publish"}
          /\ key[inFlight[k]] = k
          /\ ~Live(k)
    /\ \A c \in Caller :
          pc[c] \in {"fetch", "publish"} => inFlight[key[c]] = c

\* "canceled" is the answer of waiters that left, never the outcome of a fetch.
CancelInv ==
    /\ \A c \in Caller : call[c].res.kind # "canceled"
    /\ NoForeignCancel

\* A caller on its way asked no later than now; a leader, before its fetch.
AskTimes(c) ==
    /\ pc[c] \in {"enter", "wait", "fetch", "publish", "close"}
          => asked[c] <= now
    /\ pc[c] \in {"fetch", "publish", "close"} => asked[c] <= started[c]

\* A fetch lasts FetchLimit at most and ends with a word said while it lasted.
FetchTimes(c) ==
    /\ pc[c] \in {"fetch", "publish"} =>
          started[c] <= now /\ now <= started[c] + FetchLimit
    /\ pc[c] \in {"publish", "close"} => started[c] <= call[c].res.at

\* A waiter asked before its leader's fetch had to be over.
WaitTimes(c) ==
    pc[c] = "wait" =>
        \/ /\ pc[joined[c]] = "fetch"
           /\ asked[c] <= started[joined[c]] + FetchLimit
        \/ /\ call[joined[c]].done \/ pc[joined[c]] \in {"publish", "close"}
           /\ asked[c] <= call[joined[c]].res.at + FetchLimit

\* An entry expires one time to live after a fetch that began no later than the
\* panel's word, at the latest.
EntryTimes(k) ==
    entries[k].kind # "none" =>
        /\ TtlOf(entries[k].kind) > 0
        /\ entries[k].expiresAt
              <= entries[k].at + FetchLimit + TtlOf(entries[k].kind)

TimeInv ==
    /\ \A c \in Caller : AskTimes(c) /\ FetchTimes(c) /\ WaitTimes(c)
    /\ \A k \in Key : EntryTimes(k)

\* The leader of a call that is not done has not returned.
DoneInv == \A c \in Caller : call[c].done => pc[c] = "done"

IInv ==
    /\ TypeOK
    /\ FlightInv
    /\ NoOrphanWaiter
    /\ CancelInv
    /\ TimeInv
    /\ DoneInv
    /\ FreshAnswers
    /\ BoundedEntries

-----------------------------------------------------------------------------
(* Type correctness                                                        *)

\* The initial state is well typed.
LEMMA TypeOKInit == Init => TypeOK
  BY ConstantsAssumption
  DEF Init, TypeOK, Entry, NoEntry, Outcome, Unknown, Kinds

\* What the cache hands out is an outcome.
LEMMA StoredType ==
  ASSUME TypeOK, NEW k \in Key, entries[k].kind # "none"
  PROVE  Stored(k) \in Outcome
  BY DEF TypeOK, Entry, Outcome, Kinds, Stored

\* Returning a well-typed outcome leaves a well-typed answer.
LEMMA ReturnType ==
  ASSUME TypeOK, NEW c \in Caller, NEW o \in Outcome, NEW t \in Nat,
         Return(c, o, t)
  PROVE  /\ pc' \in [Caller -> {"idle", "enter", "wait", "fetch", "publish",
                                 "close", "done"}]
         /\ answer' \in [Caller -> [kind : Kinds, age : Nat]]
         /\ asked' \in [Caller -> Nat]
         /\ started' \in [Caller -> Nat]
         /\ joined' \in [Caller -> Caller \cup {NoCall}]
  <1>1. (IF o.at < t THEN t - o.at ELSE 0) \in Nat
    BY DEF Outcome
  <1>2. [kind |-> o.kind, age |-> IF o.at < t THEN t - o.at ELSE 0]
            \in [kind : Kinds, age : Nat]
    BY <1>1 DEF Outcome
  <1> QED
    BY <1>2 DEF Return, Goto, TypeOK

\* Whatever store does, the entries stay entries.
LEMMA StoreType ==
  ASSUME TypeOK, NEW k \in Key, NEW o \in Outcome, Store(k, o)
  PROVE  entries' \in [Key -> Entry]
  <1>1. CASE TtlOf(o.kind) <= 0
    BY <1>1 DEF Store, TypeOK
  <1>2. CASE ~(TtlOf(o.kind) <= 0)
    <2>1. o.kind \in {"info", "notfound"} /\ TtlOf(o.kind) \in Nat
      BY <1>2, ConstantsAssumption DEF TtlOf, Outcome, Kinds
    <2>2. [kind |-> o.kind, at |-> o.at, expiresAt |-> now + TtlOf(o.kind)]
             \in Entry
      BY <2>1 DEF Entry, Outcome, TypeOK
    <2>3. NoEntry \in Entry
      BY DEF NoEntry, Entry
    <2> QED
      BY <1>2, <2>2, <2>3 DEF Store, TypeOK
  <1> QED
    BY <1>1, <1>2

\* Every step keeps the types; a waiter must have joined somebody.
LEMMA TypeOKStep ==
  ASSUME TypeOK, NoOrphanWaiter, [Next]_vars
  PROVE  TypeOK'
  <1>1. ASSUME NEW c \in Caller, Lookup(c) PROVE TypeOK'
    <2>1. CASE Live(key[c])
      <3>1. Return(c, Stored(key[c]), now)
        BY <1>1, <2>1 DEF Lookup
      <3>2. Stored(key[c]) \in Outcome /\ now \in Nat
        BY <2>1, StoredType DEF Live, TypeOK
      <3> QED
        BY <1>1, <3>1, <3>2, ReturnType DEF Lookup, TypeOK
    <2>2. CASE ~Live(key[c])
      BY <1>1, <2>2 DEF Lookup, Goto, TypeOK
    <2> QED
      BY <2>1, <2>2
  <1>2. ASSUME NEW c \in Caller, EnterHit(c) PROVE TypeOK'
    <2>1. Stored(key[c]) \in Outcome /\ asked[c] \in Nat
      BY <1>2, StoredType DEF EnterHit, Live, TypeOK
    <2> QED
      BY <1>2, <2>1, ReturnType DEF EnterHit, TypeOK
  <1>3. ASSUME NEW c \in Caller, Join(c) PROVE TypeOK'
    BY <1>3 DEF Join, Goto, TypeOK
  <1>4. ASSUME NEW c \in Caller, Lead(c) PROVE TypeOK'
    BY <1>4 DEF Lead, Goto, TypeOK
  <1>5. ASSUME NEW c \in Caller, FetchEnd(c) PROVE TypeOK'
    <2>1. PICK kind \in FetchOutcomes(c), at \in started[c] .. now :
             call' = [call EXCEPT ![c].res = [kind |-> kind, at |-> at]]
      BY <1>5 DEF FetchEnd
    <2>2. at \in Nat /\ kind \in Kinds
      BY DEF TypeOK, FetchOutcomes, Kinds
    <2>3. [kind |-> kind, at |-> at] \in Outcome
      BY <2>2 DEF Outcome
    <2>4. call' \in [Caller -> [done : BOOLEAN, res : Outcome]]
      BY <2>1, <2>3 DEF TypeOK
    <2> QED
      BY <1>5, <2>4 DEF FetchEnd, Goto, TypeOK
  <1>6. ASSUME NEW c \in Caller, Publish(c) PROVE TypeOK'
    <2>1. key[c] \in Key /\ call[c].res \in Outcome /\ Store(key[c], call[c].res)
      BY <1>6 DEF Publish, TypeOK
    <2>2. entries' \in [Key -> Entry]
      BY <2>1, StoreType
    <2> QED
      BY <1>6, <2>2 DEF Publish, Goto, TypeOK
  <1>7. ASSUME NEW c \in Caller, Close(c) PROVE TypeOK'
    <2>1. call[c].res \in Outcome /\ asked[c] \in Nat
      BY DEF TypeOK
    <2>2. call' \in [Caller -> [done : BOOLEAN, res : Outcome]]
      BY <1>7 DEF Close, TypeOK
    <2> QED
      BY <1>7, <2>1, <2>2, ReturnType DEF Close, TypeOK
  <1>8. ASSUME NEW c \in Caller, Wake(c) PROVE TypeOK'
    <2>1. call[joined[c]].res \in Outcome /\ asked[c] \in Nat
      BY <1>8 DEF Wake, NoOrphanWaiter, TypeOK
    <2> QED
      BY <1>8, <2>1, ReturnType DEF Wake, TypeOK
  <1>9. ASSUME NEW c \in Caller, Leave(c) PROVE TypeOK'
    <2>1. [kind |-> "canceled", at |-> now] \in Outcome /\ asked[c] \in Nat
      BY DEF TypeOK, Outcome, Kinds
    <2> QED
      BY <1>9, <2>1, ReturnType DEF Leave, TypeOK
  <1>10. ASSUME NEW c \in Caller, HangUp(c) PROVE TypeOK'
    BY <1>10 DEF HangUp, TypeOK
  <1>11. CASE Tick
    BY <1>11 DEF Tick, TypeOK
  <1>12. CASE UNCHANGED vars
    BY <1>12 DEF vars, TypeOK
  <1> QED
    BY <1>1, <1>2, <1>3, <1>4, <1>5, <1>6, <1>7, <1>8, <1>9, <1>10, <1>11,
       <1>12 DEF Next, Step

-----------------------------------------------------------------------------
(* The invariant is inductive                                              *)

LEMMA IInvInit == Init => IInv
  <1> SUFFICES ASSUME Init PROVE IInv
    OBVIOUS
  <1>1. TypeOK
    BY TypeOKInit
  <1>2. FlightInv /\ NoOrphanWaiter /\ CancelInv /\ DoneInv /\ FreshAnswers
    BY DEF Init, FlightInv, NoOrphanWaiter, CancelInv, NoForeignCancel, DoneInv,
           FreshAnswers, Unknown
  <1>3. TimeInv
    BY DEF Init, TimeInv, AskTimes, FetchTimes, WaitTimes, EntryTimes, NoEntry
  <1>4. BoundedEntries
    <2>1. Present = {}
      BY DEF Init, Present, NoEntry
    <2> QED
      BY <2>1, FS_EmptySet, ConstantsAssumption DEF BoundedEntries
  <1> QED
    BY <1>1, <1>2, <1>3, <1>4 DEF IInv

\* What store may leave under a key: what was there, nothing, or the new entry.
LEMMA StoreEffect ==
  ASSUME TypeOK, NEW k \in Key, NEW o \in Outcome, Store(k, o), NEW x \in Key
  PROVE  \/ entries'[x] = entries[x]
         \/ entries'[x] = NoEntry
         \/ /\ x = k
            /\ TtlOf(o.kind) > 0
            /\ o.kind \in {"info", "notfound"}
            /\ entries'[x] = [kind |-> o.kind, at |-> o.at,
                              expiresAt |-> now + TtlOf(o.kind)]
  <1>1. CASE TtlOf(o.kind) <= 0
    BY <1>1 DEF Store
  <1>2. CASE ~(TtlOf(o.kind) <= 0)
    <2>1. o.kind \in {"info", "notfound"} /\ TtlOf(o.kind) > 0
      BY <1>2, ConstantsAssumption DEF TtlOf, Outcome, Kinds
    <2> QED
      BY <1>2, <2>1 DEF Store
  <1> QED
    BY <1>1, <1>2

\* store disturbs the other keys only by evicting them.
LEMMA StoreElsewhere ==
  ASSUME NEW k \in Key, NEW o, Store(k, o), NEW x \in Key, x # k
  PROVE  entries'[x] = entries[x] \/ entries'[x] = NoEntry
  BY DEF Store

\* A flight is registered and removed by its leader alone, and only its own
\* publication makes its key live.
LEMMA FlightStep ==
  ASSUME IInv, [Next]_vars
  PROVE  FlightInv'
  <1> USE DEF FlightInv, Live
  <1>0. TypeOK /\ FlightInv
    BY DEF IInv
  <1>1. ASSUME NEW c \in Caller, Lookup(c) PROVE FlightInv'
    BY <1>0, <1>1 DEF Lookup, Return, Goto, TypeOK
  <1>2. ASSUME NEW c \in Caller, EnterHit(c) PROVE FlightInv'
    BY <1>0, <1>2 DEF EnterHit, Return, Goto, TypeOK
  <1>3. ASSUME NEW c \in Caller, Join(c) PROVE FlightInv'
    BY <1>0, <1>3 DEF Join, Goto, TypeOK
  <1>4. ASSUME NEW c \in Caller, Lead(c) PROVE FlightInv'
    BY <1>0, <1>4, ConstantsAssumption DEF Lead, Goto, TypeOK
  <1>5. ASSUME NEW c \in Caller, FetchEnd(c) PROVE FlightInv'
    BY <1>0, <1>5 DEF FetchEnd, Goto, TypeOK
  <1>6. ASSUME NEW c \in Caller, Publish(c) PROVE FlightInv'
    <2>1. key[c] \in Key /\ call[c].res \in Outcome /\ Store(key[c], call[c].res)
      BY <1>0, <1>6 DEF Publish, TypeOK
    <2>2. ASSUME NEW x \in Key, x # key[c], ~Live(x) PROVE ~Live(x)'
      <3>1. entries'[x] = entries[x] \/ entries'[x] = NoEntry
        BY <2>1, <2>2, StoreElsewhere
      <3> QED
        BY <1>6, <2>2, <3>1 DEF Publish, NoEntry
    <2>3. inFlight' = [inFlight EXCEPT ![key[c]] = NoCall] /\ key' = key
            /\ pc' = [pc EXCEPT ![c] = "close"] /\ inFlight[key[c]] = c
      BY <1>0, <1>6 DEF Publish, Goto
    <2>4. ASSUME NEW k \in Key, inFlight'[k] # NoCall
          PROVE  /\ pc'[inFlight'[k]] \in {"fetch", "publish"}
                 /\ key'[inFlight'[k]] = k
                 /\ ~Live(k)'
      <3>1. k # key[c] /\ inFlight'[k] = inFlight[k]
        BY <1>0, <2>3, <2>4 DEF TypeOK
      <3>2. pc[inFlight[k]] \in {"fetch", "publish"} /\ key[inFlight[k]] = k
              /\ ~Live(k) /\ inFlight[k] # c
        BY <1>0, <2>4, <3>1
      <3> QED
        BY <1>0, <2>2, <2>3, <3>1, <3>2 DEF TypeOK
    <2>5. ASSUME NEW d \in Caller, pc'[d] \in {"fetch", "publish"}
          PROVE  inFlight'[key'[d]] = d
      BY <1>0, <2>3, <2>5 DEF TypeOK
    <2> QED
      BY <2>4, <2>5
  <1>7. ASSUME NEW c \in Caller, Close(c) PROVE FlightInv'
    BY <1>0, <1>7 DEF Close, Return, Goto, TypeOK
  <1>8. ASSUME NEW c \in Caller, Wake(c) PROVE FlightInv'
    BY <1>0, <1>8 DEF Wake, Return, Goto, TypeOK
  <1>9. ASSUME NEW c \in Caller, Leave(c) PROVE FlightInv'
    BY <1>0, <1>9 DEF Leave, Return, Goto, TypeOK
  <1>10. ASSUME NEW c \in Caller, HangUp(c) PROVE FlightInv'
    BY <1>0, <1>10 DEF HangUp, TypeOK
  <1>11. CASE Tick
    BY <1>0, <1>11 DEF Tick, TypeOK, Entry
  <1>12. CASE UNCHANGED vars
    BY <1>0, <1>12 DEF vars
  <1> QED
    BY <1>1, <1>2, <1>3, <1>4, <1>5, <1>6, <1>7, <1>8, <1>9, <1>10, <1>11,
       <1>12 DEF Next, Step

\* A waiter's leader stays on the way to the close, or has closed; and it has
\* not returned before it closes.
LEMMA WaiterStep ==
  ASSUME IInv, [Next]_vars
  PROVE  NoOrphanWaiter' /\ DoneInv'
  <1> USE DEF NoOrphanWaiter, DoneInv
  <1>0. TypeOK /\ FlightInv /\ NoOrphanWaiter /\ DoneInv
    BY DEF IInv
  <1> DEFINE P == NoOrphanWaiter' /\ DoneInv'
  <1>1. ASSUME NEW c \in Caller, Lookup(c) PROVE P
    <2>1. pc[c] = "idle" /\ call' = call
      BY <1>1 DEF Lookup
    <2>2. CASE Goto(c, "done") /\ joined' = [joined EXCEPT ![c] = NoCall]
      BY <1>0, <2>1, <2>2 DEF Goto, TypeOK
    <2>3. CASE Goto(c, "enter") /\ joined' = joined
      BY <1>0, <2>1, <2>3 DEF Goto, TypeOK
    <2> QED
      BY <1>1, <2>2, <2>3 DEF Lookup, Return
  <1>2. ASSUME NEW c \in Caller, EnterHit(c) PROVE P
    BY <1>0, <1>2 DEF EnterHit, Return, Goto, TypeOK
  <1>3. ASSUME NEW c \in Caller, Join(c) PROVE P
    <2>1. inFlight[key[c]] \in Caller
            /\ pc[inFlight[key[c]]] \in {"fetch", "publish"}
      BY <1>0, <1>3 DEF Join, TypeOK, FlightInv
    <2> QED
      BY <1>0, <1>3, <2>1 DEF Join, Goto, TypeOK
  <1>4. ASSUME NEW c \in Caller, Lead(c) PROVE P
    BY <1>0, <1>4 DEF Lead, Goto, TypeOK
  <1>5. ASSUME NEW c \in Caller, FetchEnd(c) PROVE P
    <2>1. \A d \in Caller : call'[d].done = call[d].done
      BY <1>0, <1>5 DEF FetchEnd, TypeOK
    <2> QED
      BY <1>0, <1>5, <2>1 DEF FetchEnd, Goto, TypeOK
  <1>6. ASSUME NEW c \in Caller, Publish(c) PROVE P
    BY <1>0, <1>6 DEF Publish, Goto, TypeOK
  <1>7. ASSUME NEW c \in Caller, Close(c) PROVE P
    <2>1. \A d \in Caller : call'[d].done = IF d = c THEN TRUE ELSE call[d].done
      BY <1>0, <1>7 DEF Close, TypeOK
    <2> QED
      BY <1>0, <1>7, <2>1 DEF Close, Return, Goto, TypeOK
  <1>8. ASSUME NEW c \in Caller, Wake(c) PROVE P
    BY <1>0, <1>8 DEF Wake, Return, Goto, TypeOK
  <1>9. ASSUME NEW c \in Caller, Leave(c) PROVE P
    BY <1>0, <1>9 DEF Leave, Return, Goto, TypeOK
  <1>10. ASSUME NEW c \in Caller, HangUp(c) PROVE P
    BY <1>0, <1>10 DEF HangUp, TypeOK
  <1>11. CASE Tick
    BY <1>0, <1>11 DEF Tick
  <1>12. CASE UNCHANGED vars
    BY <1>0, <1>12 DEF vars
  <1> QED
    BY <1>1, <1>2, <1>3, <1>4, <1>5, <1>6, <1>7, <1>8, <1>9, <1>10, <1>11,
       <1>12 DEF Next, Step

\* What the panel says is never "canceled", so only a waiter that left got that.
LEMMA CancelStep ==
  ASSUME IInv, [Next]_vars
  PROVE  CancelInv'
  <1> USE DEF CancelInv, NoForeignCancel
  <1>0. TypeOK /\ CancelInv /\ NoOrphanWaiter
    BY DEF IInv
  \* A return of anything but "canceled", or by a caller that hung up, is fine.
  <1>a. ASSUME NEW c \in Caller, NEW o, NEW t, Return(c, o, t),
               o.kind # "canceled" \/ c \in hungUp, hungUp' = hungUp
        PROVE  NoForeignCancel'
    BY <1>0, <1>a DEF Return, TypeOK
  <1>b. ASSUME NEW c \in Caller, Live(key[c])
        PROVE  Stored(key[c]).kind # "canceled"
    BY <1>0, <1>b DEF Stored, Live, TypeOK, Entry
  <1>1. ASSUME NEW c \in Caller, Lookup(c) PROVE CancelInv'
    <2>1. CASE Live(key[c])
      BY <1>0, <1>1, <2>1, <1>a, <1>b DEF Lookup
    <2>2. CASE ~Live(key[c])
      BY <1>0, <1>1, <2>2 DEF Lookup
    <2> QED
      BY <2>1, <2>2
  <1>2. ASSUME NEW c \in Caller, EnterHit(c) PROVE CancelInv'
    BY <1>0, <1>2, <1>a, <1>b DEF EnterHit
  <1>3. ASSUME NEW c \in Caller, Join(c) PROVE CancelInv'
    BY <1>0, <1>3 DEF Join
  <1>4. ASSUME NEW c \in Caller, Lead(c) PROVE CancelInv'
    BY <1>0, <1>4 DEF Lead
  <1>5. ASSUME NEW c \in Caller, FetchEnd(c) PROVE CancelInv'
    <2>1. PICK kind \in FetchOutcomes(c), at \in started[c] .. now :
             call' = [call EXCEPT ![c].res = [kind |-> kind, at |-> at]]
      BY <1>5 DEF FetchEnd
    <2>2. \A d \in Caller : call'[d].res.kind # "canceled"
      BY <1>0, <2>1 DEF FetchOutcomes, TypeOK
    <2> QED
      BY <1>0, <1>5, <2>2 DEF FetchEnd
  <1>6. ASSUME NEW c \in Caller, Publish(c) PROVE CancelInv'
    BY <1>0, <1>6 DEF Publish
  <1>7. ASSUME NEW c \in Caller, Close(c) PROVE CancelInv'
    <2>1. \A d \in Caller : call'[d].res = call[d].res
      BY <1>0, <1>7 DEF Close, TypeOK
    <2>2. NoForeignCancel'
      BY <1>0, <1>7, <1>a DEF Close
    <2> QED
      BY <1>0, <2>1, <2>2
  <1>8. ASSUME NEW c \in Caller, Wake(c) PROVE CancelInv'
    <2>1. call[joined[c]].res.kind # "canceled"
      BY <1>0, <1>8 DEF Wake, NoOrphanWaiter
    <2> QED
      BY <1>0, <1>8, <2>1, <1>a DEF Wake
  <1>9. ASSUME NEW c \in Caller, Leave(c) PROVE CancelInv'
    BY <1>0, <1>9, <1>a DEF Leave
  <1>10. ASSUME NEW c \in Caller, HangUp(c) PROVE CancelInv'
    BY <1>0, <1>10 DEF HangUp
  <1>11. CASE Tick
    BY <1>0, <1>11 DEF Tick
  <1>12. CASE UNCHANGED vars
    BY <1>0, <1>12 DEF vars
  <1> QED
    BY <1>1, <1>2, <1>3, <1>4, <1>5, <1>6, <1>7, <1>8, <1>9, <1>10, <1>11,
       <1>12 DEF Next, Step

\* The bound on an answer's age is never negative.
LEMMA MaxAgeType ==
  ASSUME NEW kind
  PROVE  MaxAge(kind) \in Int /\ MaxAge(kind) >= 0
  <1> DEFINE extra == CASE kind = "info" /\ TTL > 0        -> TTL - 1
                        [] kind = "notfound" /\ NegTTL > 0 -> NegTTL - 1
                        [] OTHER                           -> 0
  <1>1. extra \in Int /\ extra >= 0
    <2>1. CASE kind = "info" /\ TTL > 0
      BY <2>1, ConstantsAssumption
    <2>2. CASE kind = "notfound" /\ NegTTL > 0
      BY <2>2, ConstantsAssumption
    <2>3. CASE ~(kind = "info" /\ TTL > 0) /\ ~(kind = "notfound" /\ NegTTL > 0)
      BY <2>3
    <2> QED
      BY <2>1, <2>2, <2>3
  <1>2. MaxAge(kind) = FetchLimit + extra
    BY DEF MaxAge
  <1> HIDE DEF extra
  <1> QED
    BY <1>1, <1>2, ConstantsAssumption

\* A live entry read now, by a caller that asked no later, is fresh enough.
LEMMA HitAge ==
  ASSUME TypeOK, TimeInv, NEW k \in Key, Live(k), NEW t \in Nat, t <= now
  PROVE  t - entries[k].at <= MaxAge(entries[k].kind)
  <1>1. entries[k].kind \in {"info", "notfound"} /\ entries[k].at \in Nat
          /\ entries[k].expiresAt \in Nat /\ now \in Nat
    BY DEF TypeOK, Entry, Live
  <1>2. TtlOf(entries[k].kind) > 0
          /\ now < entries[k].at + FetchLimit + TtlOf(entries[k].kind)
    <2>1. TtlOf(entries[k].kind) \in Int
      BY <1>1, ConstantsAssumption DEF TtlOf
    <2>2. TtlOf(entries[k].kind) > 0
            /\ entries[k].expiresAt
                  <= entries[k].at + FetchLimit + TtlOf(entries[k].kind)
            /\ now < entries[k].expiresAt
      BY DEF TimeInv, EntryTimes, Live
    <2> QED
      BY <1>1, <2>1, <2>2, ConstantsAssumption
  <1>3. CASE entries[k].kind = "info"
    BY <1>1, <1>2, <1>3, ConstantsAssumption DEF TtlOf, MaxAge
  <1>4. CASE entries[k].kind = "notfound"
    BY <1>1, <1>2, <1>4, ConstantsAssumption DEF TtlOf, MaxAge
  <1> QED
    BY <1>1, <1>3, <1>4

\* A return keeps FreshAnswers if what it returns is fresh enough.
LEMMA ReturnFresh ==
  ASSUME TypeOK, FreshAnswers, NEW c \in Caller, NEW o \in Outcome, NEW t \in Nat,
         Return(c, o, t), t - o.at <= MaxAge(o.kind)
  PROVE  FreshAnswers'
  <1> DEFINE age == IF o.at < t THEN t - o.at ELSE 0
  <1>1. age <= MaxAge(o.kind)
    BY MaxAgeType DEF Outcome
  <1>2. \A d \in Caller : d # c => answer'[d] = answer[d] /\ pc'[d] = pc[d]
    BY DEF Return, Goto, TypeOK
  <1>3. answer'[c].age = age /\ answer'[c].kind = o.kind
    BY DEF Return, TypeOK
  <1> HIDE DEF age
  <1> QED
    BY <1>1, <1>2, <1>3 DEF FreshAnswers, MaxAge

\* Hits, shared results and the leader's own are all fresh enough.
LEMMA FreshStep ==
  ASSUME IInv, [Next]_vars
  PROVE  FreshAnswers'
  <1>0. TypeOK /\ TimeInv /\ NoOrphanWaiter /\ DoneInv /\ FreshAnswers
    BY DEF IInv
  <1>a. ASSUME NEW c \in Caller, answer' = answer, NEW w, w # "done",
               pc' = pc \/ Goto(c, w)
        PROVE  FreshAnswers'
    BY <1>0, <1>a DEF FreshAnswers, MaxAge, Goto, TypeOK
  <1>1. ASSUME NEW c \in Caller, Lookup(c) PROVE FreshAnswers'
    <2>1. CASE Live(key[c])
      <3>1. Stored(key[c]) \in Outcome /\ now \in Nat /\ key[c] \in Key
        BY <1>0, <2>1, StoredType DEF Live, TypeOK
      <3>2. now - entries[key[c]].at <= MaxAge(entries[key[c]].kind)
        BY <1>0, <2>1, <3>1, HitAge
      <3>3. Return(c, Stored(key[c]), now)
        BY <1>1, <2>1 DEF Lookup
      <3> QED
        BY <1>0, <3>1, <3>2, <3>3, ReturnFresh DEF Stored
    <2>2. CASE ~Live(key[c])
      BY <1>1, <2>2, <1>a DEF Lookup
    <2> QED
      BY <2>1, <2>2
  <1>2. ASSUME NEW c \in Caller, EnterHit(c) PROVE FreshAnswers'
    <2>1. Stored(key[c]) \in Outcome /\ asked[c] \in Nat /\ key[c] \in Key
            /\ asked[c] <= now
      BY <1>0, <1>2, StoredType
         DEF EnterHit, Live, TypeOK, TimeInv, AskTimes
    <2>2. asked[c] - entries[key[c]].at <= MaxAge(entries[key[c]].kind)
      BY <1>0, <1>2, <2>1, HitAge DEF EnterHit
    <2> QED
      BY <1>0, <1>2, <2>1, <2>2, ReturnFresh DEF EnterHit, Stored
  <1>3. ASSUME NEW c \in Caller, Join(c) PROVE FreshAnswers'
    BY <1>3, <1>a DEF Join
  <1>4. ASSUME NEW c \in Caller, Lead(c) PROVE FreshAnswers'
    BY <1>4, <1>a DEF Lead
  <1>5. ASSUME NEW c \in Caller, FetchEnd(c) PROVE FreshAnswers'
    BY <1>5, <1>a DEF FetchEnd
  <1>6. ASSUME NEW c \in Caller, Publish(c) PROVE FreshAnswers'
    BY <1>6, <1>a DEF Publish
  <1>7. ASSUME NEW c \in Caller, Close(c) PROVE FreshAnswers'
    <2>1. call[c].res \in Outcome /\ asked[c] \in Nat /\ started[c] \in Nat
            /\ call[c].res.at \in Nat
      BY <1>0 DEF TypeOK, Outcome
    <2>2. asked[c] <= started[c] /\ started[c] <= call[c].res.at
      BY <1>0, <1>7 DEF Close, TimeInv, AskTimes, FetchTimes
    <2>3. asked[c] - call[c].res.at <= MaxAge(call[c].res.kind)
      BY <2>1, <2>2, MaxAgeType
    <2> QED
      BY <1>0, <1>7, <2>1, <2>3, ReturnFresh DEF Close
  <1>8. ASSUME NEW c \in Caller, Wake(c) PROVE FreshAnswers'
    <2>1. joined[c] \in Caller /\ call[joined[c]].done /\ pc[joined[c]] = "done"
            /\ pc[c] = "wait"
      BY <1>0, <1>8 DEF Wake, NoOrphanWaiter, DoneInv
    <2>2. call[joined[c]].res \in Outcome /\ asked[c] \in Nat
            /\ call[joined[c]].res.at \in Nat
      BY <1>0, <2>1 DEF TypeOK, Outcome
    <2>3. asked[c] <= call[joined[c]].res.at + FetchLimit
      BY <1>0, <2>1 DEF TimeInv, WaitTimes
    <2>4. MaxAge(call[joined[c]].res.kind) >= FetchLimit
            /\ MaxAge(call[joined[c]].res.kind) \in Int
      BY MaxAgeType, ConstantsAssumption DEF MaxAge
    <2>5. asked[c] - call[joined[c]].res.at <= MaxAge(call[joined[c]].res.kind)
      BY <2>2, <2>3, <2>4, ConstantsAssumption
    <2> QED
      BY <1>0, <1>8, <2>2, <2>5, ReturnFresh DEF Wake
  <1>9. ASSUME NEW c \in Caller, Leave(c) PROVE FreshAnswers'
    <2> DEFINE o == [kind |-> "canceled", at |-> now]
    <2>1. o \in Outcome /\ asked[c] \in Nat /\ now \in Nat
      BY <1>0 DEF TypeOK, Outcome, Kinds
    <2>2. asked[c] <= now
      BY <1>0, <1>9 DEF Leave, TimeInv, AskTimes
    <2>3. asked[c] - o.at <= MaxAge(o.kind)
      BY <2>1, <2>2, MaxAgeType
    <2> QED
      BY <1>0, <1>9, <2>1, <2>3, ReturnFresh DEF Leave
  <1>10. ASSUME NEW c \in Caller, HangUp(c) PROVE FreshAnswers'
    BY <1>10, <1>a DEF HangUp
  <1>11. CASE Tick
    BY <1>0, <1>11 DEF Tick, FreshAnswers, MaxAge
  <1>12. CASE UNCHANGED vars
    BY <1>0, <1>12 DEF vars, FreshAnswers, MaxAge
  <1> QED
    BY <1>1, <1>2, <1>3, <1>4, <1>5, <1>6, <1>7, <1>8, <1>9, <1>10, <1>11,
       <1>12 DEF Next, Step

\* Time passes a fetch only up to its limit, which every bound above rests on.
LEMMA TimeStep ==
  ASSUME IInv, [Next]_vars
  PROVE  TimeInv'
  <1> USE DEF AskTimes, FetchTimes, WaitTimes
  <1>0. /\ TypeOK /\ TimeInv /\ NoOrphanWaiter /\ DoneInv /\ FlightInv
        /\ FetchLimit \in Nat
    BY ConstantsAssumption DEF IInv
  <1> DEFINE Callers == \A c \in Caller : AskTimes(c) /\ FetchTimes(c) /\ WaitTimes(c)
  <1>a. ASSUME NEW k \in Key, entries'[k] = entries[k] PROVE EntryTimes(k)'
    BY <1>0, <1>a DEF TimeInv, EntryTimes, TtlOf
  <1>b. ASSUME NEW c \in Caller, ~(call[c].done), pc[c] \in {"idle", "enter", "wait"},
               Goto(c, "done"), now' = now, call' = call, NEW o, NEW t, Return(c, o, t)
        PROVE  Callers'
    BY <1>0, <1>b DEF TimeInv, NoOrphanWaiter, Return, Goto, TypeOK
  <1>1. ASSUME NEW c \in Caller, Lookup(c) PROVE TimeInv'
    <2>1. CASE Live(key[c])
      BY <1>0, <1>1, <2>1, <1>a, <1>b DEF Lookup, Return, TimeInv, DoneInv
    <2>2. CASE ~Live(key[c])
      <3>1. Callers'
        BY <1>0, <1>1, <2>2
        DEF Lookup, Goto, TimeInv, NoOrphanWaiter, DoneInv, TypeOK
      <3> QED
        BY <1>0, <1>1, <3>1, <1>a DEF Lookup, TimeInv
    <2> QED
      BY <2>1, <2>2
  <1>2. ASSUME NEW c \in Caller, EnterHit(c) PROVE TimeInv'
    BY <1>0, <1>2, <1>a, <1>b DEF EnterHit, Return, TimeInv, DoneInv
  <1>3. ASSUME NEW c \in Caller, Join(c) PROVE TimeInv'
    <2> DEFINE d == inFlight[key[c]]
    <2>1. d \in Caller /\ d # c /\ pc[d] \in {"fetch", "publish"}
      BY <1>0, <1>3 DEF Join, TypeOK, FlightInv
    <2>2. asked[c] <= now /\ now <= started[d] + FetchLimit
            /\ (pc[d] = "publish" => started[d] <= call[d].res.at)
      BY <1>0, <1>3, <2>1 DEF Join, TimeInv
    <2>3. asked[c] <= started[d] + FetchLimit
            /\ (pc[d] = "publish" => asked[c] <= call[d].res.at + FetchLimit)
      BY <1>0, <2>1, <2>2 DEF TypeOK, Outcome
    <2>4. WaitTimes(c)'
      BY <1>0, <1>3, <2>1, <2>3 DEF Join, Goto, TypeOK
    <2>5. \A e \in Caller : AskTimes(e)' /\ FetchTimes(e)'
      BY <1>0, <1>3 DEF Join, Goto, TimeInv, TypeOK
    <2>6. \A e \in Caller \ {c} : WaitTimes(e)'
      BY <1>0, <1>3 DEF Join, Goto, TimeInv, NoOrphanWaiter, DoneInv, TypeOK
    <2> QED
      BY <1>0, <1>3, <2>4, <2>5, <2>6, <1>a DEF Join, TimeInv
  <1>4. ASSUME NEW c \in Caller, Lead(c) PROVE TimeInv'
    <2>1. \A e \in Caller : AskTimes(e)' /\ FetchTimes(e)'
      BY <1>0, <1>4 DEF Lead, Goto, TimeInv, TypeOK
    <2>2. \A e \in Caller : WaitTimes(e)'
      BY <1>0, <1>4 DEF Lead, Goto, TimeInv, NoOrphanWaiter, DoneInv, TypeOK
    <2> QED
      BY <1>0, <1>4, <2>1, <2>2, <1>a DEF Lead, TimeInv
  <1>5. ASSUME NEW c \in Caller, FetchEnd(c) PROVE TimeInv'
    <2>1. PICK kind \in FetchOutcomes(c), at \in started[c] .. now :
             call' = [call EXCEPT ![c].res = [kind |-> kind, at |-> at]]
      BY <1>5 DEF FetchEnd
    <2>2. at \in Nat /\ started[c] <= at /\ started[c] \in Nat
      BY <1>0, <2>1 DEF TypeOK
    <2>3. /\ call'[c].res.at = at /\ call'[c].done = call[c].done
          /\ \A e \in Caller : e # c => call'[e] = call[e]
      BY <1>0, <2>1 DEF TypeOK
    <2>4. /\ pc' = [pc EXCEPT ![c] = "publish"] /\ pc[c] = "fetch"
          /\ UNCHANGED <<now, entries, started, joined, asked>>
      BY <1>5 DEF FetchEnd, Goto
    <2>5. \A e \in Caller : AskTimes(e)' /\ FetchTimes(e)'
      BY <1>0, <2>2, <2>3, <2>4 DEF TimeInv, TypeOK
    <2>6. ASSUME NEW e \in Caller, pc[e] = "wait", joined[e] = c
          PROVE  asked[e] <= at + FetchLimit
      <3>1. asked[e] <= started[c] + FetchLimit
        BY <1>0, <2>4, <2>6 DEF TimeInv, DoneInv
      <3> QED
        BY <1>0, <2>2, <3>1 DEF TypeOK
    <2>7. ASSUME NEW e \in Caller PROVE WaitTimes(e)'
      <3>1. CASE joined[e] = c
        BY <1>0, <2>3, <2>4, <2>6, <3>1 DEF TypeOK
      <3>2. CASE joined[e] # c
        BY <1>0, <2>3, <2>4, <3>2 DEF TypeOK, TimeInv, NoOrphanWaiter
      <3> QED
        BY <3>1, <3>2
    <2> QED
      BY <2>4, <2>5, <2>7, <1>a DEF TimeInv
  <1>6. ASSUME NEW c \in Caller, Publish(c) PROVE TimeInv'
    <2>1. key[c] \in Key /\ call[c].res \in Outcome /\ Store(key[c], call[c].res)
            /\ call[c].res.at \in Nat /\ now \in Nat
      BY <1>0, <1>6 DEF Publish, TypeOK, Outcome
    <2>2. now <= call[c].res.at + FetchLimit
      <3>1. now <= started[c] + FetchLimit /\ started[c] <= call[c].res.at
              /\ started[c] \in Nat
        BY <1>0, <1>6 DEF Publish, TimeInv, TypeOK
      <3> QED
        BY <1>0, <2>1, <3>1
    <2>3. ASSUME NEW x \in Key PROVE EntryTimes(x)'
      <3>1. CASE x # key[c]
        <4>1. entries'[x] = entries[x] \/ entries'[x] = NoEntry
          BY <2>1, <3>1, StoreElsewhere
        <4> QED
          BY <1>a, <4>1 DEF EntryTimes, NoEntry
      <3>2. CASE x = key[c]
        <4>1. CASE TtlOf(call[c].res.kind) <= 0
          BY <2>1, <4>1, <1>a DEF Store
        <4>2. CASE ~(TtlOf(call[c].res.kind) <= 0)
          <5> DEFINE ttl == TtlOf(call[c].res.kind)
          <5>1. ttl \in Int
            BY ConstantsAssumption DEF TtlOf
          <5>2. entries'[x] = [kind |-> call[c].res.kind, at |-> call[c].res.at,
                               expiresAt |-> now + ttl]
            BY <2>1, <3>2, <4>2 DEF Store
          <5>3. TtlOf(entries'[x].kind) = ttl
            BY <5>2 DEF TtlOf
          <5>4. ttl > 0 /\ now + ttl <= call[c].res.at + FetchLimit + ttl
            BY <1>0, <2>1, <2>2, <4>2, <5>1
          <5>5. TtlOf(entries[x].kind)' = TtlOf(entries'[x].kind)
            BY DEF TtlOf
          <5> HIDE DEF ttl
          <5> QED
            BY <5>2, <5>3, <5>4, <5>5 DEF EntryTimes
        <4> QED
          BY <4>1, <4>2
      <3> QED
        BY <3>1, <3>2
    <2>4. \A e \in Caller : AskTimes(e)' /\ FetchTimes(e)'
      BY <1>0, <1>6 DEF Publish, Goto, TimeInv, TypeOK
    <2>5. \A e \in Caller : WaitTimes(e)'
      BY <1>0, <1>6 DEF Publish, Goto, TimeInv, NoOrphanWaiter, TypeOK
    <2> QED
      BY <2>3, <2>4, <2>5 DEF TimeInv
  <1>7. ASSUME NEW c \in Caller, Close(c) PROVE TimeInv'
    <2>1. \A e \in Caller : /\ call'[e].res = call[e].res
                            /\ call'[e].done = IF e = c THEN TRUE
                                               ELSE call[e].done
      BY <1>0, <1>7 DEF Close, TypeOK
    <2>2. /\ pc[c] = "close" /\ pc' = [pc EXCEPT ![c] = "done"] /\ now' = now
          /\ asked' = [asked EXCEPT ![c] = 0] /\ started' = [started EXCEPT ![c] = 0]
          /\ joined' = [joined EXCEPT ![c] = NoCall] /\ entries' = entries
      BY <1>7 DEF Close, Return, Goto
    <2>3. \A e \in Caller : AskTimes(e)' /\ FetchTimes(e)'
      BY <1>0, <2>1, <2>2 DEF TimeInv, TypeOK
    <2>4. \A e \in Caller : WaitTimes(e)'
      BY <1>0, <2>1, <2>2 DEF TimeInv, NoOrphanWaiter, TypeOK
    <2> QED
      BY <2>2, <2>3, <2>4, <1>a DEF TimeInv
  <1>8. ASSUME NEW c \in Caller, Wake(c) PROVE TimeInv'
    BY <1>0, <1>8, <1>a, <1>b DEF Wake, Return, TimeInv, DoneInv
  <1>9. ASSUME NEW c \in Caller, Leave(c) PROVE TimeInv'
    BY <1>0, <1>9, <1>a, <1>b DEF Leave, Return, TimeInv, DoneInv
  <1>10. ASSUME NEW c \in Caller, HangUp(c) PROVE TimeInv'
    BY <1>0, <1>10, <1>a DEF HangUp, TimeInv
  <1>11. CASE Tick
    <2>1. \A e \in Caller : AskTimes(e)' /\ FetchTimes(e)'
      BY <1>0, <1>11 DEF Tick, TimeInv, TypeOK
    <2> QED
      BY <1>0, <1>11, <2>1, <1>a DEF Tick, TimeInv
  <1>12. CASE UNCHANGED vars
    BY <1>0, <1>12, <1>a DEF vars, TimeInv
  <1> QED
    BY <1>1, <1>2, <1>3, <1>4, <1>5, <1>6, <1>7, <1>8, <1>9, <1>10, <1>11,
       <1>12 DEF Next, Step

-----------------------------------------------------------------------------
(* The bound, and what eviction costs                                      *)

\* Whatever survives an eviction leaves room for one more.
LEMMA SurvivorsFit ==
  ASSUME NEW keep \in SUBSET Key, Survives(keep), MaxEntries > 0
  PROVE  IsFiniteSet(keep) /\ Cardinality(keep) <= MaxEntries - 1
  <1>1. IsFiniteSet(Key) /\ MaxEntries \in Int
    BY ConstantsAssumption
  <1>2. IsFiniteSet(keep)
    BY <1>1, FS_Subset
  <1>3. Cardinality(keep) \in Nat
    BY <1>2, FS_CardinalityType
  <1>4. CASE Cardinality(Present) < MaxEntries
    BY <1>1, <1>2, <1>3, <1>4 DEF Survives
  <1>5. CASE ~(Cardinality(Present) < MaxEntries)
    BY <1>1, <1>2, <1>3, <1>5 DEF Survives
  <1> QED
    BY <1>4, <1>5

\* CACHE_MAX_ENTRIES is kept by the one action that adds an entry.
LEMMA BoundStep ==
  ASSUME IInv, [Next]_vars
  PROVE  BoundedEntries'
  <1>0. TypeOK /\ BoundedEntries
    BY DEF IInv
  <1>1. CASE entries' = entries
    BY <1>0, <1>1 DEF BoundedEntries, Present
  <1>2. ASSUME NEW c \in Caller, Publish(c) PROVE BoundedEntries'
    <2> DEFINE o == call[c].res
    <2>1. Store(key[c], o) /\ key[c] \in Key
      BY <1>0, <1>2 DEF Publish, TypeOK
    <2>2. CASE TtlOf(o.kind) <= 0
      BY <2>1, <2>2, <1>1 DEF Store
    <2>3. CASE ~(TtlOf(o.kind) <= 0)
      <3>1. PICK keep \in SUBSET Key :
               /\ Survives(keep)
               /\ entries' = [x \in Key |->
                       IF x = key[c] THEN [kind |-> o.kind, at |-> o.at,
                                           expiresAt |-> now + TtlOf(o.kind)]
                       ELSE IF x \in keep THEN entries[x] ELSE NoEntry]
        BY <2>1, <2>3 DEF Store
      <3>2. Present' \subseteq keep \cup {key[c]}
        <4>1. ASSUME NEW x \in Key, x # key[c], x \notin keep
              PROVE  entries'[x].kind = "none"
          BY <3>1, <4>1 DEF NoEntry
        <4> QED
          BY <4>1 DEF Present
      <3> SUFFICES ASSUME MaxEntries > 0
                   PROVE  Cardinality(Present') <= MaxEntries
        BY DEF BoundedEntries, Present
      <3>3. IsFiniteSet(keep) /\ Cardinality(keep) <= MaxEntries - 1
        BY <3>1, SurvivorsFit
      <3>4. /\ IsFiniteSet(keep \cup {key[c]})
            /\ Cardinality(keep \cup {key[c]}) <= Cardinality(keep) + 1
            /\ Cardinality(keep \cup {key[c]}) \in Nat /\ Cardinality(keep) \in Nat
        <4>1. Cardinality(keep) \in Nat
          BY <3>3, FS_CardinalityType
        <4>2. /\ IsFiniteSet(keep \cup {key[c]})
              /\ Cardinality(keep \cup {key[c]}) =
                    IF key[c] \in keep THEN Cardinality(keep)
                    ELSE Cardinality(keep) + 1
          BY <3>3, FS_AddElement
        <4> QED
          BY <4>1, <4>2
      <3>5. Cardinality(Present') <= Cardinality(keep \cup {key[c]})
              /\ Cardinality(Present') \in Nat
        BY <3>2, <3>4, FS_Subset, FS_CardinalityType
      <3> QED
        BY <3>3, <3>4, <3>5, ConstantsAssumption
    <2> QED
      BY <2>2, <2>3
  <1> QED
    BY <1>1, <1>2
    DEF Next, Step, Lookup, EnterHit, Join, Lead, FetchEnd, Close, Wake, Leave,
        HangUp, Tick, vars

LEMMA IInvStep == IInv /\ [Next]_vars => IInv'
  <1> SUFFICES ASSUME IInv, [Next]_vars PROVE IInv'
    OBVIOUS
  <1>1. TypeOK'
    BY TypeOKStep DEF IInv
  <1> QED
    BY <1>1, FlightStep, WaiterStep, CancelStep, TimeStep, FreshStep, BoundStep
    DEF IInv

\* The invariant holds in every reachable state.
THEOREM Inductive == Spec => []IInv
  BY IInvInit, IInvStep, PTL DEF Spec

-----------------------------------------------------------------------------
(* The properties, for every value of the constants                        *)

\* TypeOK: the variables of the cache and its callers keep their types.
THEOREM TypeCorrect == Spec => []TypeOK
  <1>1. IInv => TypeOK
    BY DEF IInv
  <1> QED
    BY <1>1, Inductive, PTL

\* SingleFlight: the panel is never asked twice at once about the same user.
THEOREM OneFlight == Spec => []SingleFlight
  <1>1. IInv => SingleFlight
    BY DEF IInv, FlightInv, SingleFlight
  <1> QED
    BY <1>1, Inductive, PTL

\* FlightOnlyForStale: a key whose call is in flight has no live entry.
THEOREM NoNeedlessFlight == Spec => []FlightOnlyForStale
  <1>1. IInv => FlightOnlyForStale
    BY DEF IInv, FlightInv, FlightOnlyForStale
  <1> QED
    BY <1>1, Inductive, PTL

\* NoForeignCancel: only a caller whose own client hung up is canceled.
THEOREM Isolation == Spec => []NoForeignCancel
  <1>1. IInv => NoForeignCancel
    BY DEF IInv, CancelInv
  <1> QED
    BY <1>1, Inductive, PTL

\* NoOrphanWaiter: whoever waits has a leader still on its way, or a done call.
THEOREM WaitersAreServed == Spec => []NoOrphanWaiter
  <1>1. IInv => NoOrphanWaiter
    BY DEF IInv
  <1> QED
    BY <1>1, Inductive, PTL

\* FreshAnswers: no answer is older than a fetch and its own time to live.
THEOREM Freshness == Spec => []FreshAnswers
  <1>1. IInv => FreshAnswers
    BY DEF IInv
  <1> QED
    BY <1>1, Inductive, PTL

\* BoundedEntries: CACHE_MAX_ENTRIES holds at every moment.
THEOREM Bounded == Spec => []BoundedEntries
  <1>1. IInv => BoundedEntries
    BY DEF IInv
  <1> QED
    BY <1>1, Inductive, PTL

\* EvictsLiveOnlyWhenFull: a live entry goes only from a cache full of them.
THEOREM EvictionOrder == Spec => EvictsLiveOnlyWhenFull
  <1> DEFINE A == \A k \in Key : Live(k) /\ entries'[k].kind = "none"
                      => MaxEntries > 0 /\ Cardinality(LiveKeys) >= MaxEntries
  <1>1. ASSUME TypeOK, [Next]_vars PROVE A
    <2>1. CASE entries' = entries
      BY <2>1 DEF Live
    <2>2. ASSUME NEW c \in Caller, Publish(c), NEW k \in Key, Live(k),
                 entries'[k].kind = "none"
          PROVE  MaxEntries > 0 /\ Cardinality(LiveKeys) >= MaxEntries
      <3> DEFINE o == call[c].res
      <3>1. Store(key[c], o) /\ o \in Outcome /\ key[c] \in Key
        BY <1>1, <2>2 DEF Publish, TypeOK
      <3>2. ~(TtlOf(o.kind) <= 0)
        BY <2>2, <3>1 DEF Store, Live
      <3>3. o.kind \in {"info", "notfound"}
        BY <3>1, <3>2, ConstantsAssumption DEF TtlOf, Outcome, Kinds
      <3>4. PICK keep \in SUBSET Key :
               /\ Survives(keep)
               /\ entries' = [x \in Key |->
                       IF x = key[c] THEN [kind |-> o.kind, at |-> o.at,
                                           expiresAt |-> now + TtlOf(o.kind)]
                       ELSE IF x \in keep THEN entries[x] ELSE NoEntry]
        BY <3>1, <3>2 DEF Store
      <3>5. k \notin keep
        BY <2>2, <3>3, <3>4 DEF Live
      <3>6. k \in Present /\ k \in LiveKeys
        BY <2>2 DEF Present, LiveKeys, Live
      <3>7. ~(MaxEntries <= 0) /\ ~(Cardinality(LiveKeys) < MaxEntries)
        BY <3>4, <3>5, <3>6 DEF Survives
      <3>8. Cardinality(LiveKeys) \in Nat
        BY ConstantsAssumption, FS_Subset, FS_CardinalityType DEF LiveKeys
      <3> QED
        BY <3>7, <3>8, ConstantsAssumption
    <2> QED
      BY <1>1, <2>1, <2>2
      DEF Next, Step, Lookup, EnterHit, Join, Lead, FetchEnd, Close, Wake, Leave,
          HangUp, Tick, vars
  <1>2. [][A]_vars <=> EvictsLiveOnlyWhenFull
    BY PTL DEF EvictsLiveOnlyWhenFull
  <1> QED
    BY <1>1, <1>2, TypeCorrect, PTL DEF Spec

=============================================================================

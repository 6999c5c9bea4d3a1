--------------------------- MODULE SubCache_proofs ---------------------------
(***************************************************************************)
(* Proofs about SubCache, for every set of writers, every finite set of    *)
(* keys and every limit: its types, that it implements FallbackStore, that *)
(* room is made at the expense of the oldest and no more than is needed,   *)
(* that the running total is right and that it stays within the budget.    *)
(*                                                                         *)
(* The total is a fold over a set, so the last three rest on what a fold   *)
(* with + does: that is shown first, by induction on the size of the set.  *)
(***************************************************************************)
EXTENDS SubCache, SetLemmas

-----------------------------------------------------------------------------
(* What is held and what is under way                                      *)

\* TypeOK without the running total.
Held ==
    /\ now \in Nat
    /\ entries \in [Key -> Entry \cup {NoEntry}]
    /\ putting \in [Writer -> {Idle} \cup [busy : {TRUE}, key : Key,
                                           entry : Entry]]

\* A writer that is not idle carries an entry to a key.
LEMMA Carried ==
  ASSUME Held, NEW w \in Writer, putting[w] # Idle
  PROVE  putting[w].key \in Key /\ putting[w].entry \in Entry
  BY DEF Held

\* An absent entry is nobody's response.
LEMMA NoEntryIsNone == NoEntry \notin Entry
  BY ConstantsAssumption DEF NoEntry, Entry

\* Whatever is evicted, a Put leaves entries under its keys.
LEMMA FilledType ==
  ASSUME Held, NEW w \in Writer, putting[w] # Idle
  PROVE  Filled(w) \in [Key -> Entry \cup {NoEntry}]
  BY Carried DEF Filled, Held

\* The steps of the cache, with what the proofs need of each.
LEMMA Steps ==
  ASSUME [Next]_vars
  PROVE  \/ \E w \in Writer, k \in Key, from \in Origin,
               body \in BodySizes, header \in HeaderSizes :
               Stamp(w, k, from, body, header) /\ UNCHANGED <<now, entries, bytes>>
         \/ \E w \in Writer : Insert(w)
         \/ \E k \in Key : Get(k) /\ UNCHANGED <<now, putting>>
         \/ now' \in {now, now + 1} /\ UNCHANGED <<entries, bytes, putting>>
  BY DEF Next, BeginPut, EndPut, LookUp, Tick, vars

LEMMA HeldStep == Held /\ [Next]_vars => Held'
  <1> SUFFICES ASSUME Held, [Next]_vars PROVE Held'
    OBVIOUS
  <1>1. ASSUME NEW w \in Writer, NEW k \in Key, NEW from \in Origin,
               NEW body \in BodySizes, NEW header \in HeaderSizes,
               Stamp(w, k, from, body, header), UNCHANGED <<now, entries, bytes>>
        PROVE  Held'
    <2>1. [from |-> from, body |-> body, header |-> header, storedAt |-> now]
             \in Entry
      BY SizesAssumption DEF Held, Entry
    <2> QED
      BY <1>1, <2>1 DEF Stamp, Put, Held
  <1>2. ASSUME NEW w \in Writer, Insert(w) PROVE Held'
    <2>1. PICK gone \in SUBSET Occupied(Filled(w)) :
             entries' = [k \in Key |-> IF k \in gone THEN NoEntry
                                       ELSE Filled(w)[k]]
      BY <1>2 DEF Insert
    <2>2. entries' \in [Key -> Entry \cup {NoEntry}]
      BY <1>2, <2>1, FilledType DEF Insert
    <2> QED
      BY <1>2, <2>2 DEF Insert, Held
  <1>3. ASSUME NEW k \in Key, Get(k), UNCHANGED <<now, putting>> PROVE Held'
    BY <1>3 DEF Get, Held
  <1>4. CASE now' \in {now, now + 1} /\ UNCHANGED <<entries, bytes, putting>>
    <2>1. now' \in Nat
      BY <1>4 DEF Held
    <2> QED
      BY <1>4, <2>1 DEF Held
  <1> QED
    BY <1>1, <1>2, <1>3, <1>4, Steps

\* Held: entries and offers keep their types in every reachable state.
THEOREM HeldAlways == Spec => []Held
  <1>1. Init => Held
    BY DEF Init, Held
  <1> QED
    BY <1>1, HeldStep, PTL DEF Spec

-----------------------------------------------------------------------------
(* The cache is a map that may forget                                      *)

LEMMA RefinesInit == Init => Store!Init
  BY DEF Init, Store!Init

\* Putting an entry and evicting others is taking an offer and forgetting.
LEMMA InsertTakes ==
  ASSUME Held, NEW w \in Writer, Insert(w)
  PROVE  \E S \in SUBSET Key : Store!Take(w, S)
  <1>1. PICK gone \in SUBSET Occupied(Filled(w)) :
           entries' = [k \in Key |-> IF k \in gone THEN NoEntry
                                     ELSE Filled(w)[k]]
    BY DEF Insert
  <1>2. gone \in SUBSET Key
    BY DEF Occupied
  <1>3. entries' = Store!Without(Filled(w), gone)
    BY <1>1 DEF Store!Without
  <1> QED
    BY <1>2, <1>3 DEF Insert, Store!Take, Filled

\* An expired entry found on lookup is forgotten; nothing else changes.
LEMMA GetForgets ==
  ASSUME Held, NEW k \in Key, Get(k), UNCHANGED putting
  PROVE  (\E S \in SUBSET Key : Store!Forget(S)) \/ UNCHANGED Store!vars
  <1>1. CASE Fresh(k)
    BY <1>1 DEF Get, Store!vars
  <1>2. CASE ~Fresh(k)
    <2>1. entries' = Store!Without(entries, {k})
      BY <1>2 DEF Get, Held, Store!Without
    <2> QED
      BY <2>1 DEF Store!Forget
  <1> QED
    BY <1>1, <1>2

\* A body over the limit never becomes an offer; any other becomes one.
LEMMA StampOffers ==
  ASSUME Held, NEW w \in Writer, NEW k \in Key, NEW from \in Origin,
         NEW body \in BodySizes, NEW header \in HeaderSizes,
         Stamp(w, k, from, body, header), UNCHANGED entries
  PROVE  Store!MakeOffer(w) \/ UNCHANGED Store!vars
  <1>1. CASE body > MaxBody
    BY <1>1 DEF Stamp, Store!vars
  <1>2. CASE ~(body > MaxBody)
    <2> DEFINE e == [from |-> from, body |-> body, header |-> header,
                     storedAt |-> now]
    <2>1. e \in Entry
      BY SizesAssumption DEF Held, Entry
    <2>2. putting' = [putting EXCEPT ![w] = Put(k, e)] /\ putting[w] = Idle
      BY <1>2 DEF Stamp
    <2>3. putting'[w] = Put(k, e)
      BY <2>2 DEF Held
    <2>4. Put(k, e) \in Store!Offer
      BY <2>1 DEF Put, Store!Offer
    <2> QED
      BY <2>2, <2>3, <2>4 DEF Store!MakeOffer
  <1> QED
    BY <1>1, <1>2

LEMMA RefinesStep == Held /\ [Next]_vars => [Store!Next]_(Store!vars)
  <1> SUFFICES ASSUME Held, [Next]_vars
               PROVE  Store!Next \/ UNCHANGED Store!vars
    OBVIOUS
  <1>1. ASSUME NEW w \in Writer, NEW k \in Key, NEW from \in Origin,
               NEW body \in BodySizes, NEW header \in HeaderSizes,
               Stamp(w, k, from, body, header), UNCHANGED <<now, entries, bytes>>
        PROVE  Store!Next \/ UNCHANGED Store!vars
    BY <1>1, StampOffers DEF Store!Next
  <1>2. ASSUME NEW w \in Writer, Insert(w) PROVE Store!Next
    BY <1>2, InsertTakes DEF Store!Next
  <1>3. ASSUME NEW k \in Key, Get(k), UNCHANGED <<now, putting>>
        PROVE  Store!Next \/ UNCHANGED Store!vars
    BY <1>3, GetForgets DEF Store!Next
  <1>4. CASE now' \in {now, now + 1} /\ UNCHANGED <<entries, bytes, putting>>
    BY <1>4 DEF Store!vars
  <1> QED
    BY <1>1, <1>2, <1>3, <1>4, Steps

\* ImplementsStore: a key only ever holds the response last put under it, or
\* nothing, whatever is evicted, expires or is turned away.
THEOREM Refines == Spec => ImplementsStore
  BY RefinesInit, RefinesStep, HeldAlways, PTL
  DEF Spec, ImplementsStore, Store!Spec

-----------------------------------------------------------------------------
(* The oldest go first                                                     *)

\* Only the rest of a Put makes its writer idle again.
LEMMA EndOfPut ==
  ASSUME Held, [Next]_vars, NEW w \in Writer, Ends(w)
  PROVE  Insert(w)
  <1>1. ASSUME NEW x \in Writer, Insert(x) PROVE x = w
    BY <1>1 DEF Insert, Ends, Held
  <1>2. ASSUME NEW x \in Writer, NEW y \in Key, NEW from \in Origin,
               NEW body \in BodySizes, NEW header \in HeaderSizes,
               Stamp(x, y, from, body, header)
        PROVE  FALSE
    BY <1>2 DEF Stamp, Put, Idle, Ends, Held
  <1>3. putting' # putting
    BY DEF Ends
  <1> QED
    BY <1>1, <1>2, <1>3, Steps

\* An entry lost to a Put, beside the one it replaces, was evicted.
LEMMA LostIsGone ==
  ASSUME Held, NEW w \in Writer, putting[w] # Idle,
         NEW gone \in SUBSET Occupied(Filled(w)),
         entries' = [k \in Key |-> IF k \in gone THEN NoEntry ELSE Filled(w)[k]]
  PROVE  /\ LostTo(w) = gone
         /\ Occupied(entries') = Occupied(Filled(w)) \ gone
         /\ \A k \in Occupied(entries') : entries'[k] = Filled(w)[k]
  BY DEF LostTo, Occupied

\* Among what is not expired, evictLocked removes nothing younger than what it
\* keeps.
LEMMA EvictedAreOldest ==
  ASSUME NEW f, NEW total, NEW gone, Evicted(f, total, gone),
         NEW k \in gone, ~Expired(f[k]), NEW j \in Occupied(f) \ gone
  PROVE  f[k].storedAt <= f[j].storedAt
  <1>1. MaxBytes > 0
    BY ConstantsAssumption DEF Evicted
  <1> DEFINE old == {x \in Occupied(f) : Expired(f[x])}
  <1>2. PICK first \in SUBSET old :
           first \subseteq gone /\ OldestOf(f, Occupied(f) \ first, gone \ first)
    BY <1>1, ConstantsAssumption DEF Evicted
  <1>3. k \in gone \ first
    BY <1>2
  <1>4. j \in (Occupied(f) \ first) \ (gone \ first)
    BY <1>2
  <1> QED
    BY <1>2, <1>3, <1>4 DEF OldestOf

\* EvictsOldestFirst: whatever survives a Put was stored no earlier than any
\* live entry that did not.
THEOREM OldestGoFirst == Spec => EvictsOldestFirst
  <1> DEFINE A == \A w \in Writer : Ends(w) =>
                    \A k \in LostTo(w) : ~Expired(Filled(w)[k]) =>
                       \A j \in Occupied(entries') :
                          entries'[j].storedAt >= Filled(w)[k].storedAt
  <1>1. ASSUME Held, Held', [Next]_vars PROVE A
    <2> SUFFICES ASSUME NEW w \in Writer, Ends(w),
                        NEW k \in LostTo(w), ~Expired(Filled(w)[k]),
                        NEW j \in Occupied(entries')
                 PROVE  entries'[j].storedAt >= Filled(w)[k].storedAt
      OBVIOUS
    <2>1. Insert(w)
      BY <1>1, EndOfPut
    <2>2. PICK gone \in SUBSET Occupied(Filled(w)) :
             /\ Evicted(Filled(w), Total(w), gone)
             /\ entries' = [x \in Key |-> IF x \in gone THEN NoEntry
                                          ELSE Filled(w)[x]]
      BY <2>1 DEF Insert
    <2>3. /\ k \in gone /\ j \in Occupied(Filled(w)) \ gone
          /\ entries'[j] = Filled(w)[j]
      BY <1>1, <2>1, <2>2, LostIsGone DEF Insert
    <2>4. Filled(w)[k].storedAt <= Filled(w)[j].storedAt
      BY <2>2, <2>3, EvictedAreOldest
    <2>5. Filled(w)[k].storedAt \in Nat /\ Filled(w)[j].storedAt \in Nat
      BY <1>1, <2>1, <2>2, <2>3, FilledType DEF Insert, Occupied, Entry
    <2> QED
      BY <2>3, <2>4, <2>5
  <1>2. [][A]_vars <=> EvictsOldestFirst
    BY PTL DEF EvictsOldestFirst
  <1> QED
    BY <1>1, <1>2, HeldAlways, PTL DEF Spec

-----------------------------------------------------------------------------
(* Sums                                                                    *)

\* What one turn of the fold makes of a set, given the sums of smaller ones.
SumOnce(g, f, s) ==
  IF s = {} THEN 0
  ELSE LET x == CHOOSE x \in s : TRUE IN Size(f[x]) + g[s \ {x}]

IsSum(g, f, S) == g = [s \in SUBSET S |-> SumOnce(g, f, s)]

LEMMA SizeOfIs ==
  ASSUME NEW f, NEW S
  PROVE  SizeOf(f, S) = (CHOOSE g : IsSum(g, f, S))[S]
  BY DEF SizeOf, MapThenSumSet, MapThenFoldSet, IsSum, SumOnce

\* The fold's recursion has a solution, extended from one size to the next.
LEMMA SumExists ==
  ASSUME NEW f, NEW S, IsFiniteSet(S)
  PROVE  \E g : IsSum(g, f, S)
  <1> DEFINE UpTo(g, n) ==
               /\ g = [s \in SUBSET S |-> g[s]]
               /\ \A s \in SUBSET S :
                     Cardinality(s) <= n => g[s] = SumOnce(g, f, s)
             N == {n \in Nat : \E g : UpTo(g, n)}
  <1>1. \A s \in SUBSET S : IsFiniteSet(s) /\ Cardinality(s) \in Nat
    BY FS_Subset, FS_CardinalityType
  <1>2. 0 \in N
    <2> DEFINE g == [s \in SUBSET S |-> 0]
    <2>1. \A s \in SUBSET S : Cardinality(s) <= 0 => s = {}
      BY <1>1, FS_EmptySet
    <2>2. UpTo(g, 0)
      BY <2>1 DEF SumOnce
    <2> QED
      BY <2>2
  <1>3. ASSUME NEW n \in N PROVE n + 1 \in N
    <2>1. PICK g : UpTo(g, n)
      OBVIOUS
    <2> DEFINE next == [s \in SUBSET S |->
                          IF Cardinality(s) <= n THEN g[s] ELSE SumOnce(g, f, s)]
    <2>2. ASSUME NEW s \in SUBSET S, Cardinality(s) <= n + 1
          PROVE  next[s] = SumOnce(next, f, s)
      <3>1. CASE s = {}
        BY <2>1, <3>1 DEF SumOnce
      <3>2. CASE s # {}
        <4> DEFINE x == CHOOSE x \in s : TRUE
        <4>1. x \in s
          BY <3>2
        <4>2. Cardinality(s \ {x}) = Cardinality(s) - 1 /\ s \ {x} \in SUBSET S
          BY <1>1, <4>1, FS_RemoveElement
        <4>3. Cardinality(s \ {x}) <= n
          BY <1>1, <2>2, <4>2
        <4>4. next[s \ {x}] = g[s \ {x}]
          BY <4>2, <4>3
        <4>5. SumOnce(next, f, s) = SumOnce(g, f, s)
          BY <3>2, <4>4 DEF SumOnce
        <4>6. next[s] = SumOnce(g, f, s)
          BY <2>1
        <4> QED
          BY <4>5, <4>6
      <3> QED
        BY <3>1, <3>2
    <2>3. UpTo(next, n + 1)
      BY <2>2
    <2> HIDE DEF UpTo, next
    <2> QED
      BY <2>3
  <1>4. N = Nat
    <2> HIDE DEF N
    <2>1. N \in SUBSET Nat
      BY DEF N
    <2> QED
      BY <1>2, <1>3, <2>1, NumberInduction
  <1>5. PICK g : UpTo(g, Cardinality(S))
    BY <1>1, <1>4
  <1>6. \A s \in SUBSET S : g[s] = SumOnce(g, f, s)
    BY <1>1, <1>5, FS_Subset
  <1> QED
    BY <1>5, <1>6 DEF IsSum

\* Its solutions for a set and for a part of it agree.
LEMMA SumUnique ==
  ASSUME NEW f, NEW S, IsFiniteSet(S), NEW T \in SUBSET S,
         NEW g, IsSum(g, f, S), NEW q, IsSum(q, f, T)
  PROVE  g[T] = q[T]
  <1> DEFINE N == {n \in Nat : \A s \in SUBSET T : Cardinality(s) = n => g[s] = q[s]}
  <1>1. \A s \in SUBSET T : IsFiniteSet(s) /\ Cardinality(s) \in Nat
    BY FS_Subset, FS_CardinalityType
  <1>2. \A s \in SUBSET T : g[s] = SumOnce(g, f, s) /\ q[s] = SumOnce(q, f, s)
    BY DEF IsSum
  <1>3. 0 \in N
    BY <1>1, <1>2, FS_EmptySet DEF SumOnce
  <1>4. ASSUME NEW n \in N, NEW s \in SUBSET T, Cardinality(s) = n + 1
        PROVE  g[s] = q[s]
    <2> DEFINE x == CHOOSE x \in s : TRUE
    <2>1. n + 1 # 0
      OBVIOUS
    <2>2. s # {}
      BY <1>4, <2>1, FS_EmptySet
    <2>3. x \in s
      BY <2>2
    <2> HIDE DEF x
    <2>4. Cardinality(s \ {x}) = n
      BY <1>1, <1>4, <2>3, FS_RemoveElement
    <2>5. g[s \ {x}] = q[s \ {x}]
      BY <2>4
    <2> QED
      BY <1>2, <2>2, <2>5 DEF SumOnce, x
  <1>5. N = Nat
    <2>1. \A n \in N : n + 1 \in N
      BY <1>4
    <2> HIDE DEF N
    <2>2. N \in SUBSET Nat
      BY DEF N
    <2> QED
      BY <1>3, <2>1, <2>2, NumberInduction
  <1> QED
    BY <1>1, <1>5

LEMMA SumSolution ==
  ASSUME NEW f, NEW S, IsFiniteSet(S)
  PROVE  \E g : IsSum(g, f, S) /\ SizeOf(f, S) = g[S]
  BY SumExists, SizeOfIs

\* Nothing weighs nothing, and the element that CHOOSE takes comes off first.
LEMMA SumEmpty == ASSUME NEW f PROVE SizeOf(f, {}) = 0
  <1>1. PICK g : IsSum(g, f, {}) /\ SizeOf(f, {}) = g[{}]
    BY SumSolution, FS_EmptySet
  <1>2. g[{}] = SumOnce(g, f, {})
    BY <1>1 DEF IsSum
  <1> QED
    BY <1>1, <1>2 DEF SumOnce

LEMMA SumChosen ==
  ASSUME NEW f, NEW S, IsFiniteSet(S), S # {}
  PROVE  LET x == CHOOSE x \in S : TRUE
         IN  SizeOf(f, S) = Size(f[x]) + SizeOf(f, S \ {x})
  <1> DEFINE x == CHOOSE x \in S : TRUE
  <1>1. IsFiniteSet(S \ {x}) /\ S \ {x} \in SUBSET S
    BY FS_RemoveElement
  <1>2. PICK g : IsSum(g, f, S) /\ SizeOf(f, S) = g[S]
    BY SumSolution
  <1>3. PICK q : IsSum(q, f, S \ {x}) /\ SizeOf(f, S \ {x}) = q[S \ {x}]
    BY <1>1, SumSolution
  <1>4. g[S \ {x}] = q[S \ {x}]
    BY <1>1, <1>2, <1>3, SumUnique
  <1>5. g[S] = Size(f[x]) + g[S \ {x}]
    BY <1>2 DEF IsSum, SumOnce
  <1> QED
    BY <1>2, <1>3, <1>4, <1>5

\* Sums of integers are integers.
LEMMA SumInt ==
  ASSUME NEW f, NEW S, IsFiniteSet(S), \A k \in S : Size(f[k]) \in Int
  PROVE  SizeOf(f, S) \in Int
  <1> DEFINE N == {n \in Nat : \A T \in SUBSET S :
                                 Cardinality(T) = n => SizeOf(f, T) \in Int}
  <1>1. \A T \in SUBSET S : IsFiniteSet(T) /\ Cardinality(T) \in Nat
    BY FS_Subset, FS_CardinalityType
  <1>2. 0 \in N
    BY <1>1, FS_EmptySet, SumEmpty
  <1>3. ASSUME NEW n \in N, NEW T \in SUBSET S, Cardinality(T) = n + 1
        PROVE  SizeOf(f, T) \in Int
    <2> DEFINE c == CHOOSE c \in T : TRUE
    <2>1. n + 1 # 0
      OBVIOUS
    <2>2. T # {}
      BY <1>3, <2>1, FS_EmptySet
    <2>3. c \in T
      BY <2>2
    <2>4. SizeOf(f, T) = Size(f[c]) + SizeOf(f, T \ {c})
      BY <1>1, <2>2, SumChosen
    <2> HIDE DEF c
    <2>5. Cardinality(T \ {c}) = Cardinality(T) - 1
      BY <1>1, <2>3, FS_RemoveElement
    <2>6. Cardinality(T \ {c}) = n
      BY <1>3, <2>5
    <2> QED
      BY <2>3, <2>4, <2>6
  <1>4. N = Nat
    <2>1. \A n \in N : n + 1 \in N
      BY <1>3
    <2> HIDE DEF N
    <2>2. N \in SUBSET Nat
      BY DEF N
    <2> QED
      BY <1>2, <2>1, <2>2, NumberInduction
  <1> QED
    BY <1>1, <1>4

\* The order does not matter: any element may come off.
LEMMA SumAny ==
  ASSUME NEW f, NEW S, IsFiniteSet(S), \A k \in S : Size(f[k]) \in Int
  PROVE  \A x \in S : SizeOf(f, S) = Size(f[x]) + SizeOf(f, S \ {x})
  <1> DEFINE Good(T) ==
               \A x \in T : SizeOf(f, T) = Size(f[x]) + SizeOf(f, T \ {x})
             N == {n \in Nat : \A T \in SUBSET S : Cardinality(T) = n => Good(T)}
  <1>1. \A T \in SUBSET S : /\ IsFiniteSet(T) /\ Cardinality(T) \in Nat
                            /\ SizeOf(f, T) \in Int
    BY FS_Subset, FS_CardinalityType, SumInt
  <1>2. 0 \in N
    BY <1>1, FS_EmptySet
  <1>3. ASSUME NEW n \in N, NEW T \in SUBSET S, Cardinality(T) = n + 1,
               NEW x \in T
        PROVE  SizeOf(f, T) = Size(f[x]) + SizeOf(f, T \ {x})
    <2> DEFINE c == CHOOSE c \in T : TRUE
    <2>1. c \in T /\ SizeOf(f, T) = Size(f[c]) + SizeOf(f, T \ {c})
      BY <1>1, SumChosen
    <2> HIDE DEF c
    <2>2. ASSUME NEW y \in T PROVE Good(T \ {y})
      <3>1. Cardinality(T \ {y}) = Cardinality(T) - 1
        BY <1>1, <2>2, FS_RemoveElement
      <3>2. Cardinality(T \ {y}) = n
        BY <1>3, <3>1
      <3> QED
        BY <3>2
    <2> DEFINE A == SizeOf(f, T \ {c})
               B == SizeOf(f, T \ {x})
               C == SizeOf(f, (T \ {x}) \ {c})
    <2>3. CASE x # c
      <3>1. (T \ {c}) \ {x} = (T \ {x}) \ {c}
        OBVIOUS
      <3>2. A = Size(f[x]) + C
        BY <2>1, <2>2, <2>3, <3>1
      <3>3. B = Size(f[c]) + C
        BY <2>1, <2>2, <2>3
      <3>4. C \in Int
        <4>1. (T \ {x}) \ {c} \in SUBSET S
          OBVIOUS
        <4> QED
          BY <1>1, <4>1
      <3>5. Size(f[x]) \in Int /\ Size(f[c]) \in Int
        BY <2>1
      <3> HIDE DEF A, B, C
      <3>6. Size(f[c]) + A = Size(f[x]) + B
        BY <3>2, <3>3, <3>4, <3>5
      <3> QED
        BY <2>1, <3>6 DEF A, B
    <2> QED
      BY <2>1, <2>3
  <1>4. N = Nat
    <2>1. \A n \in N : n + 1 \in N
      BY <1>3
    <2> HIDE DEF N
    <2>2. N \in SUBSET Nat
      BY DEF N
    <2> QED
      BY <1>2, <2>1, <2>2, NumberInduction
  <1> QED
    BY <1>1, <1>4

-----------------------------------------------------------------------------
\* Sums over a set depend on the sizes of its elements only.
LEMMA SumSame ==
  ASSUME NEW f, NEW q, NEW S, IsFiniteSet(S),
         \A k \in S : Size(f[k]) \in Int /\ Size(q[k]) = Size(f[k])
  PROVE  SizeOf(q, S) = SizeOf(f, S)
  <1> DEFINE P == {T \in SUBSET S : SizeOf(q, T) = SizeOf(f, T)}
  <1>1. {} \in P
    BY SumEmpty
  <1>2. ASSUME NEW T \in P, NEW x \in S \ T PROVE T \cup {x} \in P
    <2>1. IsFiniteSet(T \cup {x}) /\ (T \cup {x}) \ {x} = T
      BY FS_Subset
    <2>2. SizeOf(f, T \cup {x}) = Size(f[x]) + SizeOf(f, T)
      BY <2>1, SumAny
    <2>3. SizeOf(q, T \cup {x}) = Size(q[x]) + SizeOf(q, T)
      BY <2>1, SumAny
    <2> QED
      BY <2>2, <2>3
  <1> HIDE DEF P
  <1>3. P = SUBSET S
    <2>1. P \in SUBSET SUBSET S
      BY DEF P
    <2> QED
      BY <1>1, <1>2, <2>1, SubsetInduction
  <1> QED
    BY <1>3 DEF P

\* A set weighs what a part of it and the rest weigh.
LEMMA SumSplit ==
  ASSUME NEW f, NEW S, IsFiniteSet(S), \A k \in S : Size(f[k]) \in Int,
         NEW G \in SUBSET S
  PROVE  SizeOf(f, S) = SizeOf(f, G) + SizeOf(f, S \ G)
  <1> DEFINE P == {T \in SUBSET S :
                     SizeOf(f, S) = SizeOf(f, T) + SizeOf(f, S \ T)}
  <1>1. {} \in P
    <2>1. S \ {} = S
      OBVIOUS
    <2>2. SizeOf(f, S) \in Int /\ SizeOf(f, {}) = 0
      BY SumInt, SumEmpty
    <2> QED
      BY <2>1, <2>2
  <1>2. ASSUME NEW T \in P, NEW x \in S \ T PROVE T \cup {x} \in P
    <2>1. /\ IsFiniteSet(T \cup {x}) /\ (T \cup {x}) \ {x} = T
          /\ IsFiniteSet(S \ T) /\ (S \ T) \ {x} = S \ (T \cup {x})
          /\ IsFiniteSet(T) /\ IsFiniteSet(S \ (T \cup {x}))
      BY FS_Subset
    <2>2. SizeOf(f, T \cup {x}) = Size(f[x]) + SizeOf(f, T)
      BY <2>1, SumAny
    <2>3. SizeOf(f, S \ T) = Size(f[x]) + SizeOf(f, S \ (T \cup {x}))
      BY <2>1, SumAny
    <2>4. SizeOf(f, T) \in Int /\ SizeOf(f, S \ (T \cup {x})) \in Int
      BY <2>1, SumInt
    <2>5. SizeOf(f, S) = SizeOf(f, T) + SizeOf(f, S \ T)
      OBVIOUS
    <2>6. Size(f[x]) \in Int
      OBVIOUS
    <2>7. SizeOf(f, S) = SizeOf(f, T \cup {x}) + SizeOf(f, S \ (T \cup {x}))
      BY <2>2, <2>3, <2>4, <2>5, <2>6
    <2> QED
      BY <2>7
  <1> HIDE DEF P
  <1>3. P = SUBSET S
    <2>1. P \in SUBSET SUBSET S
      BY DEF P
    <2> QED
      BY <1>1, <1>2, <2>1, SubsetInduction
  <1> QED
    BY <1>3 DEF P

\* What weighs nothing adds nothing.
LEMMA SumZero ==
  ASSUME NEW f, NEW S, IsFiniteSet(S), \A k \in S : Size(f[k]) = 0
  PROVE  SizeOf(f, S) = 0
  <1> DEFINE P == {T \in SUBSET S : SizeOf(f, T) = 0}
  <1>1. {} \in P
    BY SumEmpty
  <1>2. ASSUME NEW T \in P, NEW x \in S \ T PROVE T \cup {x} \in P
    <2>1. IsFiniteSet(T \cup {x}) /\ (T \cup {x}) \ {x} = T
      BY FS_Subset
    <2>2. SizeOf(f, T \cup {x}) = Size(f[x]) + SizeOf(f, T)
      BY <2>1, SumAny
    <2> QED
      BY <2>2
  <1> HIDE DEF P
  <1>3. P = SUBSET S
    <2>1. P \in SUBSET SUBSET S
      BY DEF P
    <2> QED
      BY <1>1, <1>2, <2>1, SubsetInduction
  <1> QED
    BY <1>3 DEF P
-----------------------------------------------------------------------------
(* The running total                                                       *)

\* Whatever a key holds has a size, and an absent entry has none.
LEMMA Sizes ==
  ASSUME NEW f \in [Key -> Entry \cup {NoEntry}], NEW k \in Key
  PROVE  Size(f[k]) \in Nat /\ (k \notin Occupied(f) => Size(f[k]) = 0)
  BY DEF Size, Entry, NoEntry, Occupied

LEMMA SizesNat ==
  ASSUME NEW f \in [Key -> Entry \cup {NoEntry}], NEW S \in SUBSET Key
  PROVE  /\ IsFiniteSet(S) /\ \A k \in S : Size(f[k]) \in Int
         /\ SizeOf(f, S) \in Int
  BY ConstantsAssumption, FS_Subset, Sizes, SumInt DEF ConstantsAssumption

\* Replacing what one key holds changes the total by the difference.
LEMMA SumUpdate ==
  ASSUME NEW f \in [Key -> Entry \cup {NoEntry}], NEW k \in Key,
         NEW e \in Entry \cup {NoEntry}
  PROVE  SizeOf([f EXCEPT ![k] = e], Key)
           = SizeOf(f, Key) - Size(f[k]) + Size(e)
  <1> DEFINE q == [f EXCEPT ![k] = e]
             rest == Key \ {k}
  <1>1. q \in [Key -> Entry \cup {NoEntry}] /\ q[k] = e
        /\ \A j \in rest : q[j] = f[j]
    OBVIOUS
  <1> HIDE DEF q
  <1>2. SizeOf(q, Key) = Size(e) + SizeOf(q, rest)
    BY <1>1, SizesNat, SumAny
  <1>3. SizeOf(f, Key) = Size(f[k]) + SizeOf(f, rest)
    BY SizesNat, SumAny
  <1>4. SizeOf(q, rest) = SizeOf(f, rest)
    BY <1>1, SizesNat, SumSame
  <1>5. SizeOf(f, rest) \in Int /\ Size(f[k]) \in Int /\ Size(e) \in Int
    BY <1>1, SizesNat, Sizes
  <1> QED
    BY <1>2, <1>3, <1>4, <1>5 DEF q

\* Removing some entries takes what they weigh off the total.
LEMMA SumWithout ==
  ASSUME NEW f \in [Key -> Entry \cup {NoEntry}], NEW gone \in SUBSET Key
  PROVE  SizeOf([k \in Key |-> IF k \in gone THEN NoEntry ELSE f[k]], Key)
           = SizeOf(f, Key) - SizeOf(f, gone)
  <1> DEFINE q == [k \in Key |-> IF k \in gone THEN NoEntry ELSE f[k]]
             rest == Key \ gone
  <1>1. /\ q \in [Key -> Entry \cup {NoEntry}]
        /\ \A k \in gone : q[k] = NoEntry
        /\ \A k \in rest : q[k] = f[k]
    OBVIOUS
  <1> HIDE DEF q
  <1>2. SizeOf(q, Key) = SizeOf(q, gone) + SizeOf(q, rest)
    BY <1>1, SizesNat, SumSplit
  <1>3. SizeOf(f, Key) = SizeOf(f, gone) + SizeOf(f, rest)
    BY SizesNat, SumSplit
  <1>4. SizeOf(q, gone) = 0
    <2>1. \A k \in gone : Size(q[k]) = 0
      BY <1>1 DEF Size, NoEntry
    <2> QED
      BY <2>1, SizesNat, SumZero
  <1>5. SizeOf(q, rest) = SizeOf(f, rest)
    BY <1>1, SizesNat, SumSame
  <1>6. SizeOf(f, rest) \in Int /\ SizeOf(f, gone) \in Int
    BY SizesNat
  <1> QED
    BY <1>2, <1>3, <1>4, <1>5, <1>6 DEF q

\* The inductive invariant.
Balanced == Held /\ Accounting

\* What is held before a Put evicts weighs what the code counts.
LEMMA FilledTotal ==
  ASSUME Balanced, NEW w \in Writer, putting[w] # Idle
  PROVE  /\ Total(w) = SizeOf(Filled(w), Key)
         /\ Filled(w) \in [Key -> Entry \cup {NoEntry}]
  BY Carried, FilledType, SumUpdate
  DEF Balanced, Held, Accounting, Total, Filled

LEMMA BalancedInit == Init => Balanced
  <1> SUFFICES ASSUME Init PROVE Balanced
    OBVIOUS
  <1>1. Held
    BY DEF Init, Held
  <1>2. \A k \in Key : Size(entries[k]) = 0
    BY DEF Init, Size, NoEntry
  <1>3. SizeOf(entries, Key) = 0
    BY <1>2, ConstantsAssumption, SumZero DEF ConstantsAssumption
  <1> QED
    BY <1>1, <1>3 DEF Init, Balanced, Accounting

\* A Put, a lookup that drops an expired entry: the total follows each.
LEMMA BalancedStep == Balanced /\ [Next]_vars => Balanced'
  <1> SUFFICES ASSUME Balanced, [Next]_vars PROVE Accounting'
    BY HeldStep DEF Balanced
  <1> USE DEF Balanced
  <1>1. ASSUME NEW w \in Writer, Insert(w) PROVE Accounting'
    <2>1. PICK gone \in SUBSET Occupied(Filled(w)) :
             /\ entries' = [k \in Key |-> IF k \in gone THEN NoEntry
                                          ELSE Filled(w)[k]]
             /\ bytes' = Total(w) - SizeOf(Filled(w), gone)
      BY <1>1 DEF Insert
    <2>2. gone \in SUBSET Key
      BY DEF Occupied
    <2> QED
      BY <1>1, <2>1, <2>2, FilledTotal, SumWithout DEF Insert, Accounting
  <1>2. ASSUME NEW k \in Key, Get(k) PROVE Accounting'
    <2>1. CASE Fresh(k)
      BY <1>2, <2>1 DEF Get, Accounting
    <2>2. CASE ~Fresh(k)
      <3>1. SizeOf(entries', Key)
              = SizeOf(entries, Key) - Size(entries[k]) + Size(NoEntry)
        BY <1>2, <2>2, SumUpdate DEF Get, Held
      <3>2. Size(NoEntry) = 0 /\ SizeOf(entries, Key) \in Int
            /\ Size(entries[k]) \in Int
        BY SizesNat DEF Size, NoEntry, Held
      <3> QED
        BY <1>2, <2>2, <3>1, <3>2 DEF Get, Accounting
    <2> QED
      BY <2>1, <2>2
  <1>3. CASE UNCHANGED <<entries, bytes>>
    BY <1>3 DEF Accounting
  <1> QED
    BY <1>1, <1>2, <1>3, Steps

THEOREM BalancedAlways == Spec => []Balanced
  BY BalancedInit, BalancedStep, PTL DEF Spec

\* TypeOK: for every budget, TTL, writers and sizes the cache keeps its types.
THEOREM TypeCorrect == Spec => []TypeOK
  <1>1. Balanced => TypeOK
    BY SizesNat DEF Balanced, Held, Accounting, TypeOK
  <1> QED
    BY <1>1, BalancedAlways, PTL

\* Accounting: the running total is the sum of what is held, however puts,
\* replacements, evictions and expiries on lookup interleave.
THEOREM TotalIsSum == Spec => []Accounting
  <1>1. Balanced => Accounting
    BY DEF Balanced
  <1> QED
    BY <1>1, BalancedAlways, PTL

-----------------------------------------------------------------------------
(* The budget                                                              *)

\* evictLocked leaves a total within the budget: it went on until it was, or
\* until nothing was left, and nothing weighs nothing.
LEMMA EvictedFits ==
  ASSUME NEW f \in [Key -> Entry \cup {NoEntry}], MaxBytes > 0,
         NEW gone \in SUBSET Occupied(f), Evicted(f, SizeOf(f, Key), gone)
  PROVE  SizeOf(f, Key) - SizeOf(f, gone) <= MaxBytes
  <1> DEFINE old == {k \in Occupied(f) : Expired(f[k])}
             total == SizeOf(f, Key)
  <1>1. PICK first \in SUBSET old :
           /\ first \subseteq gone
           /\ EndsWith(f, total - SizeOf(f, first), Occupied(f) \ first,
                       gone \ first, YoungestOf(f, gone \ first))
    <2>1. ~(MaxBytes <= 0)
      BY ConstantsAssumption DEF ConstantsAssumption
    <2> QED
      BY <2>1 DEF Evicted
  <1>2. Occupied(f) \subseteq Key
    BY DEF Occupied
  <1>3. SizeOf(f, gone) = SizeOf(f, first) + SizeOf(f, gone \ first)
    BY <1>1, <1>2, SizesNat, SumSplit
  <1>4. /\ total \in Int /\ SizeOf(f, gone) \in Int
        /\ SizeOf(f, first) \in Int /\ SizeOf(f, gone \ first) \in Int
    BY <1>1, <1>2, SizesNat
  <1>5. CASE gone \ first = Occupied(f) \ first
    <2>1. gone = Occupied(f)
      BY <1>1, <1>5
    <2>2. SizeOf(f, Key \ gone) = 0
      BY <2>1, SizesNat, Sizes, SumZero
    <2>3. total = SizeOf(f, gone) + SizeOf(f, Key \ gone)
      BY <1>2, SizesNat, SumSplit
    <2> QED
      BY <1>4, <2>2, <2>3, ConstantsAssumption DEF ConstantsAssumption
  <1>6. CASE (total - SizeOf(f, first)) - SizeOf(f, gone \ first) <= MaxBytes
    BY <1>3, <1>4, <1>6, ConstantsAssumption DEF ConstantsAssumption
  <1> QED
    BY <1>1, <1>5, <1>6 DEF EndsWith

\* WithinBudget: SUBSCRIPTION_CACHE_MAX_BYTES holds whenever the lock is free.
THEOREM BudgetHolds == Spec => []WithinBudget
  <1>1. Init => WithinBudget
    BY ConstantsAssumption DEF Init, WithinBudget, ConstantsAssumption
  <1>2. WithinBudget /\ Balanced /\ [Next]_vars => WithinBudget'
    <2> SUFFICES ASSUME WithinBudget, Balanced, [Next]_vars, MaxBytes > 0
                 PROVE  bytes' <= MaxBytes
      BY DEF WithinBudget
    <2> USE ConstantsAssumption DEF Balanced, ConstantsAssumption
    <2>1. ASSUME NEW w \in Writer, Insert(w) PROVE bytes' <= MaxBytes
      BY <2>1, FilledTotal, EvictedFits DEF Insert
    <2>2. ASSUME NEW k \in Key, Get(k) PROVE bytes' <= MaxBytes
      <3>1. bytes \in Int /\ Size(entries[k]) \in Nat
        BY SizesNat, Sizes DEF Held, Accounting
      <3> QED
        BY <2>2, <3>1 DEF Get, WithinBudget
    <2>3. CASE UNCHANGED <<entries, bytes>>
      BY <2>3 DEF WithinBudget
    <2> QED
      BY <2>1, <2>2, <2>3, Steps
  <1> QED
    BY <1>1, <1>2, BalancedAlways, PTL DEF Spec

\* A part of what is held weighs no more than the whole.
LEMMA SumMonotone ==
  ASSUME NEW f \in [Key -> Entry \cup {NoEntry}],
         NEW S \in SUBSET Key, NEW G \in SUBSET S
  PROVE  SizeOf(f, G) <= SizeOf(f, S)
  <1> DEFINE P == {T \in SUBSET S : SizeOf(f, T) >= 0}
  <1>1. {} \in P
    BY SumEmpty
  <1>2. ASSUME NEW T \in P, NEW x \in S \ T PROVE T \cup {x} \in P
    <2>1. (T \cup {x}) \ {x} = T /\ T \cup {x} \in SUBSET Key
      OBVIOUS
    <2>2. SizeOf(f, T \cup {x}) = Size(f[x]) + SizeOf(f, T)
      BY <2>1, SizesNat, SumAny
    <2>3. Size(f[x]) \in Nat /\ SizeOf(f, T) \in Int
      BY <2>1, SizesNat, Sizes
    <2> QED
      BY <2>2, <2>3
  <1>3. P = SUBSET S
    <2> HIDE DEF P
    <2>1. P \in SUBSET SUBSET S
      BY DEF P
    <2>2. IsFiniteSet(S)
      BY SizesNat
    <2> QED
      BY <1>1, <1>2, <2>1, <2>2, SubsetInduction
  <1>4. SizeOf(f, S \ G) >= 0
    BY <1>3
  <1>5. SizeOf(f, S) = SizeOf(f, G) + SizeOf(f, S \ G)
    BY SizesNat, SumSplit
  <1>6. /\ SizeOf(f, S) \in Int /\ SizeOf(f, G) \in Int
        /\ SizeOf(f, S \ G) \in Int
    BY SizesNat
  <1> QED
    BY <1>4, <1>5, <1>6

\* What the loop over the oldest had before it when it came to its last entry:
\* that entry and all it kept, none of it older than any it removed, and too
\* much for the budget.
LEMMA LastTurn ==
  ASSUME NEW f \in [Key -> Entry \cup {NoEntry}],
         NEW gone \in SUBSET Occupied(f), Evicted(f, SizeOf(f, Key), gone),
         NEW k \in gone, ~Expired(f[k])
  PROVE  \E S \in SUBSET NoOlder(f, k) : SizeOf(f, S) > MaxBytes
  <1> DEFINE old == {x \in Occupied(f) : Expired(f[x])}
             total == SizeOf(f, Key)
  <1>1. PICK first \in SUBSET old :
           /\ first \subseteq gone
           /\ EndsWith(f, total - SizeOf(f, first), Occupied(f) \ first,
                       gone \ first, YoungestOf(f, gone \ first))
           /\ OldestOf(f, Occupied(f) \ first, gone \ first)
    BY DEF Evicted
  <1> DEFINE next == gone \ first
  <1>2. k \in next
    BY <1>1
  <1>3. PICK last \in YoungestOf(f, next) :
           (total - SizeOf(f, first)) - SizeOf(f, next \ {last}) > MaxBytes
    BY <1>1, <1>2 DEF EndsWith
  <1>4. last \in next /\ f[k].storedAt <= f[last].storedAt
    BY <1>2, <1>3 DEF YoungestOf
  <1> DEFINE S == (Occupied(f) \ gone) \cup {last}
  <1>5. S \in SUBSET NoOlder(f, k)
    <2>1. \A x \in Occupied(f) \ gone : f[k].storedAt <= f[x].storedAt
      BY <1>1, <1>2 DEF OldestOf
    <2>2. \A x \in Occupied(f) : f[x].storedAt \in Nat
      BY DEF Occupied, Entry
    <2> QED
      BY <1>4, <2>1, <2>2 DEF NoOlder
  <1>6. SizeOf(f, S) > MaxBytes
    <2>1. Occupied(f) \subseteq Key
      BY DEF Occupied
    <2> DEFINE kept == Key \ first
               taken == next \ {last}
    <2>2. /\ first \in SUBSET Key /\ kept \in SUBSET Key
          /\ taken \in SUBSET kept /\ kept \ taken \in SUBSET Key
          /\ taken \in SUBSET Key /\ S \in SUBSET (kept \ taken)
      BY <1>1, <1>4, <2>1
    <2>3. total = SizeOf(f, first) + SizeOf(f, kept)
      BY <2>2, SizesNat, SumSplit
    <2>4. SizeOf(f, kept) = SizeOf(f, taken) + SizeOf(f, kept \ taken)
      BY <2>2, SizesNat, SumSplit
    <2>5. SizeOf(f, kept \ taken) = SizeOf(f, S)
      <3>1. \A x \in (kept \ taken) \ S : Size(f[x]) = 0
        <4>1. \A x \in (kept \ taken) \ S : x \in Key /\ x \notin Occupied(f)
          BY <1>1, <1>4
        <4> QED
          BY <4>1, Sizes
      <3> DEFINE none == (kept \ taken) \ S
      <3>2. none \in SUBSET Key
        BY <2>2
      <3>3. SizeOf(f, none) = 0
        BY <3>1, <3>2, SizesNat, SumZero
      <3>4. SizeOf(f, kept \ taken) = SizeOf(f, S) + SizeOf(f, none)
        BY <2>2, SizesNat, SumSplit
      <3>5. SizeOf(f, S) \in Int
        BY <2>2, SizesNat
      <3> QED
        BY <3>3, <3>4, <3>5
    <2>6. /\ SizeOf(f, first) \in Int /\ SizeOf(f, taken) \in Int
          /\ SizeOf(f, kept) \in Int /\ SizeOf(f, kept \ taken) \in Int
      BY <2>2, SizesNat
    <2>7. (total - SizeOf(f, first)) - SizeOf(f, taken)
             = SizeOf(f, kept \ taken)
      BY <2>3, <2>4, <2>6
    <2> QED
      BY <1>3, <2>5, <2>7
  <1> QED
    BY <1>5, <1>6

\* EvictsOnlyForRoom: a live entry goes only when it and what was stored no
\* earlier do not fit into the budget together.
THEOREM NothingEvictedInVain == Spec => EvictsOnlyForRoom
  <1> DEFINE A == \A w \in Writer : Ends(w) =>
                    \A k \in LostTo(w) : ~Expired(Filled(w)[k]) =>
                       SizeOf(Filled(w), NoOlder(Filled(w), k)) > MaxBytes
  <1>1. ASSUME Balanced, [Next]_vars PROVE A
    <2> SUFFICES ASSUME NEW w \in Writer, Ends(w),
                        NEW k \in LostTo(w), ~Expired(Filled(w)[k])
                 PROVE  SizeOf(Filled(w), NoOlder(Filled(w), k)) > MaxBytes
      OBVIOUS
    <2>1. Insert(w)
      BY <1>1, EndOfPut DEF Balanced
    <2>2. PICK gone \in SUBSET Occupied(Filled(w)) :
             /\ Evicted(Filled(w), Total(w), gone)
             /\ entries' = [x \in Key |-> IF x \in gone THEN NoEntry
                                          ELSE Filled(w)[x]]
      BY <2>1 DEF Insert
    <2>3. k \in gone
      BY <1>1, <2>1, <2>2, LostIsGone DEF Balanced, Insert
    <2>4. /\ Filled(w) \in [Key -> Entry \cup {NoEntry}]
          /\ Total(w) = SizeOf(Filled(w), Key)
      BY <1>1, <2>1, FilledTotal DEF Insert
    <2>5. PICK S \in SUBSET NoOlder(Filled(w), k) :
             SizeOf(Filled(w), S) > MaxBytes
      BY <2>2, <2>3, <2>4, LastTurn
    <2>6. NoOlder(Filled(w), k) \in SUBSET Key
      BY DEF NoOlder, Occupied
    <2>7. SizeOf(Filled(w), S) <= SizeOf(Filled(w), NoOlder(Filled(w), k))
      BY <2>4, <2>6, SumMonotone
    <2>8. /\ S \in SUBSET Key /\ SizeOf(Filled(w), S) \in Int
          /\ SizeOf(Filled(w), NoOlder(Filled(w), k)) \in Int
      BY <2>4, <2>6, SizesNat
    <2> QED
      BY <2>5, <2>7, <2>8, ConstantsAssumption DEF ConstantsAssumption
  <1>2. [][A]_vars <=> EvictsOnlyForRoom
    BY PTL DEF EvictsOnlyForRoom
  <1> QED
    BY <1>1, <1>2, BalancedAlways, PTL DEF Spec

=============================================================================

------------------------------ MODULE SetLemmas ------------------------------
(***************************************************************************)
(* What the proofs need of sets in general.  Induction over numbers and    *)
(* over finite sets is stated with a set in place of a predicate: what     *)
(* holds of the elements is that they are in P.  Sorted or filtered lists  *)
(* are reached by counting: the members of an ordered set are numbered.    *)
(***************************************************************************)
EXTENDS Filtering, Functions, FiniteSetTheorems, WellFoundedInduction, TLAPS

\* A set of numbers with zero and the successor of each of its members has all.
LEMMA NumberInduction ==
  ASSUME NEW P \in SUBSET Nat, 0 \in P, \A n \in P : n + 1 \in P
  PROVE  P = Nat
  <1> DEFINE R == {ss \in Nat \X Nat : ss[1] < ss[2]}
             Q == Nat \ P
  <1>1. IsWellFoundedOn(R, Nat)
    BY NatLessThanWellFounded DEF OpToRel
  <1> SUFFICES ASSUME Q # {} PROVE FALSE
    OBVIOUS
  <1>2. PICK m \in Q : \A n \in Q : ~(<<n, m>> \in R)
    <2> HIDE DEF R
    <2> QED
      BY <1>1, WFMin
  <1>3. m \in Nat \ {0}
    BY <1>2
  <1>4. m - 1 \notin Q
    <2>1. <<m - 1, m>> \in R
      BY <1>3
    <2> HIDE DEF R
    <2> QED
      BY <1>2, <2>1
  <1>5. m - 1 \in P
    BY <1>3, <1>4
  <1>6. (m - 1) + 1 \in P
    BY <1>5
  <1> QED
    BY <1>2, <1>3, <1>6

\* A set of subsets of a finite set with the empty one, and with every set that
\* has one element more than a member, has them all.
LEMMA SubsetInduction ==
  ASSUME NEW S, IsFiniteSet(S), NEW P \in SUBSET SUBSET S, {} \in P,
         \A T \in P : \A x \in S \ T : T \cup {x} \in P
  PROVE  P = SUBSET S
  <1> DEFINE N == {n \in Nat :
                     \A T \in SUBSET S : Cardinality(T) = n => T \in P}
  <1>1. \A T \in SUBSET S : IsFiniteSet(T) /\ Cardinality(T) \in Nat
    BY FS_Subset, FS_CardinalityType
  <1>2. 0 \in N
    BY <1>1, FS_EmptySet
  <1>3. ASSUME NEW n \in N, NEW T \in SUBSET S, Cardinality(T) = n + 1
        PROVE  T \in P
    <2>1. PICK x : x \in T
      <3>1. n + 1 # 0
        OBVIOUS
      <3>2. T # {}
        BY <1>3, <3>1, FS_EmptySet
      <3> QED
        BY <3>2
    <2>2. Cardinality(T \ {x}) = n
      BY <1>1, <1>3, <2>1, FS_RemoveElement
    <2>3. T \ {x} \in P
      BY <2>2
    <2>4. T = (T \ {x}) \cup {x}
      BY <2>1
    <2> QED
      BY <2>1, <2>3, <2>4
  <1>4. N = Nat
    <2>1. \A n \in N : n + 1 \in N
      BY <1>3
    <2> HIDE DEF N
    <2>2. N \in SUBSET Nat
      BY DEF N
    <2> QED
      BY <1>2, <2>1, <2>2, NumberInduction
  <1> QED
    BY <1>1, <1>4

-----------------------------------------------------------------------------
(* Places and ranks                                                        *)

\* The members of S before x, by a relation R, and how many they are.
Below(S, R, x) == {y \in S : <<y, x>> \in R}
Numbers(S, R) == [x \in S |-> Cardinality(Below(S, R, x)) + 1]

\* If R is a strict order and S is finite, they are numbered from one.
LEMMA Numbering ==
    ASSUME NEW S, IsFiniteSet(S), NEW R,
           \A x \in S : <<x, x>> \notin R,
           \A x, y, z \in S :
               <<x, y>> \in R /\ <<y, z>> \in R => <<x, z>> \in R,
           \A x, y \in S : x # y => <<x, y>> \in R \/ <<y, x>> \in R
    PROVE  /\ Numbers(S, R) \in Bijection(S, 1..Cardinality(S))
           /\ \A x, y \in S :
                 <<x, y>> \in R => Numbers(S, R)[x] < Numbers(S, R)[y]
<1> USE DEF Numbers, Below
<1> DEFINE B(x) == Below(S, R, x)
           f == Numbers(S, R)
<1>1. \A x \in S : IsFiniteSet(B(x)) /\ Cardinality(B(x)) \in Nat
  BY FS_Subset, FS_CardinalityType
<1>2. Cardinality(S) \in Nat
  BY FS_CardinalityType
<1>3. ASSUME NEW x \in S PROVE f[x] \in 1..Cardinality(S)
  <2>1. Cardinality(B(x)) <= Cardinality(S \ {x})
    <3>1. IsFiniteSet(S \ {x}) /\ B(x) \subseteq S \ {x}
      BY FS_RemoveElement
    <3> QED
      BY <3>1, FS_Subset
  <2>2. Cardinality(S \ {x}) = Cardinality(S) - 1
    BY FS_RemoveElement
  <2> QED
    BY <1>1, <1>2, <2>1, <2>2
<1>4. ASSUME NEW x \in S, NEW y \in S, <<x, y>> \in R
      PROVE  f[x] < f[y]
  <2>1. B(x) \cup {x} \subseteq B(y) /\ x \notin B(x)
    BY <1>4
  <2>2. Cardinality(B(x) \cup {x}) = Cardinality(B(x)) + 1
    BY <1>1, <2>1, FS_AddElement
  <2>3. Cardinality(B(x) \cup {x}) <= Cardinality(B(y))
    BY <1>1, <2>1, FS_Subset
  <2> QED
    BY <1>1, <2>2, <2>3
<1>5. f \in Injection(S, 1..Cardinality(S))
  <2>1. \A x \in S : f[x] \in Nat
    BY <1>2, <1>3
  <2>2. ASSUME NEW x \in S, NEW y \in S, f[x] = f[y] PROVE x = y
    <3>1. ~(f[x] < f[y]) /\ ~(f[y] < f[x])
      BY <2>1, <2>2
    <3> QED
      BY <1>4, <3>1
  <2>3. f \in [S -> 1..Cardinality(S)]
    BY <1>3
  <2> QED
    BY <2>2, <2>3 DEF Injection, IsInjective
<1> HIDE DEF f
<1>6. f \in Surjection(S, 1..Cardinality(S))
  BY <1>2, <1>5, FS_Injection, FS_Interval
<1> QED
  BY <1>4, <1>5, <1>6 DEF Bijection, f

\* A place's rank is its number among the places.
LEMMA RankNumbers ==
    ASSUME NEW n \in Nat, NEW S, S \subseteq 1..n
    PROVE  /\ IsFiniteSet(S) /\ Cardinality(S) \in Nat
           /\ \A i \in S : /\ Rank(i, S) \in 1..Cardinality(S)
                           /\ Rank(i, S) = Cardinality({j \in S : j < i}) + 1
           /\ \A i, j \in S : Rank(i, S) = Rank(j, S) => i = j
           /\ \A r \in 1..Cardinality(S) : \E i \in S : Rank(i, S) = r
<1> DEFINE R == {p \in S \X S : p[1] < p[2]}
           f == Numbers(S, R)
<1>1. IsFiniteSet(S) /\ Cardinality(S) \in Nat /\ \A i \in S : i \in Nat
  <2>1. IsFiniteSet(1..n)
    BY FS_Interval
  <2>2. IsFiniteSet(S)
    BY <2>1, FS_Subset
  <2> QED
    BY <2>2, FS_CardinalityType
<1>2. f \in Bijection(S, 1..Cardinality(S))
  <2>1. /\ \A x \in S : <<x, x>> \notin R
        /\ \A x, y, z \in S : <<x, y>> \in R /\ <<y, z>> \in R => <<x, z>> \in R
        /\ \A x, y \in S : x # y => <<x, y>> \in R \/ <<y, x>> \in R
    OBVIOUS
  <2> HIDE DEF R
  <2> QED
    BY <1>1, <2>1, Numbering
<1>3. ASSUME NEW i \in S
      PROVE  /\ Rank(i, S) = f[i]
             /\ Rank(i, S) = Cardinality({j \in S : j < i}) + 1
  <2> DEFINE low == {j \in S : j < i}
  <2>1. {j \in S : j <= i} = low \cup {i} /\ i \notin low /\ low \subseteq S
    <3>1. \A j \in S : j <= i <=> j < i \/ j = i
      BY <1>1
    <3>2. ~(i < i)
      BY <1>1
    <3> QED
      BY <3>1, <3>2
  <2>2. Below(S, R, i) = low
    BY DEF Below
  <2>3. IsFiniteSet(low)
    BY <1>1, <2>1, FS_Subset
  <2>4. Cardinality(low \cup {i}) = Cardinality(low) + 1
    BY <2>1, <2>3, FS_AddElement
  <2> QED
    BY <2>1, <2>2, <2>4 DEF Rank, Numbers
<1> HIDE DEF f
<1>4. /\ f \in [S -> 1..Cardinality(S)]
      /\ \A i, j \in S : f[i] = f[j] => i = j
  BY <1>2 DEF Bijection, Injection, IsInjective
<1>5. \A i, j \in S : Rank(i, S) = Rank(j, S) => i = j
  BY <1>3, <1>4
<1>6. \A i \in S : Rank(i, S) \in 1..Cardinality(S)
  BY <1>3, <1>4
<1>7. \A r \in 1..Cardinality(S) : \E i \in S : f[i] = r
  BY <1>2 DEF Bijection, Surjection
<1>8. \A r \in 1..Cardinality(S) : \E i \in S : Rank(i, S) = r
  BY <1>3, <1>7
<1> QED
  BY <1>1, <1>3, <1>5, <1>6, <1>8

\* A set of indices has a last one.
LEMMA LastIndex ==
    ASSUME NEW n \in Nat, NEW S, S \subseteq 1..n, S # {}
    PROVE  \E m \in S : \A k \in S : k <= m
<1> DEFINE R == {ss \in Nat \X Nat : ss[1] < ss[2]}
           T == {n - k : k \in S}
<1>1. IsWellFoundedOn(R, Nat)
  BY NatLessThanWellFounded DEF OpToRel
<1>2. T \subseteq Nat /\ T # {}
  <2>1. \A k \in S : k \in 1..n /\ n - k \in Nat
    OBVIOUS
  <2>2. \E k : k \in S
    OBVIOUS
  <2> QED
    BY <2>1, <2>2
<1> HIDE DEF R, T
<1>3. PICK x \in T : \A y \in T : ~(<<y, x>> \in R)
  BY <1>1, <1>2, WFMin
<1>4. \A y \in T : ~(y < x)
  BY <1>2, <1>3 DEF R
<1>5. PICK m \in S : x = n - m
  BY DEF T
<1>6. \A k \in S : ~(n - k < x)
  BY <1>4 DEF T
<1> QED
  BY <1>5, <1>6

-----------------------------------------------------------------------------
(* Lists that are filtered                                                 *)

\* What is kept of a list is its entries at the places, in order.
LEMMA KeptEntries ==
    ASSUME NEW n \in Nat, NEW list, DOMAIN list = 1..n, NEW set
    PROVE  LET places == Places(list, set)
           IN  /\ places \subseteq 1..n
               /\ \A i \in places : list[i] \in set
               /\ Cardinality(places) \in Nat
               /\ Kept(list, set) \in Seq(set)
               /\ Len(Kept(list, set)) = Cardinality(places)
               /\ \A i \in places : Kept(list, set)[Rank(i, places)] = list[i]
<1> DEFINE places == Places(list, set)
           c == Cardinality(places)
           at(r) == CHOOSE i \in places : Rank(i, places) = r
<1>1. places \subseteq 1..n /\ \A i \in places : list[i] \in set
  BY DEF Places
<1>2. Kept(list, set) = [r \in 1..c |-> list[at(r)]]
  BY DEF Kept
<1> HIDE DEF places
<1>3. /\ c \in Nat
      /\ \A i \in places : Rank(i, places) \in 1..c
      /\ \A i, j \in places : Rank(i, places) = Rank(j, places) => i = j
      /\ \A r \in 1..c : \E i \in places : Rank(i, places) = r
  BY <1>1, RankNumbers
<1>4. \A r \in 1..c : at(r) \in places
  BY <1>3
<1>5. \A i \in places : at(Rank(i, places)) = i
  BY <1>3
<1> HIDE DEF c, at
<1>6. Kept(list, set) \in [1..c -> set]
  BY <1>1, <1>2, <1>4
<1>7. Kept(list, set) \in Seq(set) /\ Len(Kept(list, set)) = c
  BY <1>3, <1>6
<1>8. \A i \in places : Kept(list, set)[Rank(i, places)] = list[i]
  BY <1>2, <1>3, <1>5
<1> QED
  BY <1>1, <1>3, <1>7, <1>8 DEF c, places

LEMMA KeptType ==
    ASSUME NEW A, NEW list \in Seq(A), NEW set
    PROVE  Kept(list, set) \in Seq(set)
<1>1. Len(list) \in Nat /\ DOMAIN list = 1..Len(list)
  OBVIOUS
<1> QED
  BY <1>1, KeptEntries

\* What follows a list and is kept whole follows what is kept of the list.
LEMMA KeptBefore ==
    ASSUME NEW A, NEW set, NEW a \in Seq(A), NEW b \in Seq(set)
    PROVE  Kept(a \o b, set) = Kept(a, set) \o b
<1> DEFINE m == Len(a)
           k == Len(b)
           list == a \o b
           P == Places(a, set)
           Q == Places(list, set)
           c == Cardinality(P)
           x == Kept(list, set)
           y == Kept(a, set)
<1>1. m \in Nat /\ k \in Nat
  OBVIOUS
<1>2. /\ DOMAIN a = 1..m /\ DOMAIN list = 1..m + k
      /\ \A q \in 1..k : b[q] \in set
      /\ \A j \in 1..m : list[j] = a[j]
      /\ \A q \in 1..k : list[m + q] = b[q]
  OBVIOUS
<1>3. /\ P \subseteq 1..m /\ c \in Nat
      /\ y \in Seq(set) /\ Len(y) = c
      /\ \A i \in P : y[Rank(i, P)] = a[i]
  <2> HIDE DEF m
  <2> QED
    BY <1>1, <1>2, KeptEntries
<1>4. /\ Q \subseteq 1..m + k
      /\ x \in Seq(set) /\ Len(x) = Cardinality(Q)
      /\ \A i \in Q : x[Rank(i, Q)] = list[i]
  <2> HIDE DEF m, k, list
  <2>1. m + k \in Nat
    BY <1>1
  <2> QED
    BY <1>2, <2>1, KeptEntries
<1>5. \A j : j \in Q <=> j \in P \/ j \in m + 1..m + k
  <2> SUFFICES ASSUME NEW j PROVE j \in Q <=> j \in P \/ j \in m + 1..m + k
    OBVIOUS
  <2> HIDE DEF m, k, list
  <2>1. CASE j \in 1..m
    BY <1>1, <1>2, <2>1 DEF Places
  <2>2. CASE j \in m + 1..m + k
    <3>1. j - m \in 1..k /\ m + (j - m) = j /\ j \in 1..m + k
      BY <1>1, <2>2
    <3>2. list[j] \in set
      BY <1>2, <3>1
    <3> QED
      BY <1>1, <1>2, <2>2, <3>1, <3>2 DEF Places
  <2>3. CASE j \notin 1..m /\ j \notin m + 1..m + k
    <3>1. j \notin 1..m + k
      BY <1>1, <2>3
    <3> QED
      BY <1>3, <1>4, <2>3, <3>1
  <2> QED
    BY <2>1, <2>2, <2>3
<1> HIDE DEF m, k, list, P, Q, x, y
<1>6. ASSUME NEW q \in 0..k
      PROVE  Cardinality(P \cup (m + 1..m + q)) = c + q
  <2> DEFINE T == m + 1..m + q
  <2>1. IsFiniteSet(T) /\ Cardinality(T) = q
    <3>1. m + 1 \in Int /\ m + q \in Int
      BY <1>1
    <3>2. IsFiniteSet(T)
          /\ Cardinality(T) = IF m + 1 > m + q THEN 0 ELSE (m + q) - (m + 1) + 1
      BY <3>1, FS_Interval
    <3>3. (IF m + 1 > m + q THEN 0 ELSE (m + q) - (m + 1) + 1) = q
      BY <1>1
    <3> QED
      BY <3>2, <3>3
  <2>2. P \cap T = {}
    BY <1>1, <1>3
  <2>3. IsFiniteSet(P)
    BY <1>1, <1>3, RankNumbers
  <2> HIDE DEF T
  <2>4. Cardinality(P \cup T)
            = Cardinality(P) + Cardinality(T) - Cardinality(P \cap T)
    BY <2>1, <2>3, FS_Union
  <2>5. Cardinality(P \cap T) = 0
    BY <2>2, FS_EmptySet
  <2> QED
    BY <1>1, <1>3, <2>1, <2>4, <2>5 DEF T
<1>7. Cardinality(Q) = c + k
  <2>1. Q = P \cup (m + 1..m + k)
    BY <1>5
  <2> QED
    BY <1>1, <1>6, <2>1
<1>8. ASSUME NEW r \in 1..c PROVE x[r] = y[r]
  <2>1. PICK i \in P : Rank(i, P) = r
    BY <1>1, <1>3, RankNumbers
  <2>2. {j \in Q : j <= i} = {j \in P : j <= i}
    BY <1>1, <1>3, <1>5
  <2>3. i \in Q /\ Rank(i, Q) = r
    BY <1>5, <2>1, <2>2 DEF Rank
  <2>4. list[i] = a[i]
    BY <1>2, <1>3
  <2> QED
    BY <1>3, <1>4, <2>1, <2>3, <2>4
<1>9. ASSUME NEW q \in 1..k PROVE x[c + q] = b[q]
  <2>1. {j \in Q : j <= m + q} = P \cup (m + 1..m + q)
    <3>1. ASSUME NEW j \in Q, j <= m + q
          PROVE  j \in P \/ j \in m + 1..m + q
      BY <1>1, <1>5, <3>1
    <3>2. ASSUME NEW j, j \in P \/ j \in m + 1..m + q
          PROVE  j \in Q /\ j <= m + q
      <4>1. CASE j \in P
        BY <1>1, <1>3, <1>5, <4>1
      <4>2. CASE j \in m + 1..m + q
        <5>1. j \in m + 1..m + k
          BY <1>1, <4>2
        <5> QED
          BY <1>1, <1>5, <4>2, <5>1
      <4> QED
        BY <3>2, <4>1, <4>2
    <3> QED
      BY <3>1, <3>2
  <2>2. m + q \in Q /\ list[m + q] = b[q]
    BY <1>1, <1>2, <1>5
  <2>3. Rank(m + q, Q) = c + q
    BY <1>1, <1>6, <2>1 DEF Rank
  <2> QED
    BY <1>4, <2>2, <2>3
<1>10. x = y \o b
  <2>1. /\ y \o b \in Seq(set) /\ Len(y \o b) = c + k
        /\ \A i \in 1..c : (y \o b)[i] = y[i]
        /\ \A i \in c + 1..c + k : (y \o b)[i] = b[i - c]
    BY <1>3 DEF k
  <2>2. \A i \in c + 1..c + k : i - c \in 1..k /\ c + (i - c) = i
    BY <1>1, <1>3
  <2>3. \A i \in c + 1..c + k : x[i] = b[i - c]
    BY <1>9, <2>2
  <2>4. \A i \in 1..c + k : x[i] = (y \o b)[i]
    <3>1. \A i \in 1..c + k : i \in 1..c \/ i \in c + 1..c + k
      BY <1>1, <1>3
    <3> QED
      BY <1>8, <2>1, <2>3, <3>1
  <2> QED
    BY <1>4, <1>7, <2>1, <2>4
<1> QED
  BY <1>10 DEF x, y, list

LEMMA KeptWhole ==
    ASSUME NEW set, NEW b \in Seq(set)
    PROVE  Kept(b, set) = b
<1>1. Kept(<<>>, set) = <<>>
  BY FS_EmptySet DEF Kept, Places
<1>2. <<>> \o b = b
  OBVIOUS
<1>3. Kept(<<>> \o b, set) = Kept(<<>>, set) \o b
  <2>1. <<>> \in Seq(set)
    OBVIOUS
  <2> QED
    BY <2>1, KeptBefore
<1> QED
  BY <1>1, <1>2, <1>3

=============================================================================

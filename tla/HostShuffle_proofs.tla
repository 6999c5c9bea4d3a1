------------------------- MODULE HostShuffle_proofs -------------------------
(***************************************************************************)
(* Proofs about HostShuffle, for any patterns, any body and any order that *)
(* the shuffle draws: no host is lost or doubled, groups keep their        *)
(* positions, lists keep their members and the places of what is no host   *)
(* of a group, and a list in the order of the hosts stays so.              *)
(***************************************************************************)
EXTENDS HostShuffle, SetLemmas

-----------------------------------------------------------------------------
(* The invariant                                                           *)

Body == DOMAIN sent.hosts

Shape ==
    /\ sent.hosts \in Seq(Host)
    /\ \A i, j \in Body : sent.hosts[i].id = sent.hosts[j].id => i = j
    /\ sent.lists \in Seq(Seq(Member))
    /\ groups \in Seq(SUBSET Name)
    /\ \E S : lists \in Seq(S)
    /\ DOMAIN lists = DOMAIN sent.lists
    /\ at \in Nat \ {0}

\* Slots are exchanged one for one, and within groups only.
PermOK ==
    /\ perm \in Bijection(Body, Body)
    /\ \A i \in Body :
          /\ GroupAt(sent.hosts, perm[i]) = GroupAt(sent.hosts, i)
          /\ GroupAt(sent.hosts, i) = 0 => perm[i] = i

\* The hosts are the ones sent, in the old order or the new one.
HostsOK ==
    /\ pc \in {"sniff", "groups"} => hosts = sent.hosts
    /\ \/ hosts = sent.hosts
       \/ hosts = [i \in Body |-> sent.hosts[perm[i]]]

\* A list is put in order once.
ListsOK ==
    /\ pc \in {"sniff", "groups"} => lists = sent.lists
    /\ pc = "lists" =>
          \A k \in DOMAIN lists : k >= at => lists[k] = sent.lists[k]
    /\ OthersStayInLists

IInv == Shape /\ PermOK /\ HostsOK /\ ListsOK

-----------------------------------------------------------------------------
(* Lemmas                                                                  *)

\* Which group a host is in depends on what was given only.
LEMMA GroupStays ==
    ASSUME UNCHANGED <<groups, format>>, NEW hs, NEW i
    PROVE  GroupAt(hs, i)' = GroupAt(hs', i) /\ NameOf(hs[i])' = NameOf(hs'[i])
BY DEF GroupAt, Group, Matching, NameOf

LEMMA Initially == ConstantsAssumption /\ Init => IInv
<1> SUFFICES ASSUME ConstantsAssumption, Init
             PROVE  IInv
  OBVIOUS
<1>1. Shape
  BY DEF Init, ConstantsAssumption, Shape, Body
<1>2. PermOK
  BY DEF Init, PermOK, Body, Bijection, Injection, Surjection, IsInjective
<1>3. HostsOK
  BY DEF Init, HostsOK
<1>4. ListsOK
  BY DEF Init, ListsOK, OthersStayInLists
<1> QED
  BY <1>1, <1>2, <1>3, <1>4 DEF IInv

-----------------------------------------------------------------------------
(* The slots                                                               *)

\* One group's exchange leaves the slots exchanged one for one.
LEMMA ShuffleKeepsPerm ==
    ASSUME Shape, PermOK, hosts = sent.hosts, ShuffleGroup
    PROVE  PermOK'
<1>1. PICK order \in Orders(Slots(at)) :
         perm' = [i \in DOMAIN perm |->
                     IF i \in DOMAIN order THEN order[i] ELSE perm[i]]
  BY DEF ShuffleGroup
<1>2. Body' = Body /\ sent' = sent /\ UNCHANGED <<groups, format>>
  BY DEF ShuffleGroup, given, Body
<1> DEFINE S == Slots(at)
           G(i) == GroupAt(sent.hosts, i)
<1>3. S = {i \in Body : G(i) = at}
  BY DEF Slots, Body
<1>4. perm \in [Body -> Body] /\ \A i, j \in Body : perm[i] = perm[j] => i = j
  BY DEF PermOK, Bijection, Injection, IsInjective
<1>5. \A j \in Body : \E i \in Body : perm[i] = j
  BY DEF PermOK, Bijection, Surjection
<1>6. order \in [S -> S] /\ \A i, j \in S : order[i] = order[j] => i = j
  BY <1>1 DEF Orders, Bijection, Injection, IsInjective
<1>7. \A j \in S : \E i \in S : order[i] = j
  BY <1>1 DEF Orders, Bijection, Surjection
<1>8. \A i \in Body : G(perm[i]) = G(i) /\ (G(i) = 0 => perm[i] = i)
  BY DEF PermOK
<1> HIDE DEF S, G
<1>9. perm' = [i \in Body |-> IF i \in S THEN order[i] ELSE perm[i]]
  BY <1>1, <1>4, <1>6
<1>10. perm' \in [Body -> Body]
  BY <1>3, <1>4, <1>6, <1>9
<1>11. \A i, j \in Body : perm'[i] = perm'[j] => i = j
  BY <1>3, <1>4, <1>6, <1>8, <1>9
<1>12. \A j \in Body : \E i \in Body : perm'[i] = j
  <2> TAKE j \in Body
  <2>1. CASE j \in S
    BY <2>1, <1>3, <1>7, <1>9
  <2>2. CASE j \notin S
    BY <2>2, <1>3, <1>5, <1>8, <1>9
  <2> QED
    BY <2>1, <2>2
<1>13. \A i \in Body : G(perm'[i]) = G(i) /\ (G(i) = 0 => perm'[i] = i)
  BY <1>3, <1>6, <1>8, <1>9 DEF Shape
<1>14. \A i : G(i)' = G(i)
  BY <1>2, GroupStays DEF G
<1>15. perm' \in Bijection(Body, Body)
  BY <1>10, <1>11, <1>12
     DEF Bijection, Injection, Surjection, IsInjective
<1> QED
  BY <1>2, <1>13, <1>14, <1>15, GroupStays DEF PermOK, G

\* The hosts, in either order, are the ones that came.
LEMMA HostsAreSent ==
    ASSUME Shape, PermOK, HostsOK
    PROVE  /\ DOMAIN hosts = Body
           /\ \A i \in Body : \E j \in Body : hosts[i] = sent.hosts[j]
<1>1. perm \in [Body -> Body]
  BY DEF PermOK, Bijection, Injection
<1> QED
  BY <1>1 DEF HostsOK, Body

LEMMA NoneLost ==
    ASSUME Shape, PermOK, HostsOK
    PROVE  NoHostLost
<1>1. /\ perm \in [Body -> Body]
      /\ \A i, j \in Body : perm[i] = perm[j] => i = j
      /\ \A j \in Body : \E i \in Body : perm[i] = j
  BY DEF PermOK, Bijection, Injection, Surjection, IsInjective
<1>2. \A i, j \in Body : sent.hosts[i] = sent.hosts[j] => i = j
  BY DEF Shape
<1>3. CASE hosts = sent.hosts
  BY <1>2, <1>3 DEF NoHostLost, Body
<1>4. CASE hosts = [i \in Body |-> sent.hosts[perm[i]]]
  <2>1. DOMAIN hosts = Body /\ \A i \in Body : hosts[i] = sent.hosts[perm[i]]
    BY <1>4
  <2>2. \A i \in Body : \E j \in Body : hosts[j] = sent.hosts[i]
    BY <1>1, <2>1
  <2>3. \A i, j \in Body : hosts[i] = hosts[j] => i = j
    BY <1>1, <1>2, <2>1
  <2> QED
    BY <2>1, <2>2, <2>3 DEF NoHostLost, Body
<1> QED
  BY <1>3, <1>4 DEF HostsOK

LEMMA LayoutIsKept ==
    ASSUME Shape, PermOK, HostsOK
    PROVE  LayoutKept
<1>1. \A hs, i, gs, j : hs[i] = gs[j] => GroupAt(hs, i) = GroupAt(gs, j)
  BY DEF GroupAt
<1>2. CASE hosts = sent.hosts
  BY <1>2 DEF LayoutKept
<1>3. CASE hosts = [i \in Body |-> sent.hosts[perm[i]]]
  BY <1>1, <1>3 DEF LayoutKept, PermOK, Body
<1> QED
  BY <1>2, <1>3 DEF HostsOK

-----------------------------------------------------------------------------
(* Sorting                                                                 *)

\* A name in the index has a place among the hosts.
LEMMA IndexIsPlace ==
    ASSUME Shape, DOMAIN hosts = Body, NEW n \in Indexed
    PROVE  NewIndex(n) \in DOMAIN hosts /\ NameOf(hosts[NewIndex(n)]) = n
<1> DEFINE S == {i \in DOMAIN hosts : NameOf(hosts[i]) = n}
<1>1. S \subseteq 1..Len(sent.hosts) /\ S # {} /\ Len(sent.hosts) \in Nat
  BY DEF Indexed, Shape, Body
<1>2. PICK m \in S : \A k \in S : k <= m
  <2> HIDE DEF S
  <2> QED
    BY <1>1, LastIndex
<1> QED
  BY <1>2 DEF NewIndex

LEMMA BeforeIsOrder ==
    ASSUME Shape, DOMAIN hosts = Body, NEW names, DOMAIN names \subseteq Nat,
           NEW i \in Movable(names), NEW j \in Movable(names),
           NEW k \in Movable(names)
    PROVE  /\ ~Before(names, i, i)
           /\ Before(names, i, j) /\ Before(names, j, k) => Before(names, i, k)
           /\ i # j => Before(names, i, j) \/ Before(names, j, i)
<1>1. \A l \in Movable(names) : l \in Nat /\ NewIndex(names[l]) \in Nat
  BY IndexIsPlace DEF Movable, Shape, Body
<1> QED
  BY <1>1 DEF Before

\* At each place of the order is the slot that has as many before it.
LEMMA PickedNumbers ==
    ASSUME Shape, DOMAIN hosts = Body, NEW names, NEW n \in Nat,
           DOMAIN names = 1..n, NEW r \in 1..Cardinality(Movable(names))
    PROVE  LET before == {i \in Movable(names) :
                             Before(names, i, Picked(names)[r])}
           IN  /\ Picked(names)[r] \in Movable(names)
               /\ Cardinality(before) = r - 1
<1> DEFINE M == Movable(names)
           R == {p \in M \X M : Before(names, p[1], p[2])}
           f == Numbers(M, R)
           C(x) == Cardinality({i \in M : Before(names, i, x)})
<1>1. IsFiniteSet(M)
  <2>1. M \subseteq 1..n
    BY DEF Movable
  <2> QED
    BY <2>1, RankNumbers
<1>2. f \in Bijection(M, 1..Cardinality(M))
  <2>1. /\ \A x \in M : <<x, x>> \notin R
        /\ \A x, y, z \in M : <<x, y>> \in R /\ <<y, z>> \in R => <<x, z>> \in R
        /\ \A x, y \in M : x # y => <<x, y>> \in R \/ <<y, x>> \in R
    BY BeforeIsOrder
  <2> HIDE DEF R, M
  <2> QED
    BY <1>1, <2>1, Numbering
<1>3. \A x \in M : f[x] = C(x) + 1
  <2>1. \A x \in M : Below(M, R, x) = {i \in M : Before(names, i, x)}
    BY DEF Below
  <2> QED
    BY <2>1 DEF Numbers
<1>4. \A x \in M : C(x) \in Nat
  BY <1>1, FS_Subset, FS_CardinalityType
<1> HIDE DEF f
<1>5. PICK x \in M : f[x] = r
  BY <1>2 DEF Bijection, Surjection
<1>6. C(x) = r - 1
  BY <1>3, <1>4, <1>5
<1>7. Picked(names)[r] = CHOOSE j \in M : C(j) = r - 1
  BY DEF Picked
<1> HIDE DEF M, C
<1>8. Picked(names)[r] \in M /\ C(Picked(names)[r]) = r - 1
  BY <1>5, <1>6, <1>7
<1> QED
  BY <1>8 DEF M, C

\* reorderNames permutes the members it moves.
LEMMA ReorderingPermutes ==
    ASSUME Shape, DOMAIN hosts = Body, NEW names, NEW n \in Nat,
           DOMAIN names = 1..n
    PROVE  \E f \in Bijection(1..n, 1..n) :
              /\ \A i \in 1..n : Reordered(names)[i] = names[f[i]]
              /\ \A i \in 1..n : i \notin Movable(names) => f[i] = i
<1> DEFINE M == Movable(names)
           f == [i \in 1..n |->
                    IF i \in M THEN Picked(names)[Rank(i, M)] ELSE i]
<1>1. M \subseteq 1..n
  BY DEF Movable
<1>2. /\ \A i \in M : Rank(i, M) \in 1..Cardinality(M)
      /\ \A i, j \in M : Rank(i, M) = Rank(j, M) => i = j
      /\ Cardinality(M) \in Nat
  BY <1>1, RankNumbers
<1>3. \A i \in M : f[i] \in M /\ Rank(i, M)
                 = Cardinality({k \in M : Before(names, k, f[i])}) + 1
  <2> SUFFICES ASSUME NEW i \in M
               PROVE  f[i] \in M /\ Rank(i, M)
                 = Cardinality({k \in M : Before(names, k, f[i])}) + 1
    OBVIOUS
  <2> DEFINE r == Rank(i, M)
  <2>1. f[i] = Picked(names)[r] /\ r \in 1..Cardinality(M)
    BY <1>1, <1>2
  <2>2. /\ Picked(names)[r] \in M
        /\ Cardinality({k \in M : Before(names, k, Picked(names)[r])}) = r - 1
    BY <2>1, PickedNumbers
  <2> HIDE DEF f, M, r
  <2>3. r = Cardinality({k \in M : Before(names, k, f[i])}) + 1
    BY <1>2, <2>1, <2>2
  <2> QED
    BY <2>1, <2>2, <2>3 DEF r
<1>4. \A i \in 1..n : i \notin M => f[i] = i
  OBVIOUS
<1>5. f \in [1..n -> 1..n]
  BY <1>1, <1>3
<1>6. f \in Injection(1..n, 1..n)
  <2>1. ASSUME NEW i \in 1..n, NEW j \in 1..n, f[i] = f[j] PROVE i = j
    <3> HIDE DEF f, M
    <3>1. CASE i \in M /\ j \in M
      BY <1>2, <1>3, <2>1, <3>1
    <3>2. CASE i \in M /\ j \notin M
      BY <1>3, <1>4, <2>1, <3>2
    <3>3. CASE i \notin M /\ j \in M
      BY <1>3, <1>4, <2>1, <3>3
    <3>4. CASE i \notin M /\ j \notin M
      BY <1>4, <2>1, <3>4
    <3> QED
      BY <3>1, <3>2, <3>3, <3>4
  <2> QED
    BY <1>5, <2>1 DEF Injection, IsInjective
<1> HIDE DEF f
<1>7. f \in Bijection(1..n, 1..n)
  BY <1>6, FS_Injection, FS_Interval DEF Bijection
<1>8. \A i \in 1..n : Reordered(names)[i] = names[f[i]]
  BY <1>1 DEF Reordered, f
<1> QED
  BY <1>4, <1>7, <1>8

-----------------------------------------------------------------------------
(* The lists                                                               *)

\* What is no host of a group is at the same place of a list that followed.
LEMMA FollowedKeepsOthers ==
    ASSUME Shape, PermOK, HostsOK,
           NEW list \in Seq(Member), NEW i \in DOMAIN list,
           ~list[i].alias, list[i].value # Nameless,
           \A j \in Body :
               NameOf(sent.hosts[j]) = list[i].value =>
                   GroupAt(sent.hosts, j) = 0
    PROVE  Followed(list)[i] = list[i]
<1> DEFINE n == list[i].value
           names == Reordered(Named(list))
           IsLast(k) == /\ k \in DOMAIN list
                      /\ MemberName(list[k]) = n
                      /\ \A l \in DOMAIN list :
                            MemberName(list[l]) = n => l <= k
<1>1. n \notin Indexed
  <2> SUFFICES ASSUME NEW k \in DOMAIN hosts, NameOf(hosts[k]) = n
               PROVE  GroupAt(hosts, k) = 0
    BY DEF Indexed
  <2>1. PICK j \in Body : hosts[k] = sent.hosts[j]
    BY HostsAreSent
  <2> QED
    BY <2>1 DEF GroupAt
<1>2. Named(list)[i] = n /\ DOMAIN Named(list) = DOMAIN list
  BY DEF Named, MemberName
<1>3. names[i] = n
  BY <1>1, <1>2 DEF Reordered, Movable
<1>4. \E k : IsLast(k)
  <2> DEFINE S == {k \in DOMAIN list : MemberName(list[k]) = n}
  <2>1. S \subseteq 1..Len(list) /\ i \in S /\ Len(list) \in Nat
    BY DEF MemberName
  <2>2. PICK m \in S : \A k \in S : k <= m
    <3> HIDE DEF S
    <3> QED
      BY <2>1, LastIndex
  <2> QED
    BY <2>2
<1>5. ByName(list, n) = list[i]
  <2> DEFINE c == CHOOSE k \in DOMAIN list :
                      /\ MemberName(list[k]) = n
                      /\ \A l \in DOMAIN list :
                            MemberName(list[l]) = n => l <= k
  <2>1. c \in DOMAIN list /\ MemberName(list[c]) = n
    BY <1>4
  <2>2. ByName(list, n) = list[c]
    BY DEF ByName
  <2> HIDE DEF c
  <2>3. list[c].value = n /\ ~list[c].alias
    BY <2>1 DEF MemberName
  <2>4. list[c] \in Member /\ list[i] \in Member
    BY <2>1
  <2>5. list[c] = list[i]
    BY <2>3, <2>4 DEF Member
  <2> QED
    BY <2>2, <2>5
<1> QED
  BY <1>2, <1>3, <1>5 DEF Followed

\* byName finds a member of every name that a member has.
LEMMA ByNameFinds ==
    ASSUME NEW list \in Seq(Member), NEW k \in DOMAIN list
    PROVE  \E c \in DOMAIN list :
              /\ ByName(list, MemberName(list[k])) = list[c]
              /\ MemberName(list[c]) = MemberName(list[k])
<1> DEFINE n == MemberName(list[k])
           S == {i \in DOMAIN list : MemberName(list[i]) = n}
           c == CHOOSE i \in DOMAIN list :
                    /\ MemberName(list[i]) = n
                    /\ \A l \in DOMAIN list : MemberName(list[l]) = n => l <= i
<1>1. S \subseteq 1..Len(list) /\ k \in S /\ Len(list) \in Nat
  OBVIOUS
<1>2. PICK m \in S : \A i \in S : i <= m
  <2> HIDE DEF S
  <2> QED
    BY <1>1, LastIndex
<1>3. c \in DOMAIN list /\ MemberName(list[c]) = n
  BY <1>2
<1>4. ByName(list, n) = list[c]
  BY DEF ByName
<1> QED
  BY <1>3, <1>4

LEMMA AtMostOne ==
    ASSUME NEW S, IsFiniteSet(S), Cardinality(S) <= 1, NEW x \in S, NEW y \in S
    PROVE  x = y
<1> SUFFICES ASSUME x # y PROVE FALSE
  OBVIOUS
<1>1. IsFiniteSet({x}) /\ Cardinality({x}) = 1
  BY FS_Singleton
<1>2. {x} \subseteq S /\ {x} # S
  OBVIOUS
<1>3. Cardinality({x}) <= Cardinality(S) /\ Cardinality(S) # Cardinality({x})
  BY <1>2, FS_Subset
<1>4. Cardinality(S) \in Nat
  BY FS_CardinalityType
<1> QED
  BY <1>1, <1>3, <1>4

\* What a permutation of the indices reads is there as often as before.
LEMMA PermutedCount ==
    ASSUME NEW n \in Nat, NEW f \in Bijection(1..n, 1..n),
           NEW before, NEW after,
           DOMAIN before = 1..n, DOMAIN after = 1..n,
           \A i \in 1..n : after[i].value = before[f[i]].value, NEW v
    PROVE  Count(after, v) = Count(before, v)
<1> DEFINE S == {i \in 1..n : after[i].value = v}
           T == {i \in 1..n : before[i].value = v}
           g == [i \in S |-> f[i]]
<1>1. /\ f \in [1..n -> 1..n] /\ \A i, j \in 1..n : f[i] = f[j] => i = j
      /\ \A j \in 1..n : \E i \in 1..n : f[i] = j
  BY DEF Bijection, Injection, Surjection, IsInjective
<1>2. g \in [S -> T] /\ \A i, j \in S : g[i] = g[j] => i = j
  BY <1>1
<1>3. ASSUME NEW j \in T PROVE \E i \in S : g[i] = j
  <2>1. PICK i \in 1..n : f[i] = j
    BY <1>1
  <2>2. i \in S
    BY <2>1
  <2> QED
    BY <2>1, <2>2
<1>4. g \in Bijection(S, T)
  BY <1>2, <1>3 DEF Bijection, Injection, Surjection, IsInjective
<1>5. IsFiniteSet(S)
  <2>1. S \subseteq 1..n /\ IsFiniteSet(1..n)
    BY FS_Interval
  <2> HIDE DEF S
  <2> QED
    BY <2>1, FS_Subset
<1>6. Cardinality(T) = Cardinality(S)
  <2> HIDE DEF S, T, g
  <2> QED
    BY <1>4, <1>5, FS_Bijection DEF ExistsBijection
<1> QED
  BY <1>6 DEF Count

\* A list that followed has members of the list only, and if at most one has no
\* name of its own, each of them as often.
LEMMA FollowedKeepsMembers ==
    ASSUME Shape, DOMAIN hosts = Body, NEW list \in Seq(Member)
    PROVE  /\ Followed(list) \in Seq(Member)
           /\ Cardinality(Aliases(list)) <= 1 =>
                 \A v : Count(Followed(list), v) = Count(list, v)
<1> DEFINE n == Len(list)
           names == Reordered(Named(list))
           after == Followed(list)
<1>1. /\ n \in Nat /\ DOMAIN list = 1..n /\ DOMAIN Named(list) = 1..n
      /\ \A i \in 1..n : list[i] \in Member
      /\ \A i \in 1..n : Named(list)[i] = MemberName(list[i])
  BY DEF Named
<1>2. CASE names = Named(list)
  BY <1>2 DEF Followed
<1>3. CASE names # Named(list)
  <2>1. after = [i \in 1..n |-> ByName(list, names[i])]
    BY <1>1, <1>3 DEF Followed
  <2>2. PICK f \in Bijection(1..n, 1..n) :
            \A i \in 1..n : names[i] = Named(list)[f[i]]
    <3> HIDE DEF n
    <3> QED
      BY <1>1, ReorderingPermutes
  <2>3. \A i \in 1..n : f[i] \in 1..n
    BY <2>2 DEF Bijection, Injection
  <2>4. ASSUME NEW i \in 1..n
        PROVE  \E c \in 1..n : /\ after[i] = list[c]
                               /\ MemberName(list[c]) = MemberName(list[f[i]])
    <3>1. after[i] = ByName(list, MemberName(list[f[i]]))
      BY <1>1, <2>1, <2>2, <2>3
    <3>2. f[i] \in DOMAIN list
      BY <1>1, <2>3
    <3>3. PICK c \in DOMAIN list :
              /\ ByName(list, MemberName(list[f[i]])) = list[c]
              /\ MemberName(list[c]) = MemberName(list[f[i]])
      BY <3>2, ByNameFinds
    <3> QED
      BY <1>1, <3>1, <3>3
  <2>5. after \in Seq(Member)
    <3>1. \A i \in 1..n : after[i] \in Member
      BY <1>1, <2>4
    <3>2. after \in [1..n -> Member]
      BY <2>1, <3>1
    <3> QED
      BY <1>1, <3>2
  <2>6. ASSUME Cardinality(Aliases(list)) <= 1, NEW i \in 1..n
        PROVE  after[i].value = list[f[i]].value
    <3>1. PICK c \in 1..n : /\ after[i] = list[c]
                            /\ MemberName(list[c]) = MemberName(list[f[i]])
      BY <2>4
    <3>2. CASE MemberName(list[f[i]]) # Nameless
      BY <3>1, <3>2 DEF MemberName
    <3>3. CASE MemberName(list[f[i]]) = Nameless
      <4>1. c \in Aliases(list) /\ f[i] \in Aliases(list)
        BY <1>1, <2>3, <3>1, <3>3 DEF Aliases
      <4>2. IsFiniteSet(Aliases(list))
        <5>1. Aliases(list) \subseteq 1..n /\ IsFiniteSet(1..n)
          BY <1>1, FS_Interval DEF Aliases
        <5> QED
          BY <5>1, FS_Subset
      <4>3. c = f[i]
        BY <2>6, <4>1, <4>2, AtMostOne
      <4> QED
        BY <3>1, <4>3
    <3> QED
      BY <3>2, <3>3
  <2>7. ASSUME Cardinality(Aliases(list)) <= 1, NEW v
        PROVE  Count(after, v) = Count(list, v)
    <3>1. \A i \in 1..n : after[i].value = list[f[i]].value
      BY <2>6, <2>7
    <3>2. DOMAIN after = 1..n
      BY <2>1
    <3>3. n \in Nat /\ DOMAIN list = 1..n
      BY <1>1
    <3> HIDE DEF n, after, names
    <3> QED
      BY <3>1, <3>2, <3>3, PermutedCount
  <2> QED
    BY <2>5, <2>7
<1> QED
  BY <1>2, <1>3

-----------------------------------------------------------------------------
(* The steps                                                               *)

\* What an invariant says of what was sent stays, with what it speaks of.
LEMMA GivenStays ==
    ASSUME UNCHANGED given
    PROVE  /\ Body' = Body
           /\ UNCHANGED perm => (PermOK' <=> PermOK)
           /\ UNCHANGED lists => (OthersStayInLists' <=> OthersStayInLists)
           /\ \A i : NameOf(sent.hosts[i])' = NameOf(sent.hosts[i])
           /\ \A i : GroupAt(sent.hosts, i)' = GroupAt(sent.hosts, i)
<1> USE DEF given
<1>1. Body' = Body
  BY DEF Body
<1>2. \A i : NameOf(sent.hosts[i])' = NameOf(sent.hosts[i])
  BY DEF NameOf
<1>3. \A i : GroupAt(sent.hosts, i)' = GroupAt(sent.hosts, i)
  BY DEF GroupAt, Group, Matching, NameOf
<1>4. UNCHANGED perm => (PermOK' <=> PermOK)
  BY <1>1, <1>3 DEF PermOK
<1>5. UNCHANGED lists => (OthersStayInLists' <=> OthersStayInLists)
  BY <1>2, <1>3 DEF OthersStayInLists
<1> QED
  BY <1>1, <1>2, <1>3, <1>4, <1>5

LEMMA SniffStep == IInv /\ Sniff => IInv'
<1> SUFFICES ASSUME IInv, Sniff
             PROVE  IInv'
  OBVIOUS
<1> USE DEF Sniff, IInv
<1>1. Shape'
  BY DEF Shape, given, Body
<1>2. PermOK'
  BY GivenStays
<1>3. HostsOK'
  BY GivenStays DEF HostsOK, given
<1>4. ListsOK'
  BY GivenStays DEF ListsOK, given
<1> QED
  BY <1>1, <1>2, <1>3, <1>4

LEMMA ShuffleStep == IInv /\ ShuffleGroup => IInv'
<1> SUFFICES ASSUME IInv, ShuffleGroup
             PROVE  IInv'
  OBVIOUS
<1> USE DEF IInv
<1>1. hosts = sent.hosts
  BY DEF ShuffleGroup, HostsOK
<1>2. Shape'
  BY DEF ShuffleGroup, Shape, given, Body
<1>3. PermOK'
  BY <1>1, ShuffleKeepsPerm
<1>4. HostsOK'
  BY <1>1 DEF ShuffleGroup, HostsOK, given
<1>5. ListsOK'
  BY GivenStays DEF ShuffleGroup, ListsOK, given
<1> QED
  BY <1>2, <1>3, <1>4, <1>5

LEMMA PlaceStep == IInv /\ Place => IInv'
<1> SUFFICES ASSUME IInv, Place
             PROVE  IInv'
  OBVIOUS
<1> USE DEF Place, IInv
<1>1. hosts = sent.hosts
  BY DEF HostsOK
<1>2. Shape'
  BY DEF Shape, given, Body
<1>3. PermOK'
  BY GivenStays
<1>4. HostsOK'
  BY <1>1, GivenStays DEF HostsOK, given, Body
<1>5. ListsOK'
  BY GivenStays DEF ListsOK, given
<1> QED
  BY <1>2, <1>3, <1>4, <1>5

LEMMA FollowStep == IInv /\ FollowList => IInv'
<1> SUFFICES ASSUME IInv, FollowList
             PROVE  IInv'
  OBVIOUS
<1> USE DEF FollowList, IInv
<1>1. PICK S : lists \in Seq(S)
  BY DEF Shape
<1>2. at \in 1..Len(lists) /\ at \in DOMAIN lists /\ at \in DOMAIN sent.lists
  BY <1>1 DEF Shape
<1>3. lists[at] = sent.lists[at]
  BY <1>2 DEF ListsOK
<1>4. Shape'
  <2>1. lists' \in Seq(S \cup {Followed(lists[at])})
    <3> DEFINE T == S \cup {Followed(lists[at])}
    <3>1. lists \in Seq(T) /\ Followed(lists[at]) \in T
      BY <1>1
    <3> HIDE DEF T
    <3>2. [lists EXCEPT ![at] = Followed(lists[at])] \in Seq(T)
      BY <3>1, <1>2
    <3> QED
      BY <3>2 DEF T
  <2>2. DOMAIN lists' = DOMAIN lists
    BY <1>1
  <2> QED
    BY <2>1, <2>2 DEF Shape, given, Body
<1>5. PermOK'
  BY GivenStays
<1>6. HostsOK'
  BY GivenStays DEF HostsOK, given
<1>7. OthersStayInLists'
  <2> DEFINE IsShuffled(m) ==
                 \E j \in Body :
                     /\ NameOf(sent.hosts[j]) = m.value
                     /\ GroupAt(sent.hosts, j) # 0
             Unmoved(ls) ==
                 \A k \in DOMAIN sent.lists : \A i \in DOMAIN sent.lists[k] :
                     LET m == sent.lists[k][i]
                     IN  ~m.alias /\ m.value # Nameless /\ ~IsShuffled(m) =>
                             ls[k][i] = m
  <2>1. Unmoved(lists)
    BY DEF ListsOK, OthersStayInLists, Body
  <2>2. SUFFICES Unmoved(lists')
    <3>1. UNCHANGED <<groups, format, sent>>
      BY DEF given
    <3> QED
      BY <3>1 DEF OthersStayInLists, Body, GroupAt, Group, Matching, NameOf
  <2>3. SUFFICES ASSUME NEW k \in DOMAIN sent.lists,
                        NEW i \in DOMAIN sent.lists[k],
                        ~sent.lists[k][i].alias,
                        sent.lists[k][i].value # Nameless,
                        ~IsShuffled(sent.lists[k][i])
                 PROVE  lists'[k][i] = sent.lists[k][i]
    OBVIOUS
  <2>4. CASE k = at
    <3>1. lists'[k] = Followed(sent.lists[k])
      BY <1>1, <1>2, <1>3, <2>4
    <3>2. sent.lists[k] \in Seq(Member)
      BY DEF Shape
    <3>3. Followed(sent.lists[k])[i] = sent.lists[k][i]
      BY <2>3, <3>2, FollowedKeepsOthers
    <3> QED
      BY <3>1, <3>3
  <2>5. CASE k # at
    BY <2>1, <2>3, <2>5, <1>1
  <2> QED
    BY <2>4, <2>5
<1>8. ListsOK'
  <2>1. \A k \in DOMAIN lists' : k >= at' => lists'[k] = sent'.lists[k]
    <3> SUFFICES ASSUME NEW k \in DOMAIN lists, k >= at + 1
                 PROVE  lists'[k] = sent.lists[k]
      BY <1>1 DEF given
    <3>1. k # at /\ k >= at
      BY <1>1, <1>2
    <3> QED
      BY <3>1, <1>1 DEF ListsOK
  <2> QED
    BY <1>7, <2>1 DEF ListsOK
<1> QED
  BY <1>4, <1>5, <1>6, <1>8

LEMMA EncodeStep == IInv /\ Encode => IInv'
<1> SUFFICES ASSUME IInv, Encode
             PROVE  IInv'
  OBVIOUS
<1> USE DEF Encode, IInv
<1>1. Shape'
  BY DEF Shape, given, Body
<1>2. PermOK'
  BY GivenStays
<1>3. HostsOK'
  BY GivenStays DEF HostsOK, given
<1>4. ListsOK'
  BY GivenStays DEF ListsOK, given
<1> QED
  BY <1>1, <1>2, <1>3, <1>4

LEMMA Inductive == IInv /\ [Next]_vars => IInv'
<1>1. IInv /\ UNCHANGED vars => IInv'
  <2> SUFFICES ASSUME IInv, UNCHANGED vars
               PROVE  IInv'
    OBVIOUS
  <2> USE DEF vars, IInv
  <2>1. UNCHANGED given
    BY DEF given
  <2>2. Shape' /\ PermOK' /\ HostsOK' /\ ListsOK'
    BY <2>1, GivenStays DEF Shape, HostsOK, ListsOK, given, Body
  <2> QED
    BY <2>2
<1> QED
  BY <1>1, SniffStep, ShuffleStep, PlaceStep, FollowStep, EncodeStep DEF Next

-----------------------------------------------------------------------------
(* The theorems                                                            *)

LEMMA Invariant == Spec => []IInv
BY Initially, Inductive, ConstantsAssumption, PTL DEF Spec

\* permutation and the four formats: every host that came is served, once,
\* whatever the shuffle draws.
THEOREM HostsAreKept == Spec => []NoHostLost
<1>1. IInv => NoHostLost
  BY NoneLost DEF IInv
<1> QED
  BY <1>1, Invariant, PTL

\* A group keeps its positions and what is in no group stays where it was,
\* however the patterns overlap.
THEOREM PositionsAreKept == Spec => []LayoutKept
<1>1. IInv => LayoutKept
  BY LayoutIsKept DEF IInv
<1> QED
  BY <1>1, Invariant, PTL

\* reorderNames: what is no host of a group keeps its position in every list.
THEOREM OthersAreKept == Spec => []OthersStayInLists
<1>1. IInv => OthersStayInLists
  BY DEF IInv, ListsOK
<1> QED
  BY <1>1, Invariant, PTL

-----------------------------------------------------------------------------
(* Members                                                                 *)

\* The lists have members only, the ones they came with.
MembersOK ==
    /\ lists \in Seq(Seq(Member))
    /\ ListsKeepMembers
    /\ pc \in {"sniff", "groups", "place", "lists", "done"}

LEMMA MembersInitially == ConstantsAssumption /\ Init => MembersOK
BY DEF Init, ConstantsAssumption, MembersOK, ListsKeepMembers

LEMMA MembersStep == IInv /\ MembersOK /\ [Next]_vars => MembersOK'
<1> SUFFICES ASSUME IInv, MembersOK, [Next]_vars
             PROVE  MembersOK'
  OBVIOUS
<1>1. CASE FollowList
  <2>1. /\ at \in DOMAIN lists /\ sent' = sent /\ pc' = pc
        /\ lists' = [lists EXCEPT ![at] = Followed(lists[at])]
    BY <1>1 DEF FollowList, given, MembersOK, IInv, Shape
  <2>2. lists[at] = sent.lists[at] /\ lists[at] \in Seq(Member)
    <3>1. pc = "lists" /\ at >= at
      BY <1>1 DEF FollowList, IInv, Shape
    <3>2. lists[at] = sent.lists[at]
      BY <2>1, <3>1 DEF IInv, ListsOK
    <3> QED
      BY <2>1, <3>2 DEF MembersOK
  <2>3. DOMAIN hosts = Body
    BY HostsAreSent DEF IInv
  <2>4. /\ Followed(lists[at]) \in Seq(Member)
        /\ Cardinality(Aliases(lists[at])) <= 1 =>
              \A v : Count(Followed(lists[at]), v) = Count(lists[at], v)
    BY <2>2, <2>3, FollowedKeepsMembers DEF IInv
  <2>5. lists' \in Seq(Seq(Member))
    BY <2>1, <2>4 DEF MembersOK
  <2>6. ListsKeepMembers'
    <3> SUFFICES ASSUME NEW k \in DOMAIN lists,
                        Cardinality(Aliases(sent.lists[k])) <= 1, NEW v \in Name
                 PROVE  Count(lists'[k], v) = Count(sent.lists[k], v)
      <4>1. DOMAIN lists' = DOMAIN lists
        BY <2>1
      <4> QED
        BY <2>1, <4>1 DEF ListsKeepMembers, Aliases, MemberName, Count
    <3>1. CASE k = at
      <4>1. lists'[k] = Followed(lists[at])
        BY <2>1, <3>1
      <4> QED
        BY <2>2, <2>4, <3>1, <4>1
    <3>2. CASE k # at
      <4>1. lists'[k] = lists[k]
        BY <2>1, <3>2
      <4> QED
        BY <4>1 DEF MembersOK, ListsKeepMembers
    <3> QED
      BY <3>1, <3>2
  <2> QED
    BY <2>1, <2>5, <2>6 DEF MembersOK
<1>2. CASE ~FollowList
  <2>1. /\ lists' = lists /\ sent' = sent
        /\ pc' \in {"sniff", "groups", "place", "lists", "done"}
    BY <1>2 DEF Next, Sniff, ShuffleGroup, Place, Encode, vars, given, MembersOK
  <2> QED
    BY <2>1 DEF MembersOK, ListsKeepMembers, Aliases, MemberName, Count
<1> QED
  BY <1>1, <1>2

\* What the invariants say of the hosts is what TypeOK asks of them.
LEMMA Typed == IInv /\ MembersOK => TypeOK
<1> SUFFICES ASSUME IInv, MembersOK
             PROVE  TypeOK
  OBVIOUS
<1>1. perm \in [Body -> Body]
  BY DEF IInv, PermOK, Bijection, Injection
<1>2. hosts \in Seq(Host)
  <2>1. CASE hosts = sent.hosts
    BY <2>1 DEF IInv, Shape
  <2>2. CASE hosts = [i \in Body |-> sent.hosts[perm[i]]]
    <3>1. /\ Body = 1..Len(sent.hosts) /\ Len(sent.hosts) \in Nat
          /\ \A i \in Body : sent.hosts[i] \in Host
      BY DEF IInv, Shape, Body
    <3>2. hosts \in [1..Len(sent.hosts) -> Host]
      BY <1>1, <2>2, <3>1
    <3> QED
      BY <3>1, <3>2
  <2> QED
    BY <2>1, <2>2 DEF IInv, HostsOK
<1> QED
  BY <1>1, <1>2 DEF IInv, Shape, MembersOK, TypeOK, Body

LEMMA MembersAlways == Spec => [](IInv /\ MembersOK)
BY Initially, Inductive, MembersInitially, MembersStep, ConstantsAssumption, PTL
DEF Spec

\* TypeOK: whatever the shuffle draws, the body stays a list of hosts and lists
\* of members, filled by an exchange of slots.
THEOREM TypeCorrect == Spec => []TypeOK
BY MembersAlways, Typed, PTL

\* reorderNames: a list that follows the hosts neither loses a member nor
\* doubles one, unless two of them, YAML aliases, share the empty name.
THEOREM MembersAreKept == Spec => []ListsKeepMembers
<1>1. MembersOK => ListsKeepMembers
  BY DEF MembersOK
<1> QED
  BY MembersAlways, <1>1, PTL

-----------------------------------------------------------------------------
(* The order of lists                                                      *)

\* What was shuffled is the hosts sent, exchanged within groups.
LEMMA HostsExchanged ==
    ASSUME Shape, PermOK, HostsOK
    PROVE  \E f \in [Body -> Body] :
              /\ \A i, j \in Body : f[i] = f[j] => i = j
              /\ \A j \in Body : \E i \in Body : f[i] = j
              /\ \A i \in Body : hosts[i] = sent.hosts[f[i]]
              /\ DOMAIN hosts = Body
<1>1. CASE hosts = sent.hosts
  <2> DEFINE f == [i \in Body |-> i]
  <2>1. f \in [Body -> Body] /\ \A i \in Body : f[i] = i
    OBVIOUS
  <2> QED
    BY <1>1, <2>1 DEF Body
<1>2. CASE hosts = [i \in Body |-> sent.hosts[perm[i]]]
  <2>1. /\ perm \in [Body -> Body]
        /\ \A i, j \in Body : perm[i] = perm[j] => i = j
        /\ \A j \in Body : \E i \in Body : perm[i] = j
    BY DEF PermOK, Bijection, Injection, Surjection, IsInjective
  <2> QED
    BY <1>2, <2>1
<1> QED
  BY <1>1, <1>2 DEF HostsOK

\* The slots of groups, by the names of the hosts sent or of those served.
LEMMA SameSlots ==
    ASSUME Shape, PermOK, HostsOK
    PROVE  /\ InGroup(NamesOf(hosts)) = InGroup(NamesOf(sent.hosts))
           /\ InGroup(NamesOf(hosts)) \subseteq Body
           /\ \A i \in Body : /\ NamesOf(hosts)[i] = NameOf(hosts[i])
                              /\ NamesOf(sent.hosts)[i] = NameOf(sent.hosts[i])
                              /\ Group(NamesOf(hosts)[i])
                                     = Group(NamesOf(sent.hosts)[i])
<1>1. DOMAIN hosts = Body /\ LayoutKept
  BY HostsAreSent, LayoutIsKept
<1>2. \A i \in Body : GroupAt(hosts, i) = GroupAt(sent.hosts, i)
  BY <1>1 DEF LayoutKept, Body
<1> QED
  BY <1>1, <1>2 DEF InGroup, NamesOf, GroupAt, Body

\* If the hosts of groups have names of their own, a name's index is the place
\* that its host has.
LEMMA IndexOfHost ==
    ASSUME Shape, PermOK, HostsOK, Distinct(NamesOf(sent.hosts)),
           NEW q \in InGroup(NamesOf(hosts))
    PROVE  /\ NameOf(hosts[q]) \in Indexed
           /\ NewIndex(NameOf(hosts[q])) = q
           /\ \E j \in InGroup(NamesOf(sent.hosts)) :
                 NameOf(hosts[q]) = NameOf(sent.hosts[j])
<1>1. PICK f \in [Body -> Body] :
          /\ \A i, j \in Body : f[i] = f[j] => i = j
          /\ \A i \in Body : hosts[i] = sent.hosts[f[i]]
          /\ DOMAIN hosts = Body
  BY HostsExchanged
<1>2. q \in Body /\ Group(NameOf(hosts[q])) # 0
  BY SameSlots DEF InGroup
<1>3. NameOf(hosts[q]) \in Indexed
  BY <1>1, <1>2 DEF Indexed, GroupAt
<1>4. NewIndex(NameOf(hosts[q])) \in Body
      /\ NameOf(hosts[NewIndex(NameOf(hosts[q]))]) = NameOf(hosts[q])
  BY <1>1, <1>3, IndexIsPlace
<1>5. ASSUME NEW p \in Body, NameOf(hosts[p]) = NameOf(hosts[q])
      PROVE  p = q
  <2>1. /\ f[p] \in InGroup(NamesOf(sent.hosts))
        /\ f[q] \in InGroup(NamesOf(sent.hosts))
    BY <1>1, <1>2, <1>5 DEF InGroup, NamesOf, Body
  <2>2. f[p] = f[q]
    BY <1>1, <1>2, <1>5, <2>1 DEF Distinct, NamesOf, Body
  <2> QED
    BY <1>1, <1>2, <2>2
<1>6. f[q] \in InGroup(NamesOf(sent.hosts))
  BY <1>1, <1>2 DEF InGroup, NamesOf, Body
<1> QED
  BY <1>1, <1>2, <1>3, <1>4, <1>5, <1>6

\* A list in the order of the hosts, put in order, is in their new order.
LEMMA ReorderingMirrors ==
    ASSUME Shape, PermOK, HostsOK, Distinct(NamesOf(sent.hosts)),
           NEW names, NEW n \in Nat, DOMAIN names = 1..n,
           Shuffled(names) = Shuffled(NamesOf(sent.hosts))
    PROVE  /\ Shuffled(Reordered(names)) = Shuffled(NamesOf(hosts))
           /\ \A i \in 1..n : Group(Reordered(names)[i]) = Group(names[i])
<1> DEFINE H == InGroup(NamesOf(sent.hosts))
           B == InGroup(names)
           old(i) == NameOf(sent.hosts[i])
           new(i) == NameOf(hosts[i])
           to(i) == NewIndex(names[i])
<1>1. /\ InGroup(NamesOf(hosts)) = H /\ H \subseteq Body /\ DOMAIN hosts = Body
      /\ \A i \in H : NamesOf(hosts)[i] = new(i)
      /\ \A i \in H : NamesOf(sent.hosts)[i] = old(i)
      /\ \A i \in H : Group(new(i)) = Group(old(i)) /\ Group(old(i)) # 0
  BY SameSlots, HostsAreSent DEF InGroup
<1>2. B \subseteq 1..n /\ \A i \in 1..n : i \in B <=> Group(names[i]) # 0
  BY DEF InGroup
<1>3. PICK b \in Nat : Body = 1..b
  BY DEF Shape, Body
<1>4. /\ \A i, j \in B : Rank(i, B) = Rank(j, B) => i = j
      /\ \A i, j \in H : Rank(i, H) = Rank(j, H) => i = j
      /\ \A i \in B : Rank(i, B) \in 1..Cardinality(B)
      /\ \A i \in H : Rank(i, H) = Cardinality({j \in H : j < i}) + 1
      /\ \A i \in H : Rank(i, H) \in Nat
      /\ IsFiniteSet(B) /\ IsFiniteSet(H)
  <2>1. H \subseteq 1..b
    BY <1>1, <1>3
  <2> HIDE DEF B, H
  <2>2. /\ \A i, j \in B : Rank(i, B) = Rank(j, B) => i = j
        /\ \A i \in B : Rank(i, B) \in 1..Cardinality(B)
        /\ IsFiniteSet(B)
    BY <1>2, RankNumbers
  <2>3. /\ \A i, j \in H : Rank(i, H) = Rank(j, H) => i = j
        /\ \A i \in H : Rank(i, H) \in 1..Cardinality(H)
        /\ \A i \in H : Rank(i, H) = Cardinality({j \in H : j < i}) + 1
        /\ IsFiniteSet(H) /\ Cardinality(H) \in Nat
    BY <2>1, RankNumbers
  <2>4. \A i \in H : Rank(i, H) \in Nat
    BY <2>3
  <2> QED
    BY <2>2, <2>3, <2>4
\* Where a name of the list is among the hosts sent.
<1>5. ASSUME NEW i \in B
      PROVE  \E j \in H : Rank(j, H) = Rank(i, B) /\ names[i] = old(j)
  <2>1. <<Rank(i, B), names[i]>> \in Shuffled(NamesOf(sent.hosts))
    BY DEF Shuffled
  <2> QED
    BY <1>1, <2>1 DEF Shuffled
<1>6. ASSUME NEW j \in H
      PROVE  \E i \in B : Rank(j, H) = Rank(i, B) /\ names[i] = old(j)
  <2>1. <<Rank(j, H), old(j)>> \in Shuffled(names)
    BY <1>1 DEF Shuffled
  <2> QED
    BY <2>1 DEF Shuffled
<1>7. \A i, j \in H : old(i) = old(j) => i = j
  BY <1>1 DEF Distinct
<1>8. \A q \in H : /\ new(q) \in Indexed /\ NewIndex(new(q)) = q
                   /\ \E j \in H : new(q) = old(j)
  BY <1>1, IndexOfHost
\* Where it is among the hosts served: one for one.
<1>9. ASSUME NEW i \in B
      PROVE  names[i] \in Indexed /\ to(i) \in H /\ new(to(i)) = names[i]
  <2>1. PICK j \in H : names[i] = old(j)
    BY <1>5
  <2>2. PICK f \in [Body -> Body] :
            /\ \A k \in Body : \E l \in Body : f[l] = k
            /\ \A l \in Body : hosts[l] = sent.hosts[f[l]]
    BY HostsExchanged
  <2>3. PICK q \in Body : f[q] = j
    BY <1>1, <2>1, <2>2
  <2>4. new(q) = old(j)
    BY <2>2, <2>3
  <2>5. q \in H
    BY <1>1, <2>1, <2>3, <2>4 DEF InGroup, NamesOf
  <2> QED
    BY <1>8, <2>1, <2>4, <2>5
<1>10. \A i, j \in B : names[i] = names[j] => i = j
  BY <1>4, <1>5, <1>7
<1>11. \A i, j \in B : to(i) = to(j) => i = j
  BY <1>9, <1>10
<1>12. \A q \in H : \E i \in B : to(i) = q
  <2> SUFFICES ASSUME NEW q \in H PROVE \E i \in B : to(i) = q
    OBVIOUS
  <2>1. PICK j \in H : new(q) = old(j)
    BY <1>8
  <2>2. PICK i \in B : names[i] = old(j)
    BY <1>6, <2>1
  <2> QED
    BY <1>8, <2>1, <2>2
<1>13. Movable(names) = B
  <2>1. ASSUME NEW i \in 1..n, names[i] \in Indexed PROVE i \in B
    <3>1. Group(names[i]) # 0
      BY <2>1 DEF Indexed, GroupAt
    <3> QED
      BY <1>2, <3>1
  <2> QED
    BY <1>2, <1>9, <2>1 DEF Movable
\* As many names of the list are before one as hosts are before its host.
<1>14. ASSUME NEW i \in B
       PROVE  Rank(to(i), H) = Cardinality({k \in B : Before(names, k, i)}) + 1
  <2> DEFINE S == {k \in B : Before(names, k, i)}
             T == {q \in H : q < to(i)}
             g == [k \in S |-> to(k)]
  <2>1. \A k \in B : to(k) \in Nat
    BY <1>1, <1>3, <1>9
  <2>2. \A k \in B : Before(names, k, i) <=> to(k) < to(i)
    <3> SUFFICES ASSUME NEW k \in B
                 PROVE  Before(names, k, i) <=> to(k) < to(i)
      OBVIOUS
    <3>1. CASE k = i
      BY <1>2, <2>1, <3>1 DEF Before
    <3>2. CASE k # i
      BY <1>11, <2>1, <3>2 DEF Before
    <3> QED
      BY <3>1, <3>2
  <2> HIDE DEF B, H
  <2>3. g \in [S -> T]
    BY <1>9, <2>2
  <2>4. \A k, l \in S : g[k] = g[l] => k = l
    BY <1>11
  <2>5. ASSUME NEW q \in T PROVE \E k \in S : g[k] = q
    <3>1. PICK k \in B : to(k) = q
      BY <1>12
    <3>2. k \in S
      BY <2>2, <3>1
    <3> QED
      BY <3>1, <3>2
  <2>6. g \in Bijection(S, T)
    BY <2>3, <2>4, <2>5 DEF Bijection, Injection, Surjection, IsInjective
  <2>7. IsFiniteSet(S)
    BY <1>4, FS_Subset
  <2>8. Cardinality(T) = Cardinality(S)
    <3> HIDE DEF S, T, g
    <3> QED
      BY <2>6, <2>7, FS_Bijection DEF ExistsBijection
  <2>9. Rank(to(i), H) = Cardinality(T) + 1
    BY <1>4, <1>9
  <2> QED
    BY <2>8, <2>9
\* So a slot of the list gets the name of the host that has its rank.
<1>15. ASSUME NEW i \in B, NEW h \in H, Rank(i, B) = Rank(h, H)
       PROVE  Reordered(names)[i] = new(h)
  <2> DEFINE j == Picked(names)[Rank(i, B)]
  <2>1. Reordered(names)[i] = names[j]
    BY <1>2, <1>13 DEF Reordered
  <2>2. j \in B /\ Cardinality({k \in B : Before(names, k, j)}) = Rank(i, B) - 1
    <3>1. Rank(i, B) \in 1..Cardinality(Movable(names))
      BY <1>4, <1>13
    <3> HIDE DEF B
    <3> QED
      BY <1>1, <1>13, <3>1, PickedNumbers
  <2> HIDE DEF B, H, j
  <2>3. Rank(to(j), H) = Rank(h, H)
    BY <1>4, <1>14, <1>15, <2>2
  <2>4. to(j) = h
    BY <1>4, <1>9, <2>2, <2>3
  <2> QED
    BY <1>9, <2>1, <2>2, <2>4
<1>16. ASSUME NEW i \in 1..n
       PROVE  Group(Reordered(names)[i]) = Group(names[i])
  <2>1. CASE i \in B
    <3>1. PICK j \in H : Rank(j, H) = Rank(i, B) /\ names[i] = old(j)
      BY <1>5, <2>1
    <3>2. Reordered(names)[i] = new(j)
      BY <1>15, <2>1, <3>1
    <3> QED
      BY <1>1, <3>1, <3>2
  <2>2. CASE i \notin B
    BY <1>13, <2>2 DEF Reordered
  <2> QED
    BY <2>1, <2>2
<1>17. InGroup(Reordered(names)) = B
  <2>1. DOMAIN Reordered(names) = 1..n
    BY DEF Reordered
  <2> QED
    BY <1>2, <1>16, <2>1 DEF InGroup
<1>18. Shuffled(Reordered(names))
           = {<<Rank(i, B), Reordered(names)[i]>> : i \in B}
  BY <1>17 DEF Shuffled
<1>19. Shuffled(NamesOf(hosts)) = {<<Rank(h, H), new(h)>> : h \in H}
  BY <1>1 DEF Shuffled
<1> HIDE DEF B, H, new
<1>20. \A i \in B : \E h \in H :
           Rank(i, B) = Rank(h, H) /\ Reordered(names)[i] = new(h)
  BY <1>5, <1>15
<1>21. \A h \in H : \E i \in B :
           Rank(i, B) = Rank(h, H) /\ Reordered(names)[i] = new(h)
  BY <1>6, <1>15
<1>22. Shuffled(Reordered(names)) = Shuffled(NamesOf(hosts))
  BY <1>18, <1>19, <1>20, <1>21
<1> QED
  BY <1>16, <1>22

\* byName puts the names in the order that reorderNames gave them, even where
\* it takes another member of the name.
LEMMA FollowedNames ==
    ASSUME Shape, DOMAIN hosts = Body, NEW list \in Seq(Member)
    PROVE  Named(Followed(list)) = Reordered(Named(list))
<1> DEFINE n == Len(list)
           names == Reordered(Named(list))
<1>1. /\ n \in Nat /\ DOMAIN list = 1..n /\ DOMAIN Named(list) = 1..n
      /\ \A i \in 1..n : Named(list)[i] = MemberName(list[i])
  BY DEF Named
<1>2. names = [i \in 1..n |-> names[i]]
  BY <1>1 DEF Reordered
<1>3. PICK f \in Bijection(1..n, 1..n) :
          \A i \in 1..n : names[i] = Named(list)[f[i]]
  BY <1>1, ReorderingPermutes
<1>4. \A i \in 1..n : f[i] \in 1..n
  BY DEF Bijection, Injection
<1>5. CASE names = Named(list)
  BY <1>5 DEF Followed
<1>6. CASE names # Named(list)
  <2> HIDE DEF names
  <2>1. Followed(list) = [i \in 1..n |-> ByName(list, names[i])]
    BY <1>1, <1>6 DEF Followed, names
  <2>2. ASSUME NEW i \in 1..n
        PROVE  MemberName(Followed(list)[i]) = names[i]
    <3>1. f[i] \in DOMAIN list /\ names[i] = MemberName(list[f[i]])
      BY <1>1, <1>3, <1>4
    <3>2. MemberName(ByName(list, names[i])) = names[i]
      BY <3>1, ByNameFinds
    <3> QED
      BY <2>1, <3>2
  <2>3. Named(Followed(list)) = [i \in 1..n |-> MemberName(Followed(list)[i])]
    BY <2>1 DEF Named
  <2>4. Named(Followed(list)) = names
    BY <1>2, <2>2, <2>3
  <2> QED
    BY <2>4 DEF names
<1> QED
  BY <1>5, <1>6

\* How a list follows depends on what was given and the hosts only.
LEMMA FollowedStays ==
    ASSUME UNCHANGED <<groups, format, hosts>>, NEW list
    PROVE  Followed(list)' = Followed(list)
<1>1. Indexed' = Indexed
  BY DEF Indexed, GroupAt, Group, Matching, NameOf
<1>2. \A name : NewIndex(name)' = NewIndex(name)
  BY DEF NewIndex, NameOf
<1>3. ASSUME NEW names
      PROVE  Reordered(names)' = Reordered(names)
  <2>1. Movable(names)' = Movable(names)
    BY <1>1 DEF Movable
  <2>2. \A i, j : Before(names, i, j)' = Before(names, i, j)
    BY <1>2 DEF Before
  <2>3. Picked(names)' = Picked(names)
    <3> DEFINE number(j) ==
                   Cardinality({i \in Movable(names) : Before(names, i, j)})
    <3>1. \A j : number(j)' = number(j)
      BY <2>1, <2>2
    <3>2. Picked(names) = [r \in 1..Cardinality(Movable(names)) |->
                             CHOOSE j \in Movable(names) : number(j) = r - 1]
      BY DEF Picked
    <3>3. Picked(names)' = [r \in 1..Cardinality(Movable(names))' |->
                      CHOOSE j \in Movable(names)' : number(j)' = r - 1]
      BY DEF Picked
    <3> HIDE DEF number
    <3>4. \A r : (CHOOSE j \in Movable(names)' : number(j)' = r - 1)
                   = (CHOOSE j \in Movable(names) : number(j) = r - 1)
      BY <2>1, <3>1
    <3> QED
      BY <2>1, <3>2, <3>3, <3>4
  <2> QED
    BY <2>1, <2>3 DEF Reordered
<1> QED
  BY <1>3 DEF Followed

\* A list that has been dealt with is the one sent, in the order of the hosts.
IsFollowed(k) == \A list : list = sent.lists[k] => lists[k] = Followed(list)

FollowOK ==
    /\ pc = "lists" =>
          \A k \in DOMAIN lists : k < at => IsFollowed(k)
    /\ pc = "done" =>
          \/ hosts = sent.hosts /\ lists = sent.lists
          \/ \A k \in DOMAIN lists : IsFollowed(k)

LEMMA FollowInitially == Init => FollowOK
BY DEF Init, FollowOK

LEMMA FollowsStep == IInv /\ MembersOK /\ FollowOK /\ [Next]_vars => FollowOK'
<1> SUFFICES ASSUME IInv, MembersOK, FollowOK, [Next]_vars
             PROVE  FollowOK'
  OBVIOUS
<1>1. CASE Sniff
  BY <1>1 DEF Sniff, FollowOK, IInv, HostsOK, ListsOK, given
<1>2. CASE ShuffleGroup
  BY <1>2 DEF ShuffleGroup, FollowOK, given
<1>3. CASE Place
  <2>1. \A k \in DOMAIN lists : k \in Nat \ {0}
    BY DEF MembersOK
  <2>2. ~(pc' = "lists") \/ (at' = 1 /\ lists' = lists)
    BY <1>3 DEF Place
  <2>3. \A k \in DOMAIN lists : ~(k < 1)
    BY <2>1
  <2> QED
    BY <1>3, <2>2, <2>3 DEF Place, FollowOK, IInv, HostsOK, ListsOK, given
<1>4. CASE FollowList
  <2>1. /\ UNCHANGED <<groups, format, hosts>> /\ sent' = sent
        /\ pc = "lists" /\ pc' = "lists" /\ at' = at + 1 /\ at \in Nat \ {0}
        /\ lists' = [lists EXCEPT ![at] = Followed(lists[at])]
    BY <1>4 DEF FollowList, given, IInv, Shape
  <2>2. DOMAIN lists' = DOMAIN lists /\ \A k \in DOMAIN lists : k \in Nat
    BY <2>1 DEF MembersOK
  <2>3. \A list : Followed(list)' = Followed(list)
    BY <2>1, FollowedStays
  <2>4. ASSUME NEW k \in DOMAIN lists, k < at + 1,
               NEW list, list = sent.lists[k]
        PROVE  lists'[k] = Followed(list)
    <3>1. CASE k = at
      <4>1. lists[k] = sent.lists[k]
        BY <2>1, <3>1 DEF IInv, ListsOK
      <4> QED
        BY <2>1, <2>4, <3>1, <4>1
    <3>2. CASE k # at
      <4>1. k < at
        BY <2>1, <2>2, <2>4, <3>2
      <4>2. lists[k] = Followed(list)
        BY <2>1, <2>4, <4>1 DEF FollowOK, IsFollowed
      <4> QED
        BY <2>1, <3>2, <4>2
    <3> QED
      BY <3>1, <3>2
  <2> QED
    BY <2>1, <2>2, <2>3, <2>4 DEF FollowOK, IsFollowed
<1>5. CASE Encode
  <2>1. /\ UNCHANGED <<groups, format, hosts>>
        /\ sent' = sent /\ lists' = lists /\ pc = "lists" /\ pc' = "done"
        /\ at > Len(lists) /\ at \in Nat
    BY <1>5 DEF Encode, given, IInv, Shape
  <2>2. \A k \in DOMAIN lists : k < at
    BY <2>1 DEF MembersOK
  <2>3. \A list : Followed(list)' = Followed(list)
    BY <2>1, FollowedStays
  <2> QED
    BY <2>1, <2>2, <2>3 DEF FollowOK, IsFollowed
<1>6. CASE UNCHANGED vars
  <2>1. UNCHANGED <<groups, format, sent, hosts, lists, pc, at>>
    BY <1>6 DEF vars
  <2>2. \A list : Followed(list)' = Followed(list)
    BY <2>1, FollowedStays
  <2> QED
    BY <2>1, <2>2 DEF FollowOK, IsFollowed
<1> QED
  BY <1>1, <1>2, <1>3, <1>4, <1>5, <1>6 DEF Next

LEMMA Mirrored == IInv /\ MembersOK /\ FollowOK => ListsMirrorHosts
<1> SUFFICES ASSUME IInv, MembersOK, FollowOK, Done,
                    Distinct(NamesOf(sent.hosts)), NEW k \in DOMAIN lists,
                    Shuffled(Named(sent.lists[k]))
                        = Shuffled(NamesOf(sent.hosts))
             PROVE  /\ Shuffled(Named(lists[k])) = Shuffled(NamesOf(hosts))
                    /\ \A i \in DOMAIN Named(sent.lists[k]) :
                          Group(Named(lists[k])[i])
                              = Group(Named(sent.lists[k])[i])
  BY DEF ListsMirrorHosts
<1>1. CASE hosts = sent.hosts /\ lists = sent.lists
  BY <1>1
<1>2. CASE lists[k] = Followed(sent.lists[k])
  <2> DEFINE list == sent.lists[k]
             names == Named(list)
  <2>1. list \in Seq(Member)
    BY DEF IInv, Shape
  <2>2. Len(list) \in Nat /\ DOMAIN names = 1..Len(list)
    BY <2>1 DEF Named
  <2>3. DOMAIN hosts = Body
    BY HostsAreSent DEF IInv
  <2>4. Named(lists[k]) = Reordered(names)
    BY <1>2, <2>1, <2>3, FollowedNames DEF IInv
  <2> HIDE DEF names
  <2>5. /\ Shuffled(Reordered(names)) = Shuffled(NamesOf(hosts))
        /\ \A i \in 1..Len(list) : Group(Reordered(names)[i]) = Group(names[i])
    <3>1. Shuffled(names) = Shuffled(NamesOf(sent.hosts))
      BY DEF names
    <3> QED
      BY <2>2, <3>1, ReorderingMirrors DEF IInv
  <2> QED
    BY <2>2, <2>4, <2>5 DEF names
<1> QED
  BY <1>1, <1>2 DEF FollowOK, IsFollowed, Done

\* A list that named every host of the groups in the order of the hosts names
\* them in the new order, and no group gives up a position in it.
THEOREM ListsAreMirrored == Spec => []ListsMirrorHosts
<1>1. Init => IInv /\ MembersOK /\ FollowOK
  BY Initially, MembersInitially, FollowInitially, ConstantsAssumption
<1>2. IInv /\ MembersOK /\ FollowOK /\ [Next]_vars
        => (IInv /\ MembersOK /\ FollowOK)'
  BY Inductive, MembersStep, FollowsStep
<1> QED
  BY <1>1, <1>2, Mirrored, PTL DEF Spec

=============================================================================

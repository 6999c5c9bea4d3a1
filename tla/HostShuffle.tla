---------------------------- MODULE HostShuffle ----------------------------
(***************************************************************************)
(* How the hosts of a subscription are shuffled (internal/hosts): a body   *)
(* is a list of hosts and, in sing-box and Clash, lists that name them.    *)
(* The hosts of a group change places among themselves, group by group;    *)
(* then each list is put in the new order.                                 *)
(*                                                                         *)
(* A format is what Sniff and the format's parser take a body for; the     *)
(* regexp of a group is the set of names it matches.                       *)
(***************************************************************************)
EXTENDS Filtering, Functions

CONSTANTS
    Name,      \* names that hosts and list members go by
    Nameless,  \* the empty name
    Bodies     \* groups and bodies to start with

\* "unknown" is also a body that does not parse, or has no list of hosts.
Format == {"unknown", "links", "xray", "singbox", "clash"}
HasLists(f) == f \in {"singbox", "clash"}

\* A host of the body; id stands for the rest of it.  Only sing-box has
\* entries without a server, its selectors among them.
Host == [id : Nat, name : Name, server : BOOLEAN]

\* A member of a list; a YAML alias is not a scalar, so it has no name.
Member == [value : Name, alias : BOOLEAN]

ASSUME ConstantsAssumption ==
    /\ Nameless \in Name
    /\ \A b \in Bodies :
          /\ b.groups \in Seq(SUBSET Name)
          /\ b.format \in Format
          /\ b.hosts \in Seq(Host)
          /\ \A i, j \in DOMAIN b.hosts :
                b.hosts[i].id = b.hosts[j].id => i = j
          /\ b.lists \in Seq(Seq(Member))
          /\ ~HasLists(b.format) => b.lists = <<>>
          /\ b.format # "clash" =>
                \A k \in DOMAIN b.lists : \A i \in DOMAIN b.lists[k] :
                    ~b.lists[k][i].alias

VARIABLES
    groups,  \* the patterns, in order
    format,
    sent,    \* history: the hosts and lists as they came
    hosts,   \* the hosts of the body
    lists,   \* the lists that name hosts
    perm,    \* which entry fills each slot
    pc,      \* how far Apply has come
    at       \* the next group, then the next list

vars == <<groups, format, sent, hosts, lists, perm, pc, at>>
given == <<groups, format, sent>>

TypeOK ==
    /\ hosts \in Seq(Host)
    /\ lists \in Seq(Seq(Member))
    /\ perm \in [DOMAIN sent.hosts -> DOMAIN sent.hosts]
    /\ pc \in {"sniff", "groups", "place", "lists", "done"}
    /\ at \in Nat \ {0}

Init ==
    /\ \E b \in Bodies :
          /\ groups = b.groups /\ format = b.format
          /\ sent = [hosts |-> b.hosts, lists |-> b.lists]
          /\ hosts = b.hosts /\ lists = b.lists
          /\ perm = [i \in DOMAIN b.hosts |-> i]
    /\ pc = "sniff" /\ at = 1

-----------------------------------------------------------------------------
(* Groups                                                                  *)

\* names[i] as the client shows it: entries without a server are not hosts.
NameOf(host) ==
    IF format = "singbox" /\ ~host.server THEN Nameless ELSE host.name

\* group: the first pattern that matches, 0 for none.
Matching(name) == {g \in DOMAIN groups : name \in groups[g]}

Group(name) ==
    IF name = Nameless \/ Matching(name) = {} THEN 0
    ELSE CHOOSE g \in Matching(name) : \A k \in Matching(name) : g <= k

GroupAt(hs, i) == Group(NameOf(hs[i]))

\* MUTANT a host is in every group that matches.
SlotsOfAny(g) == {i \in DOMAIN hosts : NameOf(hosts[i]) \in groups[g]}

\* slots[g]
Slots(g) == {i \in DOMAIN hosts : GroupAt(hosts, i) = g}

\* MUTANT entries are copied over each other.
Draws(slots) == [slots -> slots]

\* MUTANT a position in the group is taken for a slot.
Positions(slots) == Bijection(slots, 0..Cardinality(slots) - 1)

\* rand.Shuffle of a group's slots.
Orders(slots) == Bijection(slots, slots)

-----------------------------------------------------------------------------
(* Lists of names                                                          *)

\* MUTANT every host is indexed, those of no group too.
IndexedAll == {NameOf(hosts[i]) : i \in DOMAIN hosts}

\* The keys of newIndex: names of hosts that are in a group.
Indexed ==
    {NameOf(hosts[i]) : i \in {k \in DOMAIN hosts : GroupAt(hosts, k) # 0}}

\* MUTANT where a host was.
OldIndex(name) ==
    CHOOSE i \in DOMAIN sent.hosts :
        /\ NameOf(sent.hosts[i]) = name
        /\ \A k \in DOMAIN sent.hosts :
              NameOf(sent.hosts[k]) = name => k <= i

\* newIndex: where the last host of a name is now.
NewIndex(name) ==
    CHOOSE i \in DOMAIN hosts :
        /\ NameOf(hosts[i]) = name
        /\ \A k \in DOMAIN hosts : NameOf(hosts[k]) = name => k <= i

MemberName(m) == IF m.alias THEN Nameless ELSE m.value

Named(list) == [i \in DOMAIN list |-> MemberName(list[i])]

\* The slots of a list that reorderNames sorts, and where what fills them is.
Movable(names) == {i \in DOMAIN names : names[i] \in Indexed}

Before(names, i, j) ==
    \/ NewIndex(names[i]) < NewIndex(names[j])
    \/ NewIndex(names[i]) = NewIndex(names[j]) /\ i < j

Picked(names) ==
    LET slots == Movable(names)
    IN  [r \in 1..Cardinality(slots) |->
            CHOOSE j \in slots :
                Cardinality({i \in slots : Before(names, i, j)}) = r - 1]

\* MUTANT names[k] is written, not names[slots[k]].
ReorderedAtFront(names) ==
    [i \in DOMAIN names |->
        IF i <= Len(Picked(names)) THEN names[Picked(names)[i]] ELSE names[i]]

\* reorderNames
Reordered(names) ==
    [i \in DOMAIN names |->
        IF i \in Movable(names)
        THEN names[Picked(names)[Rank(i, Movable(names))]]
        ELSE names[i]]

\* byName: the last member of a name stands for all of them.
ByName(list, name) ==
    list[CHOOSE i \in DOMAIN list :
            /\ MemberName(list[i]) = name
            /\ \A k \in DOMAIN list : MemberName(list[k]) = name => k <= i]

\* The list in the new order: Clash's members are nodes, found by name, and
\* sing-box's are their names.
Followed(list) ==
    LET names == Reordered(Named(list))
    IN  IF names = Named(list) THEN list
        ELSE [i \in DOMAIN list |-> ByName(list, names[i])]

-----------------------------------------------------------------------------
(* Apply                                                                   *)

Moved == \E i \in DOMAIN perm : perm[i] # i

Sniff ==
    /\ pc = "sniff"
    /\ pc' = IF groups = <<>> \/ format = "unknown" THEN "done" ELSE "groups"
    /\ UNCHANGED <<given, hosts, lists, perm, at>>

\* permutation, one group.
ShuffleGroup ==
    /\ pc = "groups" /\ at <= Len(groups)
    /\ \E order \in Orders(Slots(at)) :
          perm' = [i \in DOMAIN perm |->
                      IF i \in DOMAIN order THEN order[i] ELSE perm[i]]
    /\ at' = at + 1
    /\ UNCHANGED <<given, hosts, lists, pc>>

\* A body in which nothing moved is returned as it came.
Place ==
    /\ pc = "groups" /\ at > Len(groups)
    /\ at' = 1
    /\ IF Moved
       THEN /\ hosts' = [i \in DOMAIN hosts |-> hosts[perm[i]]]
            /\ pc' = "lists"
       ELSE pc' = "done" /\ UNCHANGED hosts
    /\ UNCHANGED <<given, lists, perm>>

FollowList ==
    /\ pc = "lists" /\ at <= Len(lists)
    /\ lists' = [lists EXCEPT ![at] = Followed(@)]
    /\ at' = at + 1
    /\ UNCHANGED <<given, hosts, perm, pc>>

Encode ==
    /\ pc = "lists" /\ at > Len(lists)
    /\ pc' = "done"
    /\ UNCHANGED <<given, hosts, lists, perm, at>>

Next == Sniff \/ ShuffleGroup \/ Place \/ FollowList \/ Encode

Spec == Init /\ [][Next]_vars

-----------------------------------------------------------------------------
(* Properties                                                              *)

Done == pc = "done"

\* Every host that came is served, once.
NoHostLost ==
    /\ DOMAIN hosts = DOMAIN sent.hosts
    /\ \A i \in DOMAIN sent.hosts : \E j \in DOMAIN hosts :
          hosts[j] = sent.hosts[i]
    /\ \A i, j \in DOMAIN hosts : hosts[i] = hosts[j] => i = j

\* A group keeps the positions it held, whatever other groups match its hosts,
\* and what is in no group, selectors included, stays where it was.
LayoutKept ==
    \A i \in DOMAIN sent.hosts :
        /\ GroupAt(hosts, i) = GroupAt(sent.hosts, i)
        /\ GroupAt(sent.hosts, i) = 0 => hosts[i] = sent.hosts[i]

\* How often a value is in a list.
Count(list, v) == Cardinality({i \in DOMAIN list : list[i].value = v})

Aliases(list) == {i \in DOMAIN list : MemberName(list[i]) = Nameless}

\* A list names the same hosts and groups after it followed as before, each as
\* often, if at most one of its members has no name of its own.
ListsKeepMembers ==
    \A k \in DOMAIN lists :
        Cardinality(Aliases(sent.lists[k])) <= 1 =>
            \A v \in Name : Count(lists[k], v) = Count(sent.lists[k], v)

\* A list keeps what is no host of a group (DIRECT, other lists, hosts that
\* stay) at its position.
OthersStayInLists ==
    \A k \in DOMAIN sent.lists : \A i \in DOMAIN sent.lists[k] :
        LET m == sent.lists[k][i]
            IsShuffled ==
                \E j \in DOMAIN sent.hosts :
                    /\ NameOf(sent.hosts[j]) = m.value
                    /\ GroupAt(sent.hosts, j) # 0
        IN  ~m.alias /\ m.value # Nameless /\ ~IsShuffled =>
                lists[k][i] = m

NamesOf(hs) == [i \in DOMAIN hs |-> NameOf(hs[i])]

\* The names that are in a group, each with its place among them.
InGroup(names) == {i \in DOMAIN names : Group(names[i]) # 0}

Shuffled(names) ==
    {<<Rank(i, InGroup(names)), names[i]>> : i \in InGroup(names)}

Distinct(names) == \A i, j \in InGroup(names) : names[i] = names[j] => i = j

\* A list that named every host of the groups in the order of the hosts still
\* does, and each group has the positions in it that it had: a client that
\* takes the first of a selector is spread as one that takes the first host.
ListsMirrorHosts ==
    Done /\ Distinct(NamesOf(sent.hosts)) =>
        \A k \in DOMAIN lists :
            LET before == Named(sent.lists[k])
                after == Named(lists[k])
            IN  Shuffled(before) = Shuffled(NamesOf(sent.hosts)) =>
                    /\ Shuffled(after) = Shuffled(NamesOf(hosts))
                    /\ \A i \in DOMAIN before :
                          Group(after[i]) = Group(before[i])

=============================================================================

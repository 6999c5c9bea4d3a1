---------------------------- MODULE ClientAddress ----------------------------
(***************************************************************************)
(* Who the client is (internal/realip): TRUST_PROXY and what it makes of   *)
(* the socket's peer and of X-Forwarded-For.                               *)
(*                                                                         *)
(* An address is written in several ways: with a zone, or as IPv4 in IPv6. *)
(* What is no address at all stands for itself, and nobody trusts it.      *)
(***************************************************************************)
EXTENDS Filtering

CONSTANTS
    Spelling,  \* of addresses, and anything else a header may hold
    Blank,     \* nothing, as between two commas that follow each other
    Normal,    \* normalize, on spellings
    Network,   \* presets, address ranges and single addresses
    Covers     \* which addresses a network contains

ASSUME AddressesAssumption ==
    /\ Blank \notin Spelling
    /\ Normal \in [Spelling -> Spelling]
    /\ \A a \in Spelling : Normal[Normal[a]] = Normal[a]
    /\ Covers \in [Network -> SUBSET Spelling]

\* A resolver; hops and networks are used one at a time.
Resolver == [trustAll : BOOLEAN, hops : Nat, nets : SUBSET Network]
TrustNobody == [trustAll |-> FALSE, hops |-> 0, nets |-> {}]

\* What TRUST_PROXY may say: a word, a number, or a list of networks; blank
\* entries are skipped, and one may be unreadable.
Trust ==
    [kind : {"unset", "true", "false"}]
        \cup [kind : {"number"}, hops : Int]
        \cup [kind : {"list"}, nets : SUBSET Network, unreadable : BOOLEAN]

\* Parse accepts it.
Readable(spec) ==
    CASE spec.kind = "number" -> spec.hops >= 0
      [] spec.kind = "list" -> spec.nets # {} /\ ~spec.unreadable
      [] OTHER -> TRUE

\* Parse
ParseTrust(spec) ==
    CASE spec.kind = "true" -> [TrustNobody EXCEPT !.trustAll = TRUE]
      [] spec.kind = "number" -> [TrustNobody EXCEPT !.hops = spec.hops]
      [] spec.kind = "list" -> [TrustNobody EXCEPT !.nets = spec.nets]
      [] OTHER -> TrustNobody

Trusted(resolver, a) == \E n \in resolver.nets : a \in Covers[n]

\* forwardedChain: the entries of all X-Forwarded-For lines, blanks dropped.
ForwardedChain(header) ==
    LET entries == Kept(header, Spelling)
    IN  [i \in DOMAIN entries |-> Normal[entries[i]]]

\* The trusted end is the right one: the last entry that is not trusted, or the
\* first of all.
LastUntrusted(resolver, chain) ==
    LET untrusted == {i \in DOMAIN chain : ~Trusted(resolver, chain[i])}
    IN  IF untrusted = {} THEN chain[1]
        ELSE chain[CHOOSE i \in untrusted : \A j \in untrusted : j <= i]

\* As many entries left of the peer as there are trusted hops.
StepBack(resolver, chain) ==
    LET i == Len(chain) - resolver.hops
    IN  chain[IF i < 1 THEN 1 ELSE i]

\* ClientIP
ClientIP(resolver, header, remote) ==
    LET peer == Normal[remote]
        forwarded == ForwardedChain(header)
        chain == Append(forwarded, peer)
    IN  IF resolver = TrustNobody \/ forwarded = <<>> THEN peer
        ELSE IF resolver.trustAll THEN forwarded[1]
        ELSE IF resolver.hops > 0 THEN StepBack(resolver, chain)
        ELSE LastUntrusted(resolver, chain)

=============================================================================

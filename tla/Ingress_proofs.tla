--------------------------- MODULE Ingress_proofs ---------------------------
(***************************************************************************)
(* Proofs about Ingress, for any environment, any configuration file, any  *)
(* path and any chain of proxies.                                          *)
(***************************************************************************)
EXTENDS Ingress, SetLemmas

-----------------------------------------------------------------------------
(* The invariant                                                           *)

\* What the process was started with, and what it is sent.
Given ==
    /\ \A k \in DOMAIN Default \cup DOMAIN DefaultInt : env[k] \in Written
    /\ env.prefix \in Path
    /\ env.trust \in Trust
    /\ env.healthHost \in {"any", "loopback", "elsewhere"}
    /\ rq.path \in Path
    /\ rq.client \in Spelling
    /\ rq.spoofed \in Seq(Spelling \cup {Blank})
    /\ rq.proxies \in Seq(Spelling)

\* Whoever comes past Load has an environment without problems.
CfgOK ==
    pc \in {"file", "handler", "serving", "done"} =>
        cfg = Loaded(env) /\ Problems(env) = {}

HandlerOK ==
    pc \in {"serving", "done"} =>
        /\ Readable(cfg.trust)
        /\ handler.resolver = ParseTrust(cfg.trust)
        /\ Prefix = SplitPath(cfg.prefix)

\* What became of the request is what the request and the handler say.
OutOK ==
    pc = "done" =>
        \/ Probed /\ out.kind = "refused"
        \/ /\ ~Probed /\ Notice = "block" /\ out.kind = "answered"
           /\ out.route = Route /\ out.link = Link
        \/ /\ ~Probed /\ out.kind = "forwarded"
           /\ out.route = Route /\ out.link = Link
           /\ out.for = ForwardedFor
           /\ out.proto = ForwardedProto
           /\ out.host = ForwardedHost

IInv == Given /\ CfgOK /\ HandlerOK /\ OutOK

LEMMA Initially == Init => IInv
BY StartsAssumption DEF Init, IInv, Given, CfgOK, HandlerOK, OutOK

\* What the handler makes of a request depends on the two and cfg.
LEMMA HandledAlike ==
    ASSUME UNCHANGED <<rq, cfg, handler>>
    PROVE  /\ Probed' = Probed /\ Notice' = Notice
           /\ Route' = Route /\ Link' = Link
           /\ ForwardedFor' = ForwardedFor
           /\ ForwardedProto' = ForwardedProto
           /\ ForwardedHost' = ForwardedHost
<1>1. Probed' = Probed
  BY DEF Probed
<1>2. Route' = Route
  BY DEF Route, Observes
<1>3. Notice' = Notice
  BY <1>2 DEF Notice
<1>4. LinkHost' = LinkHost /\ LinkScheme' = LinkScheme
  BY DEF LinkHost, LinkScheme
<1>5. Link' = Link
  BY <1>2, <1>3, <1>4 DEF Link, SubscriptionURL
<1>6. ForwardedFor' = ForwardedFor
  BY DEF ForwardedFor, RealIP, Forwarded, Remote
<1>7. ForwardedProto' = ForwardedProto /\ ForwardedHost' = ForwardedHost
  BY DEF ForwardedProto, ForwardedHost
<1> QED
  BY <1>1, <1>2, <1>3, <1>5, <1>6, <1>7

LEMMA Inductive == IInv /\ [Next]_vars => IInv'
<1> SUFFICES ASSUME IInv, [Next]_vars
             PROVE  IInv'
  OBVIOUS
<1> USE DEF IInv
<1>1. env' = env /\ rq' = rq /\ file' = file
  BY DEF Next, Load, LoadFile, NewHandler, Refuse, Answer, Forward, Finally, vars
<1>2. Given'
  BY <1>1 DEF Given
<1>3. CfgOK'
  BY <1>1 DEF CfgOK, Next, Load, LoadFile, NewHandler, Refuse, Answer, Forward,
              Finally, vars
<1>4. HandlerOK'
  <2>1. CASE NewHandler
    BY <2>1 DEF NewHandler, HandlerOK, Prefix
  <2>2. CASE ~NewHandler
    BY <2>2 DEF HandlerOK, Prefix, Next, Load, LoadFile, Refuse, Answer, Forward,
                Finally, vars
  <2> QED
    BY <2>1, <2>2
<1>5. OutOK'
  <2>1. CASE pc' # "done"
    BY <2>1 DEF OutOK
  <2>2. CASE pc' = "done"
    <3>1. UNCHANGED <<env, file, rq, cfg, handler>>
      BY <2>2 DEF Next, Load, LoadFile, NewHandler, Refuse, Answer, Forward,
                  Finally, vars
    <3>2. /\ Probed' = Probed /\ Notice' = Notice
          /\ Route' = Route /\ Link' = Link
          /\ ForwardedFor' = ForwardedFor
          /\ ForwardedProto' = ForwardedProto
          /\ ForwardedHost' = ForwardedHost
      BY <3>1, HandledAlike
    <3>3. CASE pc = "done"
      <4>1. out' = out
        BY <3>3 DEF Next, Load, LoadFile, NewHandler, Refuse, Answer, Forward,
                    vars
      <4> QED
        BY <3>2, <3>3, <4>1 DEF OutOK
    <3>4. CASE pc # "done"
      <4>1. Refuse \/ Answer \/ Forward
        BY <2>2, <3>4 DEF Next, Load, LoadFile, NewHandler, vars
      <4> QED
        BY <3>2, <4>1 DEF OutOK, Refuse, Answer, Forward, Finally
    <3> QED
      BY <3>3, <3>4
  <2> QED
    BY <2>1, <2>2
<1> QED
  BY <1>2, <1>3, <1>4, <1>5

LEMMA Always == Spec => []IInv
BY Initially, Inductive, PTL DEF Spec

-----------------------------------------------------------------------------
(* Start-up                                                                *)

\* A number that fits is not wrapped.
LEMMA WrapFits ==
    ASSUME NEW n \in Int
    PROVE  Wrap(n) \in Int /\ (Fits(n) => Wrap(n) = n)
BY SettingsAssumption DEF Wrap, Fits

\* Without problems every value is what was written, or the default if nothing
\* was.
LEMMA DurationAsWritten ==
    ASSUME NEW k \in {"shutdown", "subTTL"}, NEW w \in Written,
           ~RefusesDuration(w)
    PROVE  /\ Duration(k, w) \in Int
           /\ LimitAsWritten(k, w, Duration(k, w),
                             IF w.kind = "bare" THEN Second ELSE 1)
<1>1. Default[k] \in Nat
  BY SettingsAssumption
<1>2. w.n \in Int /\ w.n * Second \in Int /\ w.n * 1 = w.n
  BY SettingsAssumption DEF Written
<1> QED
  BY <1>1, <1>2, WrapFits DEF Duration, LimitAsWritten

LEMMA SizeAsWritten ==
    ASSUME NEW k \in {"maxBytes", "maxBody"}, NEW w \in Written,
           ~RefusesSize(w)
    PROVE  /\ Size(k, w) \in Int
           /\ LimitAsWritten(k, w, Size(k, w),
                             IF w.kind = "unit" THEN w.unit ELSE 1)
<1>1. Default[k] \in Nat
  BY SettingsAssumption
<1>2. w.n \in Int /\ w.n * w.unit \in Int /\ w.n * 1 = w.n
  BY DEF Written
<1> QED
  BY <1>1, <1>2, WrapFits DEF Size, Bytes, LimitAsWritten

LEMMA Started == IInv => StartedAsWritten
<1> SUFFICES ASSUME IInv, pc \in {"serving", "done"}
             PROVE  /\ \A k \in {"shutdown", "subTTL"} :
                          LimitAsWritten(k, env[k], cfg[k],
                              IF env[k].kind = "bare" THEN Second ELSE 1)
                    /\ \A k \in {"maxBytes", "maxBody"} :
                          LimitAsWritten(k, env[k], cfg[k],
                              IF env[k].kind = "unit" THEN env[k].unit ELSE 1)
                    /\ cfg.cached =>
                          /\ cfg.subTTL > 0 /\ cfg.maxBody > 0
                          /\ cfg.maxBytes >= cfg.maxBody
                    /\ env.healthHost # "elsewhere"
                            /\ env.healthPort.kind # "spaces"
                            /\ cfg.healthPort >= 0 =>
                          Healthy(env, cfg)
  BY DEF StartedAsWritten
<1>1. cfg = Loaded(env) /\ Unreadables(env) = {} /\ Contradictions(cfg) = {}
  BY DEF IInv, CfgOK, Problems
<1>2. /\ \A k \in {"shutdown", "subTTL", "maxBytes", "maxBody", "maxEntries",
                   "healthPort"} : env[k] \in Written
      /\ env.healthHost \in {"any", "loopback", "elsewhere"}
  BY SettingsAssumption DEF IInv, Given, DefaultInt
<1>3. /\ \A k \in {"shutdown", "subTTL"} : ~RefusesDuration(env[k])
      /\ \A k \in {"maxBytes", "maxBody"} : ~RefusesSize(env[k])
      /\ ~RefusesInt(env.healthPort)
  <2>1. \A k : k \notin Unreadables(env)
    BY <1>1
  <2> QED
    BY <2>1 DEF Unreadables, DefaultInt
<1>4. ASSUME NEW k \in {"shutdown", "subTTL"}
      PROVE  /\ cfg[k] \in Int
             /\ LimitAsWritten(k, env[k], cfg[k],
                    IF env[k].kind = "bare" THEN Second ELSE 1)
  <2>1. cfg[k] = Duration(k, env[k])
    BY <1>1 DEF Loaded
  <2> QED
    BY <1>2, <1>3, <2>1, DurationAsWritten
<1>5. ASSUME NEW k \in {"maxBytes", "maxBody"}
      PROVE  /\ cfg[k] \in Int
             /\ LimitAsWritten(k, env[k], cfg[k],
                    IF env[k].kind = "unit" THEN env[k].unit ELSE 1)
  <2>1. cfg[k] = Size(k, env[k])
    BY <1>1 DEF Loaded
  <2> QED
    BY <1>2, <1>3, <2>1, SizeAsWritten
<1>6. ASSUME cfg.cached
      PROVE  /\ cfg.subTTL > 0 /\ cfg.maxBody > 0
             /\ cfg.maxBytes >= cfg.maxBody
  <2>1. \A k : k \notin Contradictions(cfg)
    BY <1>1
  <2>2. ~(cfg.subTTL <= 0) /\ ~(cfg.maxBody <= 0) /\ ~(cfg.maxBytes < cfg.maxBody)
    BY <1>6, <2>1 DEF Contradictions
  <2>3. cfg.subTTL \in Int /\ cfg.maxBody \in Int /\ cfg.maxBytes \in Int
    BY <1>4, <1>5
  <2> QED
    BY <2>2, <2>3
<1>7. ASSUME env.healthHost # "elsewhere", env.healthPort.kind # "spaces",
             cfg.healthPort >= 0
      PROVE  Healthy(env, cfg)
  <2>1. cfg.healthPort = IntVal("healthPort", env.healthPort)
    BY <1>1 DEF Loaded
  <2>2. /\ env.healthPort.kind \in {"unset", "bare"}
        /\ env.healthPort.n \in Int
    BY <1>2, <1>3, <1>7 DEF RefusesInt, Written, Kind
  <2>3. CASE env.healthPort.kind = "unset"
    BY <1>2, <1>7, <2>1, <2>3
    DEF IntVal, IsUnset, DefaultInt, ProbePort, Healthy, HasHealth
  <2>4. CASE env.healthPort.kind = "bare"
    BY <1>2, <1>7, <2>1, <2>2, <2>4
    DEF IntVal, IsUnset, RefusesInt, ProbePort, Healthy, HasHealth
  <2> QED
    BY <2>2, <2>3, <2>4
<1> QED
  BY <1>4, <1>5, <1>6, <1>7

\* A process that serves has every limit as it was written, if that fits, or by
\* default if nothing was, and a cache with limits that go together.
THEOREM StartedRight == Spec => []StartedAsWritten
BY Always, Started, PTL

-----------------------------------------------------------------------------
(* The client's address                                                    *)

\* The headers and the peer list, in order, what the client wrote, the client
\* and the proxies: blanks are dropped of the first part only.
LEMMA ChainShape ==
    ASSUME Given
    PROVE  LET f == ForwardedChain(Forwarded)
               p == Len(rq.proxies)
           IN  \E s \in Nat :
                  /\ f \in Seq(Spelling) /\ Len(f) = s + p
                  /\ rq.spoofed = <<>> => s = 0
                  /\ Append(f, Normal[Remote])[s + 1] = Normal[rq.client]
                  /\ \A i \in 1..p : Append(f, Normal[Remote])[s + 1 + i]
                                         = Normal[rq.proxies[i]]
<1> DEFINE p == Len(rq.proxies)
           k == Kept(rq.spoofed, Spelling)
           tail == IF rq.proxies = <<>> THEN <<>>
                   ELSE <<rq.client>> \o SubSeq(rq.proxies, 1, p - 1)
           all == k \o tail
           f == ForwardedChain(Forwarded)
           s == Len(k)
<1>1. /\ rq.proxies \in Seq(Spelling) /\ rq.client \in Spelling
      /\ rq.spoofed \in Seq(Spelling \cup {Blank})
      /\ \A i \in 1..p : rq.proxies[i] \in Spelling
      /\ p \in Nat
  BY DEF Given
<1>2. \A a \in Spelling : Normal[a] \in Spelling
  BY AddressesAssumption
<1>3. /\ tail \in Seq(Spelling) /\ Len(tail) = p
      /\ p > 0 => tail[1] = rq.client
      /\ \A i \in 1..p - 1 : tail[1 + i] = rq.proxies[i]
  <2>1. CASE rq.proxies = <<>>
    BY <1>1, <2>1
  <2>2. CASE rq.proxies # <<>>
    <3>1. p \in Nat \ {0}
      BY <1>1, <2>2
    <3> QED
      BY <1>1, <2>2, <3>1
  <2> QED
    BY <2>1, <2>2
<1>4. k \in Seq(Spelling) /\ s \in Nat
  <2>1. rq.spoofed \in Seq(Spelling \cup {Blank})
    BY <1>1
  <2>2. Kept(rq.spoofed, Spelling) \in Seq(Spelling)
    BY <2>1, KeptType
  <2> QED
    BY <2>2
<1>5. Kept(Forwarded, Spelling) = all
  <2>1. Forwarded = rq.spoofed \o tail
    BY DEF Forwarded
  <2> HIDE DEF tail, p
  <2> QED
    BY <1>1, <1>3, <2>1, KeptBefore
<1> HIDE DEF k, tail
<1>6. /\ all \in Seq(Spelling) /\ Len(all) = s + p
      /\ p > 0 => all[s + 1] = rq.client
      /\ \A i \in 1..p - 1 : all[s + 1 + i] = rq.proxies[i]
  <2> HIDE DEF p
  <2>1. all \in Seq(Spelling) /\ Len(all) = s + p
    BY <1>3, <1>4
  <2>2. \A i \in 1..p : all[s + i] = tail[i]
    BY <1>3, <1>4
  <2> HIDE DEF all, s
  <2>3. p > 0 => all[s + 1] = rq.client
    BY <1>1, <1>3, <2>2
  <2>4. ASSUME NEW i \in 1..p - 1 PROVE all[s + 1 + i] = rq.proxies[i]
    <3>1. 1 + i \in 1..p /\ s + (1 + i) = s + 1 + i
      BY <1>1, <1>4
    <3> QED
      BY <1>3, <2>2, <3>1
  <2> QED
    BY <2>1, <2>3, <2>4
<1>7. f = [i \in DOMAIN all |-> Normal[all[i]]]
  BY <1>5 DEF ForwardedChain
<1> HIDE DEF all, s
<1>8. /\ f \in Seq(Spelling) /\ Len(f) = s + p
      /\ \A i \in 1..s + p : f[i] = Normal[all[i]]
  <2>1. f \in [1..s + p -> Spelling]
    BY <1>1, <1>2, <1>4, <1>6, <1>7
  <2> HIDE DEF f
  <2> QED
    BY <1>1, <1>4, <1>6, <1>7, <2>1
<1> HIDE DEF f
<1>9. rq.spoofed = <<>> => s = 0
  <2>1. ASSUME rq.spoofed = <<>> PROVE k = <<>>
    <3>1. <<>> \in Seq(Spelling)
      OBVIOUS
    <3> QED
      BY <2>1, <3>1, KeptWhole DEF k
  <2> QED
    BY <2>1 DEF s
<1> DEFINE chain == Append(f, Normal[Remote])
<1>10. /\ \A i \in 1..s + p : chain[i] = f[i]
       /\ chain[s + p + 1] = Normal[Remote]
  BY <1>1, <1>4, <1>8
<1> HIDE DEF chain
<1>11. chain[s + 1] = Normal[rq.client]
  <2>1. CASE p = 0
    BY <1>1, <1>4, <1>10, <2>1 DEF Remote
  <2>2. CASE p > 0
    <3>1. s + 1 \in 1..s + p
      BY <1>1, <1>4, <2>2
    <3> QED
      BY <1>6, <1>8, <1>10, <2>2, <3>1
  <2> QED
    BY <1>1, <2>1, <2>2
<1>12. ASSUME NEW i \in 1..p
       PROVE  chain[s + 1 + i] = Normal[rq.proxies[i]]
  <2>1. CASE i = p
    <3>1. s + 1 + i = s + p + 1 /\ p # 0
      <4> HIDE DEF p
      <4> QED
        BY <1>1, <1>4, <2>1
    <3>2. Remote = rq.proxies[p]
      BY <1>1, <3>1 DEF Remote
    <3> QED
      BY <1>10, <2>1, <3>1, <3>2
  <2>2. CASE i # p
    <3>1. i \in 1..p - 1 /\ s + 1 + i \in 1..s + p
      BY <1>1, <1>4, <2>2
    <3> QED
      BY <1>6, <1>8, <1>10, <3>1
  <2> QED
    BY <2>1, <2>2
<1> QED
  BY <1>4, <1>8, <1>9, <1>11, <1>12 DEF chain, f

\* What TRUST_PROXY comes to: everybody, a number of hops, or networks.
LEMMA ResolverShape ==
    ASSUME NEW spec \in Trust, Readable(spec)
    PROVE  \/ ParseTrust(spec) = [trustAll |-> TRUE, hops |-> 0, nets |-> {}]
           \/ \E h \in Nat :
                 ParseTrust(spec) = [trustAll |-> FALSE, hops |-> h, nets |-> {}]
           \/ \E s \in SUBSET Network :
                 /\ s # {}
                 /\ ParseTrust(spec) = [trustAll |-> FALSE, hops |-> 0, nets |-> s]
<1>1. CASE spec.kind \in {"unset", "false"}
  BY <1>1 DEF ParseTrust, TrustNobody
<1>2. CASE spec.kind = "true"
  BY <1>2 DEF ParseTrust, TrustNobody
<1>3. CASE spec.kind = "number"
  <2>1. spec.hops \in Nat
    BY <1>3 DEF Readable, Trust
  <2>2. ParseTrust(spec) = [trustAll |-> FALSE, hops |-> spec.hops, nets |-> {}]
    BY <1>3 DEF ParseTrust, TrustNobody
  <2> QED
    BY <2>1, <2>2
<1>4. CASE spec.kind = "list"
  BY <1>4 DEF ParseTrust, TrustNobody, Readable, Trust
<1> QED
  BY <1>1, <1>2, <1>3, <1>4 DEF Trust

\* If TRUST_PROXY fits, the address found in the chain is the client's.
LEMMA ClientFound ==
    ASSUME Given, NEW spec \in Trust, Readable(spec),
           handler.resolver = ParseTrust(spec), TrustFits
    PROVE  RealIP = Normal[rq.client]
<1> DEFINE r == handler.resolver
           f == ForwardedChain(Forwarded)
           p == Len(rq.proxies)
           peer == Normal[Remote]
           chain == Append(f, peer)
           found == Normal[rq.client]
<1>1. p \in Nat /\ \A i \in 1..p : i \in DOMAIN rq.proxies
  BY DEF Given
<1>2. PICK s \in Nat :
          /\ f \in Seq(Spelling) /\ Len(f) = s + p
          /\ rq.spoofed = <<>> => s = 0
          /\ chain[s + 1] = found
          /\ \A i \in 1..p : chain[s + 1 + i] = Normal[rq.proxies[i]]
  BY ChainShape
<1>3. RealIP = IF r = TrustNobody \/ f = <<>> THEN peer
               ELSE IF r.trustAll THEN f[1]
               ELSE IF r.hops > 0 THEN StepBack(r, chain)
               ELSE LastUntrusted(r, chain)
  BY DEF RealIP, ClientIP
<1> HIDE DEF f, p, peer, found
<1>4. /\ Len(chain) = s + p + 1 /\ DOMAIN chain = 1..s + p + 1
      /\ chain[s + p + 1] = peer
      /\ f # <<>> => chain[1] = f[1]
  BY <1>1, <1>2
<1> HIDE DEF chain
<1>5. p = 0 => peer = found
  BY <1>1, <1>2, <1>4
<1>6. f = <<>> => p = 0
  BY <1>1, <1>2
<1>7. CASE r = [trustAll |-> TRUE, hops |-> 0, nets |-> {}]
  <2>1. s = 0
    BY <1>2, <1>7 DEF TrustFits
  <2>2. r # TrustNobody /\ r.trustAll
    BY <1>7 DEF TrustNobody
  <2>3. CASE f = <<>>
    BY <1>3, <1>5, <1>6, <2>3 DEF found
  <2>4. CASE f # <<>>
    BY <1>2, <1>3, <1>4, <2>1, <2>2, <2>4 DEF found
  <2> QED
    BY <2>3, <2>4
<1>8. ASSUME NEW h \in Nat, r = [trustAll |-> FALSE, hops |-> h, nets |-> {}]
      PROVE  RealIP = found
  <2>1. h = p
    BY <1>8 DEF TrustFits, p
  <2>2. CASE p = 0
    <3>1. r = TrustNobody
      BY <1>8, <2>1, <2>2 DEF TrustNobody
    <3> QED
      BY <1>3, <1>5, <2>2, <3>1
  <2>3. CASE p # 0
    <3>1. r # TrustNobody /\ ~r.trustAll /\ r.hops > 0 /\ f # <<>>
      BY <1>1, <1>6, <1>8, <2>1, <2>3 DEF TrustNobody
    <3>2. RealIP = StepBack(r, chain)
      BY <1>3, <3>1
    <3>3. Len(chain) - r.hops = s + 1 /\ ~(s + 1 < 1)
      BY <1>1, <1>4, <1>8, <2>1
    <3> QED
      BY <1>2, <3>2, <3>3 DEF StepBack
  <2> QED
    BY <2>2, <2>3
<1>9. ASSUME NEW ns \in SUBSET Network, ns # {},
             r = [trustAll |-> FALSE, hops |-> 0, nets |-> ns]
      PROVE  RealIP = found
  <2>1. /\ ~Trusted(r, found)
        /\ \A i \in 1..p : Trusted(r, Normal[rq.proxies[i]])
    <3>1. ~r.trustAll /\ r.nets # {}
      BY <1>9
    <3> HIDE DEF r
    <3> QED
      BY <1>1, <3>1 DEF TrustFits, found, r
  <2>2. r # TrustNobody /\ ~r.trustAll /\ ~(r.hops > 0)
    BY <1>9 DEF TrustNobody
  <2>3. CASE f = <<>>
    BY <1>3, <1>5, <1>6, <2>3
  <2>4. CASE f # <<>>
    <3> DEFINE untrusted == {i \in DOMAIN chain : ~Trusted(r, chain[i])}
    <3>1. RealIP = LastUntrusted(r, chain)
      BY <1>3, <2>2, <2>4
    <3>2. s + 1 \in untrusted
      BY <1>1, <1>2, <1>4, <2>1
    <3>3. ASSUME NEW j \in untrusted PROVE j <= s + 1
      <4>1. j \in 1..s + p + 1
        BY <1>4
      <4> SUFFICES ASSUME j > s + 1 PROVE FALSE
        BY <4>1
      <4>2. j - (s + 1) \in 1..p /\ s + 1 + (j - (s + 1)) = j
        BY <1>1, <4>1
      <4>3. chain[j] = Normal[rq.proxies[j - (s + 1)]]
        BY <1>2, <4>2
      <4> QED
        BY <2>1, <4>2, <4>3
    <3>4. \A i \in untrusted : i \in Nat
      BY <1>1, <1>4
    <3> HIDE DEF untrusted
    <3>5. (CHOOSE i \in untrusted : \A j \in untrusted : j <= i) = s + 1
      BY <3>2, <3>3, <3>4
    <3>6. LastUntrusted(r, chain) = chain[s + 1]
      BY <3>2, <3>5 DEF LastUntrusted, untrusted
    <3> QED
      BY <1>2, <3>1, <3>6
  <2> QED
    BY <2>3, <2>4
<1> QED
  BY <1>7, <1>8, <1>9, ResolverShape DEF found

\* With one hop, a header of one address is believed.
LEMMA OneAddress ==
    ASSUME NEW a \in Spelling
    PROVE  ClientIP([TrustNobody EXCEPT !.hops = 1], <<a>>, Us) = Normal[a]
<1> DEFINE r == [TrustNobody EXCEPT !.hops = 1]
           f == ForwardedChain(<<a>>)
<1>1. f = <<Normal[a]>>
  <2>1. <<a>> \in Seq(Spelling)
    OBVIOUS
  <2>2. Kept(<<a>>, Spelling) = <<a>>
    BY <2>1, KeptWhole
  <2> QED
    BY <2>2 DEF ForwardedChain
<1>2. r.hops = 1 /\ ~r.trustAll /\ r # TrustNobody
  BY DEF TrustNobody
<1>3. ClientIP(r, <<a>>, Us) = StepBack(r, Append(f, Normal[Us]))
  BY <1>1, <1>2 DEF ClientIP
<1>4. /\ Len(Append(f, Normal[Us])) = 2
      /\ Append(f, Normal[Us])[1] = Normal[a]
  <2> HIDE DEF f
  <2> QED
    BY <1>1
<1> QED
  BY <1>2, <1>3, <1>4 DEF StepBack

LEMMA PageSees == IInv => PageSeesTheClient
<1> SUFFICES ASSUME IInv, Done, out.kind = "forwarded", TrustFits
             PROVE  ClientIP([TrustNobody EXCEPT !.hops = 1], out.for, Us)
                        = Normal[rq.client]
  BY DEF PageSeesTheClient
<1>1. /\ cfg = Loaded(env) /\ Readable(cfg.trust)
      /\ handler.resolver = ParseTrust(cfg.trust)
      /\ out.for = <<RealIP>>
  BY DEF IInv, CfgOK, HandlerOK, OutOK, Done, ForwardedFor
<1>2. cfg.trust \in Trust
  BY <1>1 DEF IInv, Given, Loaded, OneHop, Trust
<1>3. RealIP = Normal[rq.client]
  BY <1>1, <1>2, ClientFound DEF IInv
<1>4. rq.client \in Spelling
  BY DEF IInv, Given
<1>5. RealIP \in Spelling /\ Normal[RealIP] = Normal[rq.client]
  BY <1>3, <1>4, AddressesAssumption
<1> QED
  BY <1>1, <1>5, OneAddress

\* However many proxies stand before us and whatever the client wrote, the page
\* sees the client, if TRUST_PROXY is right.
THEOREM PageSeesRight == Spec => []PageSeesTheClient
BY Always, PageSees, PTL

-----------------------------------------------------------------------------
(* Paths                                                                   *)

\* How far a path and the prefix agree.
Agree(segments, prefix, k) ==
    /\ k <= Len(segments)
    /\ \A i \in 1..k : segments[i] = prefix[i]
    /\ k = Len(prefix) \/ k = Len(segments) \/ segments[k + 1] # prefix[k + 1]

LEMMA SharedIs ==
    ASSUME NEW A, NEW B, NEW segments \in Seq(A), NEW prefix \in Seq(B)
    PROVE  /\ Shared(segments, prefix) \in 0..Len(prefix)
           /\ Agree(segments, prefix, Shared(segments, prefix))
           /\ \A k \in 0..Len(prefix) :
                 Agree(segments, prefix, k) => Shared(segments, prefix) = k
<1> DEFINE m == Len(segments)
           n == Len(prefix)
           S == {k \in 1..n : k <= m /\ \A i \in 1..k : segments[i] = prefix[i]}
<1>1. m \in Nat /\ n \in Nat
  OBVIOUS
<1> HIDE DEF m, n
<1>2. \E k \in 0..n : Agree(segments, prefix, k)
  <2>1. CASE S = {}
    <3>1. 0 <= m /\ \A i \in 1..0 : segments[i] = prefix[i]
      BY <1>1
    <3>2. 0 = n \/ 0 = m \/ segments[1] # prefix[1]
      <4> SUFFICES ASSUME 0 # n, 0 # m, segments[1] = prefix[1]
                   PROVE  FALSE
        OBVIOUS
      <4>1. 1 \in 1..n /\ 1 <= m /\ \A i \in 1..1 : i = 1
        BY <1>1
      <4> QED
        BY <2>1, <4>1
    <3> QED
      BY <1>1, <3>1, <3>2 DEF Agree, m, n
  <2>2. CASE S # {}
    <3>1. PICK k \in S : \A j \in S : j <= k
      <4>1. S \subseteq 1..n
        OBVIOUS
      <4> HIDE DEF S
      <4> QED
        BY <1>1, <2>2, <4>1, LastIndex
    <3>2. k = n \/ k = m \/ segments[k + 1] # prefix[k + 1]
      <4> SUFFICES ASSUME k # n, k # m, segments[k + 1] = prefix[k + 1]
                   PROVE  FALSE
        OBVIOUS
      <4>1. k + 1 \in 1..n /\ k + 1 <= m /\ ~(k + 1 <= k)
        BY <1>1
      <4>2. \A i \in 1..k + 1 : i \in 1..k \/ i = k + 1
        BY <1>1
      <4>3. k + 1 \in S
        BY <4>1, <4>2
      <4> QED
        BY <3>1, <4>1, <4>3
    <3> QED
      BY <1>1, <3>2 DEF Agree, m, n
  <2> QED
    BY <2>1, <2>2
<1>3. ASSUME NEW k \in 0..n, NEW l \in 0..n,
             Agree(segments, prefix, k), Agree(segments, prefix, l)
      PROVE  ~(k < l)
  <2> SUFFICES ASSUME k < l PROVE FALSE
    OBVIOUS
  <2>1. k + 1 \in 1..l /\ k # n /\ k # m
    BY <1>1, <1>3 DEF Agree, m
  <2> QED
    BY <1>3, <2>1 DEF Agree, m, n
<1>4. \A k, l \in 0..n :
          Agree(segments, prefix, k) /\ Agree(segments, prefix, l) => k = l
  BY <1>1, <1>3
<1>5. Shared(segments, prefix)
          = CHOOSE k \in 0..n : Agree(segments, prefix, k)
  BY DEF Shared, Agree, n
<1> QED
  BY <1>2, <1>4, <1>5 DEF n

\* What is left of a path is its last segments.
LEMMA RestIs ==
    ASSUME NEW A, NEW B, NEW segments \in Seq(A), NEW prefix \in Seq(B)
    PROVE  LET k == Shared(segments, prefix)
               rest == Rest(segments, prefix)
           IN  /\ k \in 0..Len(segments)
               /\ rest \in Seq(A) /\ Len(rest) = Len(segments) - k
               /\ \A i \in 1..Len(rest) : rest[i] = segments[k + i]
<1> DEFINE k == Shared(segments, prefix)
<1>1. k \in 0..Len(segments)
  BY SharedIs DEF Agree
<1>2. Rest(segments, prefix) = SubSeq(segments, k + 1, Len(segments))
  BY DEF Rest
<1> HIDE DEF k
<1> QED
  BY <1>1, <1>2 DEF k

\* The same for paths and prefixes.
LEMMA LeftOver ==
    \A segments, prefix \in Seq(Segment) :
        LET k == Shared(segments, prefix)
            left == Rest(segments, prefix)
        IN  /\ k \in 0..Len(segments)
            /\ left \in Seq(Segment) /\ Len(left) = Len(segments) - k
            /\ \A i \in 1..Len(left) : left[i] = segments[k + i]
BY RestIs

\* A prefix that a path has is its first segments; without one all is left.
LEMMA PrefixIs ==
    ASSUME NEW A, NEW B, NEW segments \in Seq(A), NEW prefix \in Seq(B),
           HasPrefix(segments, prefix)
    PROVE  \A i \in 1..Len(prefix) :
              i \in 1..Len(segments) /\ segments[i] = prefix[i]
BY SharedIs DEF HasPrefix, Agree

LEMMA NoPrefix ==
    ASSUME NEW A, NEW segments \in Seq(A)
    PROVE  HasPrefix(segments, <<>>) /\ Rest(segments, <<>>) = segments
<1>1. <<>> \in Seq(A)
  OBVIOUS
<1>2. Shared(segments, <<>>) = 0
  <2>1. Shared(segments, <<>>) \in 0..Len(<<>>)
    BY <1>1, SharedIs
  <2> QED
    BY <2>1
<1> QED
  BY <1>2 DEF HasPrefix, Rest

\* A path that is the prefix and a list has what the list is left.
LEMMA AfterPrefix ==
    ASSUME NEW A, NEW prefix \in Seq(A), NEW s \in A
    PROVE  /\ HasPrefix(Append(prefix, s), prefix)
           /\ Rest(Append(prefix, s), prefix) = <<s>>
<1> DEFINE n == Len(prefix)
           segments == Append(prefix, s)
<1>1. /\ segments \in Seq(A) /\ Len(segments) = n + 1 /\ n \in Nat
      /\ \A i \in 1..n : segments[i] = prefix[i]
      /\ segments[n + 1] = s
  OBVIOUS
<1> HIDE DEF segments
<1>2. Agree(segments, prefix, n) /\ n \in 0..Len(prefix)
  BY <1>1 DEF Agree
<1>3. Shared(segments, prefix) = n
  BY <1>1, <1>2, SharedIs
<1>4. Rest(segments, prefix) = SubSeq(segments, n + 1, n + 1)
  BY <1>1, <1>3 DEF Rest
<1>5. SubSeq(segments, n + 1, n + 1) = <<s>>
  <2> DEFINE t == SubSeq(segments, n + 1, n + 1)
  <2> HIDE DEF n
  <2>1. t \in Seq(A) /\ Len(t) = 1 /\ t[1] = segments[n + 1]
    BY <1>1
  <2> HIDE DEF t
  <2>2. t = <<s>>
    BY <1>1, <2>1
  <2> QED
    BY <2>2 DEF t
<1> QED
  BY <1>3, <1>4, <1>5 DEF HasPrefix, segments

\* What is split has no empty segment, and splitting it again changes nothing.
LEMMA SplitIs ==
    ASSUME NEW path \in Path
    PROVE  SplitPath(path) \in Seq(Segment)
BY KeptType DEF SplitPath, Path

LEMMA SplitOnce ==
    ASSUME NEW segments \in Seq(Segment)
    PROVE  SplitPath(segments) = segments
BY KeptWhole DEF SplitPath

LEMMA SplitAppended ==
    ASSUME NEW path \in Path, NEW s \in Segment
    PROVE  SplitPath(Append(path, s)) = Append(SplitPath(path), s)
<1>1. /\ path \in Seq(Segment \cup {Empty})
      /\ <<s>> \in Seq(Segment)
      /\ Append(path, s) = path \o <<s>>
  BY DEF Path
<1>2. Kept(path \o <<s>>, Segment) = Kept(path, Segment) \o <<s>>
  BY <1>1, KeptBefore
<1>3. Kept(path, Segment) \in Seq(Segment)
  BY <1>1, KeptType
<1> QED
  BY <1>1, <1>2, <1>3 DEF SplitPath

-----------------------------------------------------------------------------
(* The prefix                                                              *)

LEMMA Splits ==
    ASSUME IInv, Done
    PROVE  Segments \in Seq(Segment) /\ Prefix \in Seq(Segment)
<1>1. rq.path \in Path /\ cfg.prefix \in Path /\ Prefix = SplitPath(cfg.prefix)
  BY DEF IInv, Given, CfgOK, HandlerOK, Done, Loaded
<1> QED
  BY <1>1, SplitIs DEF Segments

LEMMA Transparent == IInv => PrefixTransparent
<1> DEFINE rest == Rest(Segments, Prefix)
<1> SUFFICES ASSUME IInv, Done, HasPrefix(Segments, Prefix), Unmatched(rq.path),
                    ~HasScannerFile(Prefix)
             PROVE  /\ out.kind = "refused" <=>
                           handler.blocker.enabled /\ Refuses(rest, <<>>)
                    /\ out.kind # "refused" /\ Observes =>
                           out.route = ParseRoute(rest, <<>>)
  BY DEF PrefixTransparent
<1> DEFINE n == Len(Prefix)
<1>1. Segments \in Seq(Segment) /\ Prefix \in Seq(Segment)
  BY Splits
<1>2. /\ rest \in Seq(Segment) /\ n \in 0..Len(Segments)
      /\ Len(rest) = Len(Segments) - n
      /\ \A i \in 1..Len(rest) : rest[i] = Segments[n + i]
  <2>1. Shared(Segments, Prefix) = n
    BY DEF HasPrefix
  <2> HIDE DEF n
  <2> QED
    BY <1>1, <2>1, LeftOver
<1>3. \A i \in 1..n : Segments[i] \notin ScannerFile
  <2>1. \A i \in 1..n : Segments[i] = Prefix[i] /\ i \in DOMAIN Prefix
    BY <1>1, PrefixIs
  <2> QED
    BY <2>1 DEF HasScannerFile
<1>4. HasScannerFile(Segments) <=> HasScannerFile(rest)
  <2> HIDE DEF rest, n
  <2>1. Len(Segments) \in Nat /\ n \in Nat /\ Len(rest) \in Nat
    BY <1>1, <1>2
  <2>2. DOMAIN rest = 1..Len(rest) /\ DOMAIN Segments = 1..Len(Segments)
    BY <1>1, <1>2
  <2>3. \A i \in 1..Len(rest) : n + i \in 1..Len(Segments)
    BY <1>2, <2>1
  <2>4. \A i \in 1..Len(Segments) :
            i \in 1..n \/ (i - n \in 1..Len(rest) /\ n + (i - n) = i)
    BY <1>2, <2>1
  <2> QED
    BY <1>2, <1>3, <2>2, <2>3, <2>4 DEF HasScannerFile
<1>5. SplitPath(rest) = rest /\ HasPrefix(rest, <<>>) /\ Rest(rest, <<>>) = rest
  BY <1>2, SplitOnce, NoPrefix
<1> HIDE DEF rest
<1>6. Refuses(rq.path, Prefix) <=> Refuses(rest, <<>>)
  BY <1>4, <1>5 DEF Refuses, Segments, rest
<1>7. Probed <=> handler.blocker.enabled /\ Refuses(rest, <<>>)
  BY <1>6 DEF Probed, Blocked, Unmatched, Prefix
<1>8. ParseRoute(rq.path, Prefix) = ParseRoute(rest, <<>>)
  BY <1>5 DEF ParseRoute, Segments, rest
<1>9. out.kind = "refused" <=> Probed
  BY DEF IInv, OutOK, Done
<1>10. out.kind # "refused" => out.route = Route
  BY DEF IInv, OutOK, Done
<1> QED
  BY <1>7, <1>8, <1>9, <1>10 DEF Route, Prefix

\* CUSTOM_SUB_PREFIX neither hides a probe nor refuses anybody, whatever it is.
THEOREM PrefixIsTransparent == Spec => []PrefixTransparent
BY Always, Transparent, PTL

-----------------------------------------------------------------------------
(* The link                                                                *)

\* A path that names a subscription has the prefix, and after it an identifier.
LEMMA NamedSubscription ==
    ASSUME NEW path \in Path, NEW prefix \in Seq(Segment),
           ParseRoute(path, prefix).sub # Empty
    PROVE  LET segments == SplitPath(path)
               rest == Rest(segments, prefix)
               sub == ParseRoute(path, prefix).sub
           IN  /\ HasPrefix(segments, prefix)
               /\ rest \in Seq(Segment) /\ Len(rest) \in {1, 2}
               /\ sub = rest[1] /\ sub \in Segment /\ PlausibleShortUUID(sub)
               /\ Len(prefix) + 1 \in DOMAIN segments
               /\ segments[Len(prefix) + 1] = sub
<1> DEFINE segments == SplitPath(path)
           rest == Rest(segments, prefix)
           sub == ParseRoute(path, prefix).sub
<1>1. segments \in Seq(Segment)
  BY SplitIs
<1>2. /\ HasPrefix(segments, prefix)
      /\ Len(rest) \in {1, 2} /\ PlausibleShortUUID(rest[1]) /\ sub = rest[1]
  BY DEF ParseRoute, NoRoute
<1> HIDE DEF sub, segments
<1>3. Shared(segments, prefix) = Len(prefix)
  BY <1>2 DEF HasPrefix
<1>4. /\ Len(prefix) \in 0..Len(segments)
      /\ rest \in Seq(Segment) /\ Len(rest) = Len(segments) - Len(prefix)
      /\ \A i \in 1..Len(rest) : rest[i] = segments[Len(prefix) + i]
  BY <1>1, <1>3, LeftOver
<1> HIDE DEF rest
<1>5. rest[1] \in Segment /\ rest[1] = segments[Len(prefix) + 1]
  BY <1>2, <1>4
<1>6. Len(prefix) + 1 \in 1..Len(segments)
  BY <1>1, <1>2, <1>4
<1> QED
  BY <1>1, <1>2, <1>4, <1>5, <1>6 DEF sub, segments, rest

\* The identifier after the prefix is no probe, if it was none in a path with
\* the same prefix.
LEMMA LinkPasses ==
    ASSUME NEW path \in Path, NEW prefix \in Seq(Segment), NEW linked \in Path,
           ParseRoute(path, prefix).sub # Empty, ~Refuses(path, prefix),
           SplitPath(linked) = Append(prefix, ParseRoute(path, prefix).sub)
    PROVE  ~Refuses(linked, prefix)
<1> DEFINE segments == SplitPath(path)
           rest == Rest(segments, prefix)
           sub == ParseRoute(path, prefix).sub
           n == Len(prefix)
<1>1. /\ HasPrefix(segments, prefix)
      /\ rest \in Seq(Segment) /\ Len(rest) \in {1, 2}
      /\ sub = rest[1] /\ sub \in Segment /\ PlausibleShortUUID(sub)
      /\ n + 1 \in DOMAIN segments /\ segments[n + 1] = sub
  BY NamedSubscription
<1>2. segments \in Seq(Segment)
  BY SplitIs
<1>3. /\ \A i \in DOMAIN segments : segments[i] \notin ScannerFile
      /\ ~HasScannerName(rest)
  BY DEF Refuses, HasScannerFile
<1>4. \A i \in 1..n : i \in DOMAIN segments /\ segments[i] = prefix[i]
  BY <1>1, <1>2, PrefixIs
<1> HIDE DEF segments, rest, sub
<1>5. Rest(Append(prefix, sub), prefix) = <<sub>>
  BY <1>1, AfterPrefix
<1>6. ~HasScannerFile(Append(prefix, sub))
  <2>1. ASSUME NEW i \in 1..n + 1
        PROVE  Append(prefix, sub)[i] = segments[i] /\ i \in DOMAIN segments
    <3>1. CASE i = n + 1
      BY <1>1, <3>1
    <3>2. CASE i # n + 1
      BY <1>4, <3>2
    <3> QED
      BY <3>1, <3>2
  <2>2. DOMAIN Append(prefix, sub) = 1..n + 1
    OBVIOUS
  <2> QED
    BY <1>3, <2>1, <2>2 DEF HasScannerFile
<1>7. ~HasScannerName(<<sub>>)
  <2>1. sub \notin ScannerName
    BY <1>1, <1>3 DEF HasScannerName
  <2> QED
    BY <2>1 DEF HasScannerName
<1>8. ~HasDotted(<<sub>>)
  <2>1. sub \notin Dotted
    BY <1>1, SegmentsAssumption DEF PlausibleShortUUID
  <2> QED
    BY <2>1 DEF HasDotted
<1> QED
  BY <1>5, <1>6, <1>7, <1>8 DEF Refuses, sub

LEMMA LeadsBack == IInv => LinkLeadsBack
<1> SUFFICES ASSUME IInv, Done, out.kind # "refused", out.link # Nil
             PROVE  /\ ParseRoute(out.link.path, Prefix) =
                           [sub |-> out.route.sub, type |-> Empty]
                    /\ Unmatched(out.link.path) =>
                           ~Blocked(handler.blocker, out.link.path)
                    /\ out.kind = "forwarded" =>
                           /\ Plain(rq.protos) =>
                                  out.link.scheme = First(out.proto)
                           /\ Plain(rq.hosts) =>
                                  out.link.host = First(out.host)
  BY DEF LinkLeadsBack
<1> DEFINE sub == Route.sub
           link == Append(cfg.prefix, sub)
<1>1. /\ out.route = Route /\ out.link = Link /\ ~Probed
      /\ out.kind = "forwarded" =>
             out.proto = ForwardedProto /\ out.host = ForwardedHost
  BY DEF IInv, OutOK, Done
<1>2. /\ sub # Empty /\ LinkHost # Blank
      /\ Link = [scheme |-> LinkScheme, host |-> LinkHost, path |-> link]
  BY <1>1 DEF Link, SubscriptionURL
<1>3. Route = ParseRoute(rq.path, Prefix)
  BY <1>2 DEF Route, NoRoute, Prefix
<1>4. /\ rq.path \in Path /\ cfg.prefix \in Path /\ Prefix \in Seq(Segment)
      /\ Prefix = SplitPath(cfg.prefix)
  <2>1. rq.path \in Path /\ cfg.prefix \in Path
    BY DEF IInv, Given, CfgOK, Done, Loaded
  <2>2. Prefix = SplitPath(cfg.prefix)
    BY DEF IInv, HandlerOK, Done
  <2> QED
    BY <2>1, <2>2, Splits
<1>5. sub \in Segment /\ PlausibleShortUUID(sub)
  BY <1>2, <1>3, <1>4, NamedSubscription
<1> HIDE DEF sub
<1>6. link \in Path /\ SplitPath(link) = Append(Prefix, sub)
  <2>1. link \in Path
    BY <1>4, <1>5 DEF Path
  <2> QED
    BY <1>4, <1>5, <2>1, SplitAppended
<1> HIDE DEF link
<1>7. ParseRoute(link, Prefix) = [sub |-> sub, type |-> Empty]
  <2>1. /\ HasPrefix(SplitPath(link), Prefix)
        /\ Rest(SplitPath(link), Prefix) = <<sub>>
    BY <1>4, <1>5, <1>6, AfterPrefix
  <2>2. Len(<<sub>>) = 1 /\ <<sub>>[1] = sub
    OBVIOUS
  <2> QED
    BY <1>5, <2>1, <2>2 DEF ParseRoute
<1>8. ASSUME Unmatched(link) PROVE ~Blocked(handler.blocker, link)
  <2>1. ASSUME handler.blocker.enabled PROVE ~Refuses(link, Prefix)
    <3>1. ~Refuses(rq.path, Prefix)
      BY <1>1, <2>1 DEF Probed, Blocked, Prefix
    <3> QED
      BY <1>2, <1>3, <1>4, <1>6, <3>1, LinkPasses DEF sub
  <2> QED
    BY <1>8, <2>1 DEF Blocked, Unmatched, Prefix
<1>9. ASSUME Plain(rq.protos) PROVE LinkScheme = First(ForwardedProto)
  BY <1>9 DEF LinkScheme, ForwardedProto, Plain, First
<1>10. ASSUME Plain(rq.hosts) PROVE LinkHost = First(ForwardedHost)
  BY <1>2, <1>10 DEF LinkHost, ForwardedHost, Plain, First
<1> QED
  BY <1>1, <1>2, <1>7, <1>8, <1>9, <1>10 DEF sub

\* {SUBSCRIPTION_URL} leads back to the subscription: it is not refused, names
\* no client type, and has the origin that the page is told.
THEOREM LinkLeadsHome == Spec => []LinkLeadsBack
BY Always, LeadsBack, PTL

-----------------------------------------------------------------------------
(* What the page may make of a path                                        *)

IsResolved(g, segments) ==
    g = [n \in 0..Len(segments) |->
            IF n = 0 THEN <<>> ELSE Enter(g[n - 1], segments[n])]

LEMMA ResolveIs ==
    ASSUME NEW segments
    PROVE  Resolve(segments)
               = (CHOOSE g : IsResolved(g, segments))[Len(segments)]
BY DEF Resolve, IsResolved

\* Where there are no dots, nothing is resolved.
LEMMA Undotted ==
    ASSUME NEW segments \in Seq(Segment),
           \A i \in 1..Len(segments) : segments[i] \notin {Dot, DotDot}
    PROVE  Resolve(segments) = segments
<1> DEFINE m == Len(segments)
           h == [n \in 0..m |-> SubSeq(segments, 1, n)]
           g == CHOOSE g : IsResolved(g, segments)
           N == {n \in Nat : n <= m => g[n] = SubSeq(segments, 1, n)}
<1>1. m \in Nat
  OBVIOUS
<1>2. \A n \in 1..m : SubSeq(segments, 1, n)
                          = Enter(SubSeq(segments, 1, n - 1), segments[n])
  <2> SUFFICES ASSUME NEW n \in 1..m
               PROVE  SubSeq(segments, 1, n)
                          = Append(SubSeq(segments, 1, n - 1), segments[n])
    BY DEF Enter
  <2> DEFINE a == SubSeq(segments, 1, n)
             b == SubSeq(segments, 1, n - 1)
             c == Append(b, segments[n])
  <2>1. /\ a \in Seq(Segment) /\ Len(a) = n
        /\ \A i \in 1..n : a[i] = segments[i]
    OBVIOUS
  <2>2. /\ b \in Seq(Segment) /\ Len(b) = n - 1
        /\ \A i \in 1..n - 1 : b[i] = segments[i]
    OBVIOUS
  <2>3. segments[n] \in Segment
    OBVIOUS
  <2> HIDE DEF a, b, m
  <2>4. /\ c \in Seq(Segment) /\ Len(c) = n
        /\ \A i \in 1..n - 1 : c[i] = b[i]
        /\ c[n] = segments[n]
    BY <1>1, <2>2, <2>3
  <2> HIDE DEF c
  <2>5. \A i \in 1..n : a[i] = c[i]
    <3>1. \A i \in 1..n : i \in 1..n - 1 \/ i = n
      BY <1>1
    <3> QED
      BY <2>1, <2>2, <2>4, <3>1
  <2>6. a = c
    BY <2>1, <2>4, <2>5
  <2> QED
    BY <2>6 DEF a, b, c
<1>3. SubSeq(segments, 1, 0) = <<>> /\ SubSeq(segments, 1, m) = segments
  OBVIOUS
<1> HIDE DEF m
<1>4. IsResolved(h, segments)
  <2>1. \A n \in 0..m : h[n] = IF n = 0 THEN <<>> ELSE Enter(h[n - 1], segments[n])
    <3> SUFFICES ASSUME NEW n \in 0..m, n # 0
                 PROVE  h[n] = Enter(h[n - 1], segments[n])
      BY <1>3
    <3>1. n \in 1..m /\ n - 1 \in 0..m
      BY <1>1
    <3> QED
      BY <1>2, <3>1
  <2> QED
    BY <2>1 DEF IsResolved, m
<1>5. IsResolved(g, segments)
  BY <1>4
<1> HIDE DEF g, h
<1>6. /\ g[0] = <<>>
      /\ \A n \in 1..m : g[n] = Enter(g[n - 1], segments[n])
  <2>1. \A n \in 0..m : g[n] = IF n = 0 THEN <<>> ELSE Enter(g[n - 1], segments[n])
    BY <1>5 DEF IsResolved, m
  <2>2. 0 \in 0..m /\ \A n \in 1..m : n \in 0..m /\ n # 0
    BY <1>1
  <2> QED
    BY <2>1, <2>2
<1>7. 0 \in N
  BY <1>3, <1>6
<1>8. ASSUME NEW n \in N PROVE n + 1 \in N
  <2> SUFFICES ASSUME n + 1 <= m
               PROVE  g[n + 1] = SubSeq(segments, 1, n + 1)
    OBVIOUS
  <2>1. n + 1 \in 1..m /\ (n + 1) - 1 = n /\ n <= m
    BY <1>1
  <2>2. g[n] = SubSeq(segments, 1, n)
    BY <2>1
  <2> QED
    BY <1>2, <1>6, <2>1, <2>2
<1>9. m \in N
  <2>1. N \in SUBSET Nat
    OBVIOUS
  <2> HIDE DEF N
  <2> QED
    BY <1>1, <1>7, <1>8, <2>1, NumberInduction
<1> QED
  BY <1>1, <1>3, <1>9, ResolveIs DEF g, m

\* A leading part of a path that passes would have passed too.
LEMMA PartPasses ==
    ASSUME NEW path \in Path, NEW prefix \in Seq(Segment),
           ~Refuses(path, prefix), NEW n \in 0..Len(SplitPath(path))
    PROVE  ~Refuses(SubSeq(SplitPath(path), 1, n), prefix)
<1> DEFINE segments == SplitPath(path)
           part == SubSeq(segments, 1, n)
           k == Shared(segments, prefix)
           l == Shared(part, prefix)
           rest == Rest(segments, prefix)
           left == Rest(part, prefix)
<1>1. segments \in Seq(Segment)
  BY SplitIs
<1> HIDE DEF segments
<1>2. /\ part \in Seq(Segment) /\ Len(part) = n /\ n \in Nat
      /\ \A i \in 1..n : i \in 1..Len(segments) /\ part[i] = segments[i]
  BY <1>1 DEF segments
<1> HIDE DEF part
<1>3. SplitPath(part) = part
  BY <1>2, SplitOnce
<1>4. k \in 0..Len(prefix) /\ Agree(segments, prefix, k)
  BY <1>1, SharedIs
<1>5. l = IF k <= n THEN k ELSE n
  <2> DEFINE j == IF k <= n THEN k ELSE n
  <2>1. j \in 0..Len(prefix) /\ j <= k /\ j <= n
    BY <1>2, <1>4
  <2>2. \A i \in 1..j : i \in 1..k /\ i \in 1..n
    BY <1>2, <1>4, <2>1
  <2>3. Agree(part, prefix, j)
    <3>1. \A i \in 1..j : part[i] = prefix[i]
      BY <1>2, <1>4, <2>2 DEF Agree
    <3>2. j = Len(prefix) \/ j = n \/ part[j + 1] # prefix[j + 1]
      <4> SUFFICES ASSUME j # n PROVE j = Len(prefix) \/ part[j + 1] # prefix[j + 1]
        OBVIOUS
      <4>1. j = k /\ j + 1 \in 1..n
        BY <1>2, <1>4, <2>1
      <4>2. j + 1 \in 1..Len(segments) /\ part[j + 1] = segments[j + 1]
        BY <1>2, <4>1
      <4>3. j # Len(segments)
        BY <1>1, <4>2
      <4> QED
        BY <1>4, <4>1, <4>2, <4>3 DEF Agree
    <3> QED
      BY <1>2, <2>1, <3>1, <3>2 DEF Agree
  <2> HIDE DEF j
  <2>4. l = j
    BY <1>2, <2>1, <2>3, SharedIs
  <2> QED
    BY <2>4 DEF j
<1>6. /\ rest \in Seq(Segment) /\ Len(rest) = Len(segments) - k
      /\ \A i \in 1..Len(rest) : rest[i] = segments[k + i]
      /\ k \in 0..Len(segments)
  BY <1>1, LeftOver
<1>7. /\ left \in Seq(Segment) /\ Len(left) = n - l
      /\ \A i \in 1..Len(left) : left[i] = part[l + i]
  BY <1>2, LeftOver
<1> HIDE DEF rest, left, k, l
\* What is left of the part is a leading part of what is left.
<1>8. \A i \in 1..Len(left) : /\ i \in 1..Len(rest) /\ left[i] = rest[i]
                              /\ Len(left) <= Len(rest)
  <2> SUFFICES ASSUME NEW i \in 1..Len(left)
               PROVE  /\ i \in 1..Len(rest) /\ left[i] = rest[i]
                      /\ Len(left) <= Len(rest)
    OBVIOUS
  <2>1. k <= n /\ l = k
    BY <1>2, <1>4, <1>5, <1>7
  <2>2. n <= Len(segments) /\ Len(segments) \in Nat
    BY <1>1 DEF segments
  <2>3. i \in 1..Len(rest) /\ Len(left) <= Len(rest) /\ k + i \in 1..n
    BY <1>2, <1>4, <1>6, <1>7, <2>1, <2>2
  <2> QED
    BY <1>2, <1>6, <1>7, <2>1, <2>3
<1>9. /\ \A i \in 1..Len(segments) : segments[i] \notin ScannerFile
      /\ ~HasScannerName(rest) /\ ~HasDotted(rest)
  BY <1>1 DEF Refuses, HasScannerFile, segments, rest
<1>10. ~HasScannerFile(part)
  BY <1>2, <1>9 DEF HasScannerFile
<1>11. ~HasScannerName(left)
  <2> SUFFICES ASSUME left # <<>>, left[1] \in ScannerName PROVE FALSE
    BY DEF HasScannerName
  <2>1. 1 \in 1..Len(left)
    BY <1>7
  <2>2. 1 \in 1..Len(rest) /\ rest[1] \in ScannerName
    BY <1>8, <2>1
  <2> QED
    BY <1>6, <1>9, <2>2 DEF HasScannerName
<1>12. ~HasDotted(left)
  <2> SUFFICES ASSUME NEW i \in 1..Len(left), left[i] \in Dotted,
                      left[i] \in {Dot, DotDot} \/ ~Exempt(left, i)
               PROVE  FALSE
    BY <1>7 DEF HasDotted
  <2>1. i \in 1..Len(rest) /\ rest[i] = left[i] /\ Len(left) <= Len(rest)
    BY <1>8
  <2>2. i \in DOMAIN rest
    BY <1>6, <2>1
  <2>3. rest[i] \notin {Dot, DotDot} /\ Exempt(rest, i)
    BY <1>9, <2>1, <2>2 DEF HasDotted
  <2>4. CASE i = 1
    BY <2>1, <2>3, <2>4 DEF Exempt
  <2>5. CASE i # 1
    <3>1. i = 2 /\ i = Len(rest)
      BY <2>3, <2>5 DEF Exempt
    <3>2. Len(left) = 2 /\ 1 \in 1..Len(left)
      <4> DEFINE N == Len(left)
      <4>1. N \in Nat /\ N <= Len(rest) /\ i \in 1..N
        BY <1>7, <2>1
      <4>2. N <= 2 /\ 2 \in 1..N
        BY <3>1, <4>1
      <4> HIDE DEF N
      <4>3. N = 2 /\ 1 \in 1..N
        BY <4>1, <4>2
      <4> QED
        BY <4>3 DEF N
    <3>3. left[1] = rest[1]
      BY <1>8, <3>2
    <3> QED
      BY <2>1, <2>3, <3>1, <3>2, <3>3 DEF Exempt
  <2> QED
    BY <2>4, <2>5
<1> QED
  BY <1>3, <1>10, <1>11, <1>12 DEF Refuses, part, left, segments

\* Behind a prefix without dots, a path that passes has none to resolve.
LEMMA PassedUndotted ==
    ASSUME NEW segments \in Seq(Segment), NEW prefix \in Seq(Segment),
           \A i \in DOMAIN prefix : prefix[i] \notin Dotted,
           ~HasDotted(Rest(segments, prefix)), NEW i \in 1..Len(segments)
    PROVE  segments[i] \notin {Dot, DotDot}
<1> DEFINE k == Shared(segments, prefix)
           rest == Rest(segments, prefix)
<1>1. /\ k \in 0..Len(segments) /\ rest \in Seq(Segment)
      /\ Len(rest) = Len(segments) - k
      /\ \A j \in 1..Len(rest) : rest[j] = segments[k + j]
  BY RestIs
<1>2. k \in 0..Len(prefix) /\ \A j \in 1..k : segments[j] = prefix[j]
  BY SharedIs DEF Agree
<1> HIDE DEF k, rest
<1>3. CASE i <= k
  <2>1. i \in 1..k /\ i \in DOMAIN prefix
    BY <1>1, <1>2, <1>3
  <2> QED
    BY <1>2, <2>1, SegmentsAssumption
<1>4. CASE ~(i <= k)
  <2>1. i - k \in 1..Len(rest) /\ k + (i - k) = i
    BY <1>1, <1>4
  <2>2. i - k \in DOMAIN rest /\ rest[i - k] = segments[i]
    BY <1>1, <2>1
  <2> QED
    BY <2>2, SegmentsAssumption DEF HasDotted, rest
<1> QED
  BY <1>3, <1>4

LEMMA Judged == IInv => ForwardedAsJudged
<1> SUFFICES ASSUME IInv, Done, out.kind # "refused", handler.blocker.enabled,
                    \A i \in DOMAIN Prefix : Prefix[i] \notin Dotted,
                    NEW n \in 0..Len(Segments)
             PROVE  ~Refuses(Resolve(SubSeq(Segments, 1, n)), Prefix)
  BY DEF ForwardedAsJudged
<1> DEFINE part == SubSeq(Segments, 1, n)
<1>1. Segments \in Seq(Segment) /\ Prefix \in Seq(Segment) /\ rq.path \in Path
  BY Splits DEF IInv, Given
<1>2. ~Refuses(rq.path, Prefix)
  BY DEF IInv, OutOK, Done, Probed, Blocked, Prefix
<1>3. ~Refuses(part, Prefix)
  BY <1>1, <1>2, PartPasses DEF Segments
<1>4. ~HasDotted(Rest(Segments, Prefix))
  BY <1>2 DEF Refuses, Segments
<1>5. \A i \in 1..Len(Segments) : Segments[i] \notin {Dot, DotDot}
  BY <1>1, <1>4, PassedUndotted
<1>6. /\ part \in Seq(Segment)
      /\ \A i \in 1..Len(part) : part[i] \notin {Dot, DotDot}
  BY <1>1, <1>5
<1>7. Resolve(part) = part
  BY <1>6, Undotted
<1> QED
  BY <1>3, <1>7

\* The blocker judges what is forwarded as the page will: no leading part of a
\* path that passes is a file it would have refused.
THEOREM JudgedAsForwarded == Spec => []ForwardedAsJudged
BY Always, Judged, PTL

=============================================================================

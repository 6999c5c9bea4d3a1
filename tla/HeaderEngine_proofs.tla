------------------------ MODULE HeaderEngine_proofs -------------------------
(***************************************************************************)
(* Proofs about HeaderEngine, for any list of rules, any headers and any   *)
(* answer of the panel: what nothing asks to be changed passes untouched,  *)
(* the quota shown is the real one, and a race of candidates that asks the *)
(* panel late, or not at all, ends as the rules say.                       *)
(***************************************************************************)
EXTENDS HeaderEngine, FiniteSetTheorems, TLAPS

-----------------------------------------------------------------------------
(* The invariant                                                           *)

\* The rules are a list of rules, the headers a function on the names; the
\* panel is asked, and headers are written, only for candidates.
Shape ==
    /\ engine.rules \in Seq({engine.rules[i] : i \in DOMAIN engine.rules})
    /\ \A i \in DOMAIN engine.rules : IsRule(engine.rules[i])
    /\ engine.notice = Nil \/ IsSource(engine.notice)
    /\ h = [n \in Name |-> h[n]]
    /\ at \in Nat \ {0}
    /\ \E S : todo \in Seq(S)
    /\ pc \in {"fetch", "write"} => todo # <<>>

\* Until the first write only the quota may have been hidden.
BeforeWriting ==
    /\ pc \in {"notice", "enter"} => h = sent
    /\ pc = "collect" =>
          \A n \in Name :
              h[n] = sent[n] \/ (n = UserInfoHeader /\ engine.force)

\* A candidate has a reason in what was sent and configured, and the texts it
\* will render tell of no other quota than the real one.
CandidateOK(c) ==
    /\ c.rule.name \in Name /\ Justified(c.rule.name)
    /\ ~c.rule.remove => Honest(c.source)
    /\ c.original # Nil => Honest(c.original)

CandidatesOK == \A i \in 1..Len(todo) : CandidateOK(todo[i])

\* The counters in use are the page's, the panel's word is the panel's.
CountersOK ==
    /\ pc \in {"collect", "fetch", "write"} => userInfo = SentInfo
    /\ info = Nil \/ info = PanelSays

IInv ==
    /\ Shape /\ BeforeWriting /\ CandidatesOK /\ CountersOK
    /\ OpaqueUntouched /\ ShowsRealQuota

\* What the system was given does not change, and neither does what is
\* justified or honest by it.
LEMMA JustifiedStays ==
    ASSUME UNCHANGED given, NEW n
    PROVE  Justified(n)' <=> Justified(n)
BY DEF given, Justified, Present, Holes, TextOf, MatchesRequest, Hole, Raw,
       Placeholder, Catalog

LEMMA HonestStays ==
    ASSUME UNCHANGED given, NEW t
    PROVE  Honest(t)' <=> Honest(t)
BY DEF given, Honest, RealQuotas, Counter, Used, SentInfo, ParseUserInfo, FieldOf,
       PanelSays

LEMMA CandidateStays ==
    ASSUME UNCHANGED given, NEW c
    PROVE  CandidateOK(c)' <=> CandidateOK(c)
BY JustifiedStays, HonestStays DEF CandidateOK

LEMMA SaysStays ==
    ASSUME UNCHANGED given
    PROVE  SentInfo' = SentInfo /\ PanelSays' = PanelSays
BY DEF given, SentInfo, ParseUserInfo, FieldOf, PanelSays

-----------------------------------------------------------------------------
(* Rendering                                                               *)

\* What comes from the page or the configuration shows no quota yet.
LEMMA SourceIsHonest == ASSUME NEW t, IsSource(t) PROVE Honest(t)
BY DEF IsSource, SourceKind, Honest

LEMMA TextIsHonest ==
    ASSUME NEW v, Honest(v.text) PROVE Honest(TextOf(v))
BY DEF TextOf, Honest, Raw

\* What a name resolves to is a value of that name.
LEMMA LookupShows ==
    ASSUME NEW n, NEW ui, NEW inf, NEW a \in Lookup(n, ui, inf)
    PROVE  a = Custom(n) \/ \E v : a = Shown(n, v)
BY DEF Lookup, Valued

\* Placeholders are filled with the real quota if the counters are right.
LEMMA RenderIsHonest ==
    ASSUME NEW t, NEW ui, NEW inf, Honest(t),
           Counter(ui, inf, "total") \in RealQuotas
    PROVE  Honest(Render(t, ui, inf))
<1> SUFFICES ASSUME NEW b \in t, NEW a \in Fill(b, ui, inf),
                    a[1] = "shown", a[2] = "TRAFFIC_LIMIT"
             PROVE  a[3] \in RealQuotas
  BY DEF Honest, Render
<1>1. CASE a = b
  BY <1>1 DEF Honest
<1>2. CASE a \in Lookup(b[2], ui, inf)
  <2>1. a # Custom(b[2])
    BY DEF Custom
  <2>2. b[2] = "TRAFFIC_LIMIT"
    BY <1>2, <2>1, LookupShows DEF Shown
  <2>3. a = Shown("TRAFFIC_LIMIT", Counter(ui, inf, "total"))
    BY <1>2, <2>1, <2>2 DEF Lookup, Valued
  <2> QED
    BY <2>3 DEF Shown
<1> QED
  BY <1>1, <1>2 DEF Fill

LEMMA ResultIsHonest ==
    ASSUME NEW c, CandidateOK(c), ~c.rule.remove, NEW ui, NEW inf,
           Counter(ui, inf, "total") \in RealQuotas
    PROVE  Honest(Result(c, ui, inf).text)
<1> DEFINE around == c.source \ {Hole("ORIGINAL_VALUE")}
<1>1. Honest(c.source) /\ Honest(around)
  BY DEF CandidateOK, Honest
<1>2. Honest(Render(around, ui, inf))
  BY <1>1, RenderIsHonest
<1>3. c.original # Nil => Honest(Render(c.original, ui, inf))
  BY RenderIsHonest DEF CandidateOK
<1>4. Honest(UNION {IF engine.unknown = "keep" THEN {a} ELSE {} :
                       a \in c.source \ around})
  BY <1>1 DEF Honest
<1> QED
  BY <1>2, <1>3, <1>4 DEF Result, RenderAround, Honest

-----------------------------------------------------------------------------
(* Every step keeps the invariant                                          *)

\* Initially nothing has been touched.
LEMMA InitInv == Init => IInv
<1> SUFFICES ASSUME Init PROVE IInv
  OBVIOUS
<1>1. PICK s \in Starts : engine = s.engine /\ sent = s.sent /\ h = s.sent
  BY DEF Init
<1>2. Shape
  <2>1. todo \in Seq({})
    BY DEF Init
  <2>2. engine.rules \in Seq({engine.rules[i] : i \in DOMAIN engine.rules})
    BY <1>1, ConstantsAssumption DEF ConstantsAssumption
  <2>3. \A i \in DOMAIN engine.rules : IsRule(engine.rules[i])
    BY <1>1, ConstantsAssumption DEF ConstantsAssumption
  <2>4. h = [n \in Name |-> h[n]]
    BY <1>1, ConstantsAssumption DEF ConstantsAssumption
  <2>5. engine.notice = Nil \/ IsSource(engine.notice)
    BY <1>1, ConstantsAssumption DEF ConstantsAssumption
  <2> QED
    BY <2>1, <2>2, <2>3, <2>4, <2>5 DEF Init, Shape
<1>3. BeforeWriting /\ CandidatesOK /\ CountersOK /\ OpaqueUntouched
  BY <1>1 DEF Init, BeforeWriting, CandidatesOK, CountersOK, OpaqueUntouched
<1>4. ShowsRealQuota
  <2>1. \A n \in Name : Present(h, n) => IsSource(h[n].text)
    BY <1>1, ConstantsAssumption DEF ConstantsAssumption, Present
  <2> QED
    BY <2>1, SourceIsHonest DEF Init, ShowsRealQuota
<1> QED
  BY <1>2, <1>3, <1>4 DEF IInv

\* Hiding the quota touches the userinfo header alone.
LEMMA ForcedOnlyUserInfo ==
    ASSUME h = [n \in Name |-> h[n]]
    PROVE  /\ Forced(h) = [n \in Name |-> Forced(h)[n]]
           /\ \A n \in Name :
                 Forced(h)[n] = h[n] \/ (n = UserInfoHeader /\ engine.force)
<1>1. CASE engine.force /\ ParseUserInfo(h[UserInfoHeader]) # Nil
  <2>1. Forced(h) = [h EXCEPT ![UserInfoHeader] =
                        ForceUnlimitedTotal(h[UserInfoHeader])]
    BY <1>1 DEF Forced
  <2> QED
    BY <1>1, <2>1
<1>2. CASE ~(engine.force /\ ParseUserInfo(h[UserInfoHeader]) # Nil)
  BY <1>2 DEF Forced
<1> QED
  BY <1>1, <1>2

\* The field that hides the quota is no placeholder's value.
LEMMA ForcingIsHonest ==
    ASSUME h = [n \in Name |-> h[n]], ShowsRealQuota,
           NEW n \in Name, Forced(h)[n] # h[n]
    PROVE  Honest(Forced(h)[n].text)
<1>1. n = UserInfoHeader /\ ParseUserInfo(h[n]) # Nil
      /\ Forced(h)[n] = ForceUnlimitedTotal(h[n])
  BY DEF Forced
<1>2. Honest(h[n].text)
  BY <1>1 DEF ShowsRealQuota, Present, Absent, ParseUserInfo
<1> DEFINE kept == {a \in h[n].text : ~(a[1] = "field" /\ a[2] = "total")}
           text == kept \cup {Field("total", 0)}
<1>3. Honest(kept)
  BY <1>2 DEF Honest
<1>4. Honest(text)
  BY <1>3 DEF Honest, Field
<1>5. Forced(h)[n].text = text
  BY <1>1 DEF ForceUnlimitedTotal
<1> QED
  BY <1>4, <1>5

\* A rule with work to do to headers that have not been touched, but for the
\* quota, justifies what it does.
LEMMA WorkIsJustified ==
    ASSUME NEW i \in DOMAIN engine.rules,
           IsRule(engine.rules[i]),
           \A n \in Name :
               h[n] = sent[n] \/ (n = UserInfoHeader /\ engine.force),
           MatchesRequest(engine.rules[i], h), HasWork(engine.rules[i], h)
    PROVE  Justified(engine.rules[i].name)
<1> DEFINE r == engine.rules[i]
<1>1. r.name \in Name /\ r.remove \in BOOLEAN
  BY DEF IsRule
<1>2. CASE r.name = UserInfoHeader /\ engine.force
  BY <1>2 DEF Justified
<1>3. CASE h[r.name] = sent[r.name] /\ (r.template # Nil \/ r.remove)
  BY <1>3 DEF Justified, MatchesRequest, Present
<1>4. CASE h[r.name] = sent[r.name] /\ r.template = Nil /\ ~r.remove
  BY <1>4 DEF Justified, HasWork, Substitutes, Present
<1> QED
  BY <1>1, <1>2, <1>3, <1>4

-----------------------------------------------------------------------------
\* What is made of a rule that has work to do is a proper candidate.
LEMMA CandidateIsOK ==
    ASSUME NEW r, r.name \in Name, Justified(r.name), HasWork(r, h),
           r.template = Nil \/ IsSource(r.template), ShowsRealQuota
    PROVE  CandidateOK(Candidate(r, h))
<1>1. Present(h, r.name) => Honest(TextOf(h[r.name]))
  BY TextIsHonest DEF ShowsRealQuota
<1>2. ~r.remove => Honest(Candidate(r, h).source)
  BY <1>1, SourceIsHonest DEF Candidate, Original, HasWork, Substitutes
<1>3. Candidate(r, h).original # Nil => Honest(Candidate(r, h).original)
  BY <1>1 DEF Candidate, Original
<1> QED
  BY <1>2, <1>3 DEF CandidateOK, Candidate

\* Every step keeps the invariant.
LEMMA StepInv == IInv /\ [Next]_vars => IInv'
<1> SUFFICES ASSUME IInv, [Next]_vars PROVE IInv'
  OBVIOUS
<1> USE DEF IInv
<1>1. CASE RenderNotice
  <2>1. /\ UNCHANGED <<given, h, at, todo, info>>
        /\ pc = "notice" /\ pc' = "enter"
    BY <1>1 DEF RenderNotice
  <2>2. notice' # Nil => Honest(notice')
    <3> DEFINE ui == ParseUserInfo(h[UserInfoHeader])
               inf == IF Asks(NeedsPanel(Holes(engine.notice), ui)) THEN panel
                      ELSE Nil
    <3>1. ui = SentInfo
      BY <2>1 DEF BeforeWriting, SentInfo
    <3>2. inf \in {Nil, PanelSays}
      BY DEF Asks, PanelSays
    <3>3. Counter(ui, inf, "total") \in RealQuotas
      BY <3>1, <3>2 DEF RealQuotas
    <3>4. CASE engine.notice = Nil
      BY <1>1, <3>4 DEF RenderNotice
    <3>5. CASE engine.notice # Nil
      <4>1. notice' = Render(engine.notice, ui, inf)
        BY <1>1, <3>5 DEF RenderNotice
      <4>2. Honest(engine.notice)
        BY <3>5, SourceIsHonest DEF Shape
      <4> HIDE DEF ui, inf
      <4> QED
        BY <3>3, <4>1, <4>2, RenderIsHonest
    <3> QED
      BY <3>4, <3>5
  <2>3. ShowsRealQuota'
    BY <2>1, <2>2, HonestStays DEF ShowsRealQuota, Present
  <2>4. Shape' /\ BeforeWriting' /\ OpaqueUntouched'
    BY <2>1, JustifiedStays DEF given, Shape, BeforeWriting, OpaqueUntouched
  <2>5. CandidatesOK' /\ CountersOK'
    BY <2>1, CandidateStays, SaysStays DEF CandidatesOK, CountersOK
  <2> QED
    BY <2>3, <2>4, <2>5
<1>2. CASE Enter
  <2>1. /\ UNCHANGED <<given, notice, at, todo, info>>
        /\ pc' \in {"collect", "done"}
    BY <1>2 DEF Enter
  <2>2. h = sent /\ h = [n \in Name |-> h[n]]
    BY <1>2 DEF Enter, BeforeWriting, Shape
  <2>3. h' = h \/ h' = Forced(h)
    BY <1>2 DEF Enter
  <2>4. \A n \in Name : h'[n] = h[n] \/ (n = UserInfoHeader /\ engine.force)
    BY <2>2, <2>3, ForcedOnlyUserInfo
  <2>5. Shape'
    BY <2>1, <2>2, <2>3, ForcedOnlyUserInfo DEF Shape, given
  <2>6. BeforeWriting'
    BY <2>1, <2>2, <2>4 DEF BeforeWriting, given
  <2>7. CandidatesOK'
    BY <2>1, CandidateStays DEF CandidatesOK
  <2>8. OpaqueUntouched'
    BY <2>1, <2>2, <2>4, JustifiedStays DEF OpaqueUntouched, given, Justified
  <2>9. CountersOK'
    BY <1>2, <2>1, <2>2, SaysStays DEF Enter, CountersOK, SentInfo
  <2>10. ShowsRealQuota'
    <3>1. ASSUME NEW n \in Name, Present(h', n)
          PROVE  Honest(h'[n].text)
      <4>1. CASE h'[n] = h[n]
        BY <3>1, <4>1 DEF ShowsRealQuota, Present
      <4>2. CASE h'[n] # h[n]
        BY <2>2, <2>3, <3>1, <4>2, ForcingIsHonest
      <4> QED
        BY <4>1, <4>2
    <3> QED
      BY <2>1, <3>1, HonestStays DEF ShowsRealQuota, Present
  <2> QED
    BY <2>5, <2>6, <2>7, <2>8, <2>9, <2>10
<1>3. CASE CollectRule
  <2> DEFINE r == engine.rules[at]
             c == Candidate(r, h)
  <2>1. /\ UNCHANGED <<given, h, pc, notice, userInfo, info>>
        /\ pc = "collect" /\ at' = at + 1
    BY <1>3 DEF CollectRule
  <2>2. at \in DOMAIN engine.rules /\ IsRule(r)
    BY <1>3 DEF CollectRule, Shape
  <2>3. PICK S : todo \in Seq(S)
    BY DEF Shape
  <2>4. OpaqueUntouched' /\ ShowsRealQuota' /\ BeforeWriting' /\ CountersOK'
    BY <2>1, JustifiedStays, HonestStays, SaysStays
    DEF given, BeforeWriting, CountersOK, OpaqueUntouched, ShowsRealQuota,
        Present
  <2>5. CASE todo' = todo
    BY <2>1, <2>4, <2>5, CandidateStays DEF given, Shape, CandidatesOK
  <2>6. CASE todo' = Append(todo, c) /\ MatchesRequest(r, h) /\ HasWork(r, h)
    <3>1. todo \in Seq(S \cup {c}) /\ todo' \in Seq(S \cup {c})
      BY <2>3, <2>6
    <3>2. Shape'
      BY <2>1, <3>1 DEF Shape, given
    <3>3. CandidateOK(c)
      <4>1. Justified(r.name)
        BY <2>1, <2>2, <2>6, WorkIsJustified DEF BeforeWriting
      <4> QED
        BY <2>2, <2>6, <4>1, CandidateIsOK DEF IsRule
    <3> HIDE DEF c
    <3>4. CandidatesOK'
      <4> SUFFICES ASSUME NEW i \in 1..Len(todo')
                   PROVE  CandidateOK(todo'[i])
        BY <2>1, CandidateStays DEF CandidatesOK
      <4>1. Len(todo') = Len(todo) + 1 /\ Len(todo) \in Nat
        BY <2>3, <2>6, <3>1
      <4>2. CASE i \in 1..Len(todo)
        BY <2>6, <3>1, <4>1, <4>2 DEF CandidatesOK
      <4>3. CASE i = Len(todo) + 1
        BY <2>6, <3>1, <3>3, <4>3
      <4> QED
        BY <4>1, <4>2, <4>3
    <3> QED
      BY <2>4, <3>2, <3>4
  <2> QED
    BY <1>3, <2>5, <2>6 DEF CollectRule
<1>4. CASE CollectHeaders
  <2>1. /\ UNCHANGED <<given, h, notice, userInfo, at, info>>
        /\ pc = "collect" /\ pc' \in {"done", "fetch"}
    BY <1>4 DEF CollectHeaders
  <2>2. PICK order \in SetToSeqs(Scanned(h)) :
            todo' = todo \o [i \in DOMAIN order |->
                                Candidate(ScanRule(order[i]), h)]
    BY <1>4 DEF CollectHeaders
  <2> DEFINE more == [i \in DOMAIN order |-> Candidate(ScanRule(order[i]), h)]
             T == {more[i] : i \in DOMAIN order}
  <2>3. /\ DOMAIN order = 1..Cardinality(Scanned(h))
        /\ \A i \in DOMAIN order : order[i] \in Scanned(h)
    BY <2>2 DEF SetToSeqs
  <2>4. Cardinality(Scanned(h)) \in Nat
    BY ConstantsAssumption, FS_Subset, FS_CardinalityType
    DEF ConstantsAssumption, Scanned
  <2>5. more \in Seq(T) /\ Len(more) = Cardinality(Scanned(h))
    BY <2>3, <2>4
  <2>6. PICK S : todo \in Seq(S)
    BY DEF Shape
  <2>7. todo \in Seq(S \cup T) /\ more \in Seq(S \cup T)
    BY <2>5, <2>6
  <2>8. todo' \in Seq(S \cup T)
    BY <2>2, <2>7
  <2>9. \A i \in DOMAIN order : CandidateOK(more[i])
    <3> SUFFICES ASSUME NEW i \in DOMAIN order PROVE CandidateOK(more[i])
      OBVIOUS
    <3> DEFINE n == order[i]
    <3>1. n \in Name /\ Substitutes(h, n)
      BY <2>3 DEF Scanned
    <3>2. Justified(n)
      BY <2>1, <3>1 DEF BeforeWriting, Justified, Substitutes, Present
    <3>3. HasWork(ScanRule(n), h)
      BY <3>1 DEF HasWork, ScanRule
    <3>4. CandidateOK(Candidate(ScanRule(n), h))
      BY <3>1, <3>2, <3>3, CandidateIsOK DEF ScanRule
    <3> QED
      BY <3>4
  <2>10. CandidatesOK'
    <3> SUFFICES ASSUME NEW i \in 1..Len(todo')
                 PROVE  CandidateOK(todo'[i])
      BY <2>1, CandidateStays DEF CandidatesOK
    <3> HIDE DEF more, T
    <3>1. Len(todo) \in Nat /\ Len(more) \in Nat
          /\ Len(todo') = Len(todo) + Len(more)
      BY <2>2, <2>7, <2>8 DEF more
    <3>2. CASE i \in 1..Len(todo)
      <4>1. todo'[i] = todo[i]
        BY <2>2, <2>7, <3>1, <3>2 DEF more
      <4> QED
        BY <3>2, <4>1 DEF CandidatesOK
    <3>3. CASE i \in Len(todo) + 1 .. Len(todo')
      <4>1. todo'[i] = more[i - Len(todo)]
        BY <2>2, <2>7, <3>1, <3>3 DEF more
      <4>2. i - Len(todo) \in DOMAIN order
        BY <2>3, <2>4, <2>5, <3>1, <3>3
      <4> QED
        BY <2>9, <4>1, <4>2
    <3> QED
      BY <3>1, <3>2, <3>3
  <2> HIDE DEF more, T
  <2>11. Shape'
    BY <1>4, <2>1, <2>8 DEF Shape, given, CollectHeaders
  <2> QED
    BY <2>1, <2>10, <2>11, JustifiedStays, HonestStays, SaysStays
    DEF given, BeforeWriting, CountersOK, OpaqueUntouched, ShowsRealQuota,
        Present
<1>5. CASE Write
  <2>1. /\ UNCHANGED <<given, notice, userInfo, at, info>>
        /\ pc = "write" /\ pc' \in {"done", "write"}
    BY <1>5 DEF Write
  <2>2. PICK S : todo \in Seq(S)
    BY DEF Shape
  <2>3. CASE todo # <<>>
    <3> DEFINE c == Head(todo)
    <3>1. todo' \in Seq(S) /\ Len(todo') = Len(todo) - 1
          /\ \A i \in 1..Len(todo') :
                i + 1 \in 1..Len(todo) /\ todo'[i] = todo[i + 1]
      BY <1>5, <2>2, <2>3 DEF Write
    <3>2. c = todo[1] /\ 1 \in 1..Len(todo)
      BY <2>2, <2>3
    <3>3. CandidateOK(c)
      BY <3>2 DEF CandidatesOK
    <3>4. h' = h \/ h' = [h EXCEPT ![c.rule.name] = Result(c, userInfo, info)]
      BY <1>5 DEF Write
    <3>5. Shape'
      BY <1>5, <2>1, <3>1, <3>4 DEF Shape, given, Write
    <3>6. CandidatesOK'
      BY <2>1, <3>1, CandidateStays DEF CandidatesOK
    <3>7. \A n \in Name : h'[n] = h[n] \/ n = c.rule.name
      BY <3>4 DEF Shape
    <3>8. OpaqueUntouched'
      BY <2>1, <3>3, <3>7, JustifiedStays
      DEF OpaqueUntouched, given, CandidateOK
    <3>9. ShowsRealQuota'
      <4>1. Counter(userInfo, info, "total") \in RealQuotas
        BY <2>1 DEF CountersOK, RealQuotas
      <4>2. ASSUME NEW n \in Name, Present(h', n)
            PROVE  Honest(h'[n].text)
        <5>1. CASE h'[n] = h[n]
          BY <4>2, <5>1 DEF ShowsRealQuota, Present
        <5>2. CASE h'[n] = Result(c, userInfo, info)
          <6>1. ~c.rule.remove
            BY <4>2, <5>2 DEF Result, Present
          <6> QED
            BY <3>3, <4>1, <5>2, <6>1, ResultIsHonest
        <5> QED
          BY <3>4, <5>1, <5>2 DEF Shape
      <4> QED
        BY <2>1, <4>2, HonestStays DEF ShowsRealQuota, Present
    <3>10. CountersOK'
      BY <2>1, SaysStays DEF CountersOK
    <3> QED
      BY <2>1, <3>5, <3>6, <3>8, <3>9, <3>10 DEF BeforeWriting
  <2> QED
    BY <2>1, <2>3 DEF Shape
<1>6. CASE Fetch
  <2>1. /\ UNCHANGED <<given, h, notice, userInfo, at, todo>>
        /\ pc = "fetch" /\ pc' = "write"
    BY <1>6 DEF Fetch
  <2>2. info' = Nil \/ info' = PanelSays
    BY <1>6 DEF Fetch, Asks, PanelSays
  <2> QED
    BY <2>1, <2>2, JustifiedStays, HonestStays, CandidateStays, SaysStays
    DEF given, Shape, BeforeWriting, CandidatesOK, CountersOK,
        OpaqueUntouched, ShowsRealQuota, Present
<1>7. CASE UNCHANGED vars
  BY <1>7, JustifiedStays, HonestStays, CandidateStays, SaysStays
  DEF vars, given, Shape, BeforeWriting, CandidatesOK, CountersOK,
      OpaqueUntouched, ShowsRealQuota, Present
<1> QED
  BY <1>1, <1>2, <1>3, <1>4, <1>5, <1>6, <1>7 DEF Next

\* Every header that nothing asks to be changed leaves as it came, for any
\* rules, options, headers and answers of the panel.
THEOREM Untouched == Spec => []OpaqueUntouched
<1>1. Init => IInv
  BY InitInv
<1>2. IInv /\ [Next]_vars => IInv'
  BY StepInv
<1>3. IInv => OpaqueUntouched
  BY DEF IInv
<1> QED
  BY <1>1, <1>2, <1>3, PTL DEF Spec

\* Under force_unlimited too, every placeholder tells of the real quota, for
\* any rules, options, headers and answers of the panel.
THEOREM RealQuotaShown == Spec => []ShowsRealQuota
<1>1. IInv => ShowsRealQuota
  BY DEF IInv
<1> QED
  BY InitInv, StepInv, <1>1, PTL DEF Spec

-----------------------------------------------------------------------------
(* The candidates                                                          *)

\* The headers that rules are matched against.
Base == Forced(sent)

\* A rule that yields a candidate; what a rule or the scan makes of a header.
Works(i) ==
    MatchesRequest(engine.rules[i], Base) /\ HasWork(engine.rules[i], Base)
OfRule(i) == Candidate(engine.rules[i], Base)
OfScan(n) == Candidate(ScanRule(n), Base)
Made(c) ==
    \/ \E i \in DOMAIN engine.rules : Works(i) /\ c = OfRule(i)
    \/ \E n \in Scanned(Base) : c = OfScan(n)

\* The response is not one that Apply leaves alone at once.
Goes == short \/ SentInfo # Nil

\* The headers as they were sent, the forms they came in, and the names.
Received ==
    /\ sent = [n \in Name |-> sent[n]]
    /\ \A n \in Name : sent[n] # Absent =>
          sent[n].form \in WireForm /\ IsSource(sent[n].text)
    /\ panel = Nil \/ panel.days \in Int

\* What is done at each stage, and where candidates come from.
Queue ==
    /\ Received
    /\ pc \in {"notice", "enter"} =>
          h = sent /\ at = 1 /\ todo = <<>> /\ written = {} /\ ~asked
    /\ pc \in {"collect", "fetch"} => h = Base /\ written = {} /\ ~asked
    /\ pc \in {"collect", "fetch", "write"} => Goes
    /\ at \in 1..Len(engine.rules) + 1
    /\ \A j \in 1..Len(todo) : Made(todo[j])

LEMMA RulesLength ==
    ASSUME Shape
    PROVE  Len(engine.rules) \in Nat /\ DOMAIN engine.rules = 1..Len(engine.rules)
BY DEF Shape

LEMMA BaseStays ==
    ASSUME UNCHANGED given
    PROVE  Base' = Base
BY DEF given, Base, Forced, ParseUserInfo, FieldOf

LEMMA MadeStays ==
    ASSUME UNCHANGED given
    PROVE  /\ Scanned(Base)' = Scanned(Base)
           /\ \A i : (Works(i)' <=> Works(i)) /\ OfRule(i)' = OfRule(i)
           /\ \A n : OfScan(n)' = OfScan(n)
           /\ \A c : Made(c)' <=> Made(c)
<1>1. Base' = Base /\ engine' = engine
  BY BaseStays DEF given
<1>2. Scanned(Base)' = Scanned(Base)
  BY <1>1 DEF Scanned, Ruled, Substitutes, Present, Holes, TextOf
<1>3. \A i : Works(i)' <=> Works(i)
  BY <1>1 DEF Works, MatchesRequest, HasWork, Substitutes, Present, Holes, TextOf
<1>4. \A r : Candidate(r, Base)' = Candidate(r, Base)
  BY <1>1 DEF Candidate, Original, Present, TextOf, FormOf
<1>5. /\ \A i : OfRule(i)' = OfRule(i)
      /\ \A n : OfScan(n)' = OfScan(n)
  BY <1>1, <1>4 DEF OfRule, OfScan
<1> QED
  BY <1>1, <1>2, <1>3, <1>5 DEF Made

LEMMA StillMade ==
    ASSUME UNCHANGED given, NEW c
    PROVE  Made(c)' <=> Made(c)
BY MadeStays DEF Made

LEMMA ReceivedStays ==
    ASSUME UNCHANGED given PROVE (Received' <=> Received) /\ (Goes' <=> Goes)
BY SaysStays DEF given, Received, Goes

LEMMA QueueInit == Init => Queue
<1> SUFFICES ASSUME Init PROVE Queue
  OBVIOUS
<1>1. PICK s \in Starts : sent = s.sent /\ panel = s.panel
  BY DEF Init
<1>2. Received
  BY <1>1, ConstantsAssumption DEF ConstantsAssumption, Received
<1>3. at \in 1..Len(engine.rules) + 1
  BY InitInv, RulesLength DEF IInv, Init
<1> QED
  BY <1>1, <1>2, <1>3 DEF Init, Queue

\* What the scan appends: one candidate for each header, in some order.
LEMMA Appended ==
    ASSUME Shape, h = Base, CollectHeaders
    PROVE  /\ Len(todo) \in Nat /\ Len(todo') \in Nat /\ Len(todo) <= Len(todo')
           /\ \A j \in 1..Len(todo) : todo'[j] = todo[j]
           /\ \A j \in Len(todo) + 1..Len(todo') :
                 \E n \in Scanned(Base) : todo'[j] = OfScan(n)
           /\ \A n \in Scanned(Base) :
                 \E j \in Len(todo) + 1..Len(todo') : todo'[j] = OfScan(n)
           /\ \E S : todo' \in Seq(S)
<1>1. PICK order \in SetToSeqs(Scanned(Base)) :
         todo' = todo \o [i \in DOMAIN order |-> OfScan(order[i])]
  BY DEF CollectHeaders, OfScan
<1> DEFINE more == [i \in DOMAIN order |-> OfScan(order[i])]
           T == {more[i] : i \in DOMAIN order}
           m == Cardinality(Scanned(Base))
<1>2. m \in Nat
  BY ConstantsAssumption, FS_Subset, FS_CardinalityType
  DEF ConstantsAssumption, Scanned
<1>3. /\ DOMAIN order = 1..m
      /\ \A i \in 1..m : order[i] \in Scanned(Base)
      /\ \A n \in Scanned(Base) : \E i \in 1..m : order[i] = n
  <2>1. order \in Injection(1..m, Scanned(Base))
    BY <1>1 DEF SetToSeqs, Injection, IsInjective
  <2>2. IsFiniteSet(Scanned(Base)) /\ Cardinality(1..m) = Cardinality(Scanned(Base))
    <3>1. IsFiniteSet(Scanned(Base))
      BY ConstantsAssumption, FS_Subset DEF ConstantsAssumption, Scanned
    <3>2. Cardinality(1..m) = m
      BY <1>2, FS_Interval
    <3> QED
      BY <3>1, <3>2
  <2>3. order \in Surjection(1..m, Scanned(Base))
    BY <2>1, <2>2, FS_Injection
  <2> QED
    BY <2>3 DEF Surjection
<1>4. PICK S : todo \in Seq(S)
  BY DEF Shape
<1>5. more \in Seq(T) /\ Len(more) = m
  BY <1>2, <1>3
<1>6. todo \in Seq(S \cup T) /\ more \in Seq(S \cup T)
  BY <1>4, <1>5
<1>7. \A i \in 1..m : more[i] = OfScan(order[i])
  BY <1>3
<1> HIDE DEF more, T, m
<1>8. /\ todo' \in Seq(S \cup T) /\ Len(todo') = Len(todo) + m
      /\ \A j \in 1..Len(todo) : todo'[j] = todo[j]
      /\ \A j \in Len(todo) + 1..Len(todo') : todo'[j] = more[j - Len(todo)]
  BY <1>1, <1>2, <1>5, <1>6 DEF more
<1>9. Len(todo) \in Nat
  BY <1>4
<1>10. ASSUME NEW j \in Len(todo) + 1..Len(todo')
       PROVE  \E n \in Scanned(Base) : todo'[j] = OfScan(n)
  <2>1. j - Len(todo) \in 1..m
    BY <1>2, <1>8, <1>9
  <2> QED
    BY <1>3, <1>7, <1>8, <2>1
<1>11. ASSUME NEW n \in Scanned(Base)
       PROVE  \E j \in Len(todo) + 1..Len(todo') : todo'[j] = OfScan(n)
  <2>1. PICK i \in 1..m : order[i] = n
    BY <1>3
  <2>2. Len(todo) + i \in Len(todo) + 1..Len(todo') /\ (Len(todo) + i) - Len(todo) = i
    BY <1>2, <1>8, <1>9
  <2> QED
    BY <1>7, <1>8, <2>1, <2>2
<1> QED
  BY <1>2, <1>8, <1>9, <1>10, <1>11

LEMMA QueueStep == IInv /\ Queue /\ [Next]_vars => Queue'
<1> SUFFICES ASSUME IInv, Queue, [Next]_vars PROVE Queue'
  OBVIOUS
<1>1. UNCHANGED given
  BY DEF Next, RenderNotice, Enter, CollectRule, CollectHeaders, Fetch, Write, vars
<1>2. Received' /\ (Goes' <=> Goes) /\ Base' = Base
  BY <1>1, ReceivedStays, BaseStays DEF Queue
<1>3. Len(engine.rules) \in Nat /\ engine' = engine
  BY <1>1, RulesLength DEF IInv, given
<1>4. ASSUME \A j \in 1..Len(todo') : Made(todo'[j])
      PROVE  (\A j \in 1..Len(todo) : Made(todo[j]))'
  BY <1>1, <1>4, StillMade
<1>5. CASE RenderNotice \/ Fetch \/ UNCHANGED vars
  BY <1>2, <1>3, <1>4, <1>5 DEF RenderNotice, Fetch, vars, given, Queue
<1>6. CASE Enter
  BY <1>2, <1>3, <1>4, <1>6 DEF Enter, Queue, Base, Goes, SentInfo
<1>7. CASE CollectRule
  <2> DEFINE r == engine.rules[at]
  <2>1. /\ pc = "collect" /\ pc' = pc /\ at' = at + 1 /\ at <= Len(engine.rules)
        /\ UNCHANGED <<h, written, asked>>
    BY <1>7 DEF CollectRule
  <2>2. h = Base /\ at \in Nat \ {0}
    BY <2>1 DEF Queue
  <2>3. at' \in 1..Len(engine.rules) + 1
    BY <1>3, <2>1, <2>2
  <2>4. \/ todo' = todo
        \/ todo' = Append(todo, OfRule(at)) /\ Works(at)
    BY <1>7, <2>2 DEF CollectRule, OfRule, Works
  <2>5. CASE todo' = Append(todo, OfRule(at)) /\ Works(at)
    <3>1. PICK S : todo \in Seq(S)
      BY DEF IInv, Shape
    <3>2. todo \in Seq(S \cup {OfRule(at)})
      BY <3>1
    <3>3. Made(OfRule(at))
      BY <1>3, <2>1, <2>2, <2>5, RulesLength DEF Made, IInv
    <3>4. \A j \in 1..Len(todo') : Made(todo'[j])
      BY <2>5, <3>2, <3>3 DEF Queue
    <3> QED
      BY <1>1, <1>2, <1>3, <2>1, <2>2, <2>3, <3>4, MadeStays DEF Queue
  <2> QED
    BY <1>2, <1>3, <1>4, <2>1, <2>2, <2>3, <2>4, <2>5 DEF Queue
<1>8. CASE CollectHeaders
  <2>1. /\ pc = "collect" /\ pc' \in {"done", "fetch"}
        /\ UNCHANGED <<h, written, asked, at>>
    BY <1>8 DEF CollectHeaders
  <2>2. h = Base
    BY <2>1 DEF Queue
  <2>3. \A j \in 1..Len(todo') : Made(todo'[j])
    BY <1>8, <2>2, Appended DEF Queue, Made, IInv
  <2> QED
    BY <1>1, <1>2, <1>3, <2>1, <2>2, <2>3, MadeStays DEF Queue
<1>9. CASE Write
  <2>1. /\ pc = "write" /\ pc' \in {"done", "write"} /\ UNCHANGED at
    BY <1>9 DEF Write
  <2>2. todo # <<>> /\ \E S : todo \in Seq(S)
    BY <2>1 DEF IInv, Shape
  <2>3. \A j \in 1..Len(todo') : Made(todo'[j])
    BY <1>9, <2>2 DEF Write, Queue
  <2> QED
    BY <1>1, <1>2, <1>3, <2>1, <2>3, MadeStays DEF Queue
<1> QED
  BY <1>5, <1>6, <1>7, <1>8, <1>9 DEF Next

\* Queue: candidates come from rules that match or headers that are scanned, as
\* the page sent them, and nothing is written before the panel was heard.
THEOREM QueueAlways == Spec => [](IInv /\ Queue)
BY InitInv, StepInv, QueueInit, QueueStep, PTL DEF Spec

-----------------------------------------------------------------------------
(* Who decides a header                                                    *)

\* The candidate names n and holds, by what the page and the panel say.
Settles(c, n) ==
    /\ c.rule.name = n
    /\ MatchesStatus(c.rule, PanelSays)
    /\ MatchesLimit(c.rule, SentInfo, PanelSays)

\* Somebody should decide header n, and who should.
Contested(n) == Hits(n) # {} \/ n \in Scanned(Base)
Winner(n) == IF Hits(n) # {} THEN OfRule(Min(Hits(n))) ELSE OfScan(n)

\* In the queue c comes before all others that would decide n, or nobody would.
First(queue, c, n) ==
    \E j \in 1..Len(queue) :
        /\ queue[j] = c
        /\ \A k \in 1..j - 1 : Settles(queue[k], n) => queue[k] = c
Nobody(queue, n) == \A j \in 1..Len(queue) : ~Settles(queue[j], n)

\* While rules are looked at, the first hit so far is ahead.
Collecting ==
    \A n \in Name :
        IF \E i \in Hits(n) : i < at
        THEN First(todo, OfRule(Min(Hits(n))), n)
        ELSE Nobody(todo, n)

\* Headers not written yet are as they came, their winner ahead in the queue.
Ahead ==
    \A n \in Name \ written :
        /\ h[n] = Base[n]
        /\ IF Contested(n) THEN First(todo, Winner(n), n) ELSE Nobody(todo, n)

\* What Apply knows of the panel suffices for candidate c.
Suffices(c) ==
    /\ MatchesStatus(c.rule, info) <=> MatchesStatus(c.rule, PanelSays)
    /\ MatchesLimit(c.rule, SentInfo, info)
           <=> MatchesLimit(c.rule, SentInfo, PanelSays)
    /\ WholeInfo => Undated(Result(c, SentInfo, info))
                        = Undated(Result(c, SentInfo, PanelSays))

Settled ==
    WholeInfo => \A n \in written : Undated(h[n]) = Undated(Expected(n))

Race ==
    /\ pc = "collect" => Collecting
    /\ pc \in {"fetch", "write"} => Ahead
    /\ pc = "write" => Settled /\ \A j \in 1..Len(todo) : Suffices(todo[j])
    /\ written \subseteq Name
    /\ LazyLookupUnseen

\* A set of numbers has its least among it.
LEMMA Least ==
    ASSUME NEW S \in SUBSET Nat, S # {}
    PROVE  Min(S) \in S /\ \A y \in S : Min(S) <= y
<1> DEFINE R == {ss \in Nat \X Nat : ss[1] < ss[2]}
<1>1. PICK m \in S : \A n \in S : ~(<<n, m>> \in R)
  <2>1. IsWellFoundedOn(R, Nat)
    BY NatLessThanWellFounded DEF OpToRel
  <2> HIDE DEF R
  <2> QED
    BY <2>1, WFMin
<1>2. ASSUME NEW y \in S PROVE m <= y
  <2>1. ~(y < m)
    BY <1>1
  <2> QED
    BY <2>1
<1> QED
  BY <1>2 DEF Min

\* Hiding the quota leaves every header there, with the same placeholders.
LEMMA SameHoles ==
    ASSUME Received, NEW n \in Name
    PROVE  /\ Present(Base, n) <=> Present(sent, n)
           /\ Present(sent, n) =>
                 Holes(TextOf(Base[n])) = Holes(TextOf(sent[n]))
<1>1. CASE Base[n] = sent[n]
  BY <1>1 DEF Present
<1>2. CASE Base[n] # sent[n]
  <2>1. /\ n = UserInfoHeader /\ ParseUserInfo(sent[n]) # Nil
        /\ Base[n] = ForceUnlimitedTotal(sent[n])
    BY <1>2 DEF Base, Forced, Received
  <2>2. sent[n].form = "plain" /\ Base[n].form = "plain"
    BY <2>1 DEF ParseUserInfo, ForceUnlimitedTotal
  <2>3. TextOf(sent[n]) = sent[n].text /\ TextOf(Base[n]) = Base[n].text
    BY <2>1, <2>2 DEF TextOf, ForceUnlimitedTotal
  <2>4. \A m : Hole(m) \in Base[n].text <=> Hole(m) \in sent[n].text
    BY <2>1 DEF ForceUnlimitedTotal, Hole, Field
  <2> QED
    BY <2>2, <2>3, <2>4 DEF Present, Absent, Holes
<1> QED
  BY <1>1, <1>2

\* A rule hits a header if it yields a candidate and the candidate holds.
LEMMA HitIsCandidate ==
    ASSUME Received, Shape, NEW n, NEW i \in DOMAIN engine.rules
    PROVE  i \in Hits(n) <=> Works(i) /\ Settles(OfRule(i), n)
<1> DEFINE r == engine.rules[i]
<1>1. IsRule(r) /\ r.name \in Name
  BY DEF Shape, IsRule
<1>2. MatchesRequest(r, Base) <=> MatchesRequest(r, sent)
  BY <1>1, SameHoles DEF MatchesRequest, Present
<1>3. Substitutes(Base, r.name) <=> Substitutes(sent, r.name)
  BY <1>1, SameHoles DEF Substitutes
<1>4. HasWork(r, Base) <=> HasWork(r, sent)
  BY <1>1, <1>3, SameHoles DEF HasWork, IsRule
<1>5. OfRule(i).rule = r
  BY DEF OfRule, Candidate
<1> QED
  BY <1>2, <1>4, <1>5 DEF Hits, Works, Settles

\* A scanned header's candidate always holds.
LEMMA ScanSettles ==
    ASSUME NEW m, NEW n
    PROVE  Settles(OfScan(m), n) <=> m = n
BY DEF Settles, OfScan, Candidate, ScanRule, MatchesStatus, MatchesLimit

LEMMA LeastHit ==
    ASSUME Shape, NEW n, Hits(n) # {}
    PROVE  /\ Min(Hits(n)) \in Hits(n)
           /\ \A i \in Hits(n) : Min(Hits(n)) <= i
<1>1. Hits(n) \in SUBSET Nat
  BY RulesLength DEF Hits
<1> QED
  BY <1>1, Least

LEMMA WinnerSettles ==
    ASSUME Received, Shape, NEW n, Contested(n)
    PROVE  Settles(Winner(n), n)
<1>1. CASE Hits(n) # {}
  <2>1. Min(Hits(n)) \in Hits(n) /\ Min(Hits(n)) \in DOMAIN engine.rules
    BY <1>1, LeastHit DEF Hits
  <2> QED
    BY <1>1, <2>1, HitIsCandidate DEF Winner
<1>2. CASE Hits(n) = {}
  BY <1>2, ScanSettles DEF Winner
<1> QED
  BY <1>1, <1>2

\* Expected is what the winner leaves.
LEMMA ExpectedIsWinners ==
    ASSUME Goes, NEW n
    PROVE  Expected(n) = IF Contested(n)
                         THEN Result(Winner(n), SentInfo, PanelSays)
                         ELSE Base[n]
BY DEF Expected, Goes, Contested, Winner, Base, OfRule, OfScan

\* All of it is decided by what was given.
LEMMA SettlesStays ==
    ASSUME UNCHANGED given, NEW c, NEW n
    PROVE  Settles(c, n)' <=> Settles(c, n)
BY SaysStays DEF Settles, MatchesStatus, MatchesLimit, Counter, Used

LEMMA HitsStay == ASSUME UNCHANGED given PROVE \A n : Hits(n)' = Hits(n)
BY SaysStays DEF given, Hits, MatchesRequest, HasWork, Substitutes, Present,
                 Holes, TextOf, MatchesStatus, MatchesLimit, Counter, Used

LEMMA ResultStays ==
    ASSUME UNCHANGED given, NEW c, NEW ui, NEW inf
    PROVE  Result(c, ui, inf)' = Result(c, ui, inf)
BY DEF given, Result, RenderAround, Render, Fill, Lookup

LEMMA UndatedStays ==
    ASSUME UNCHANGED given
    PROVE  /\ \A v : Undated(v)' = Undated(v)
           /\ WholeInfo' <=> WholeInfo
<1>1. SentInfo' = SentInfo /\ PanelSays' = PanelSays
  BY SaysStays
<1>2. RealDays' = RealDays
  BY <1>1 DEF RealDays, DaysLeft, Expiry, DaysUntil
<1> QED
  BY <1>1, <1>2 DEF Undated, Open, WholeInfo, Used

LEMMA WinnerStays ==
    ASSUME UNCHANGED given, NEW n
    PROVE  /\ Contested(n)' <=> Contested(n)
           /\ Winner(n)' = Winner(n)
           /\ OfRule(Min(Hits(n)))' = OfRule(Min(Hits(n)))
BY HitsStay, MadeStays DEF Contested, Winner

LEMMA ExpectedStays ==
    ASSUME UNCHANGED given, Goes, NEW n
    PROVE  Expected(n)' = Expected(n)
<1>1. Goes' /\ Base' = Base /\ SentInfo' = SentInfo /\ PanelSays' = PanelSays
  BY ReceivedStays, BaseStays, SaysStays
<1>2. Expected(n)' = (IF Contested(n) THEN Result(Winner(n), SentInfo, PanelSays)
                      ELSE Base[n])'
  BY <1>1 DEF Expected, Goes, Contested, Winner, Base, OfRule, OfScan
<1> QED
  BY <1>1, <1>2, ExpectedIsWinners, WinnerStays, ResultStays

-----------------------------------------------------------------------------
(* What is known when the panel is not asked                               *)

\* The counters are numbers.
LEMMA InfoIsCounters ==
    ASSUME Received
    PROVE  SentInfo = Nil \/ SentInfo \in [Counters -> Int]
<1> DEFINE v == sent[UserInfoHeader]
<1>1. v # Absent => IsSource(v.text)
  BY ConstantsAssumption DEF ConstantsAssumption, Received
<1>2. ASSUME v # Absent, NEW f PROVE FieldOf(v.text, f) \in Int
  <2> DEFINE found == {a \in v.text : a[1] = "field" /\ a[2] = f}
  <2>1. \A a \in found : a[3] \in Int
    BY <1>1, <1>2 DEF IsSource
  <2>2. CASE found = {}
    BY <2>2 DEF FieldOf
  <2>3. CASE found # {}
    <3> DEFINE a == CHOOSE b \in found : TRUE
    <3>1. a \in found
      BY <2>3
    <3>2. FieldOf(v.text, f) = a[3]
      BY <2>3 DEF FieldOf
    <3> QED
      BY <2>1, <3>1, <3>2
  <2> QED
    BY <2>2, <2>3
<1>3. \/ SentInfo = Nil
      \/ v # Absent /\ SentInfo = [f \in Counters |-> FieldOf(v.text, f)]
  BY DEF SentInfo, ParseUserInfo, Absent
<1> QED
  BY <1>2, <1>3

\* A text with the days left open.
OpenText(t) == {Open(a) : a \in t}

LEMMA OpenUnion ==
    ASSUME NEW A, NEW B, NEW C, NEW D,
           OpenText(A) = OpenText(B), OpenText(C) = OpenText(D)
    PROVE  OpenText(A \cup C) = OpenText(B \cup D)
BY DEF OpenText

\* A text whose placeholders resolve alike renders alike.
LEMMA RendersAlike ==
    ASSUME NEW t, NEW ui, NEW a, NEW b, IsText(t),
           \A n \in Holes(t) :
              OpenText(Lookup(n, ui, a)) = OpenText(Lookup(n, ui, b))
    PROVE  OpenText(Render(t, ui, a)) = OpenText(Render(t, ui, b))
<1>1. ASSUME NEW x \in t
      PROVE  OpenText(Fill(x, ui, a)) = OpenText(Fill(x, ui, b))
  <2>1. CASE x[1] = "hole" /\ x[2] \in Placeholder
    <3>1. x[2] \in Holes(t)
      BY <1>1, <2>1 DEF Holes, IsText
    <3>2. OpenText(Lookup(x[2], ui, a)) = OpenText(Lookup(x[2], ui, b))
      BY <3>1
    <3>3. Lookup(x[2], ui, a) = {} <=> Lookup(x[2], ui, b) = {}
      BY <3>2 DEF OpenText
    <3> QED
      BY <3>2, <3>3 DEF Fill
  <2>2. CASE x[1] = "hole" /\ x[2] \notin Placeholder
    BY <2>2 DEF Fill, Lookup, Placeholder, Catalog
  <2>3. CASE x[1] # "hole"
    BY <2>3 DEF Fill
  <2> QED
    BY <2>1, <2>2, <2>3
<1>2. ASSUME NEW c
      PROVE  OpenText(Render(t, ui, c)) = UNION {OpenText(Fill(x, ui, c)) : x \in t}
  BY DEF OpenText, Render
<1>3. OpenText(Render(t, ui, a)) = UNION {OpenText(Fill(x, ui, a)) : x \in t}
  BY <1>2
<1>4. OpenText(Render(t, ui, b)) = UNION {OpenText(Fill(x, ui, b)) : x \in t}
  BY <1>2
<1> QED
  BY <1>1, <1>3, <1>4

\* The days to a date are a number.
LEMMA DaysAreNatural == ASSUME NEW e \in Int PROVE DaysUntil(e) \in Nat
<1>1. Now \in Nat /\ Day \in Nat \ {0}
  BY ConstantsAssumption DEF ConstantsAssumption
<1>2. CASE e > Now
  <2> DEFINE m == e - Now + Day - 1
  <2>1. m \in Nat
    BY <1>1, <1>2
  <2>2. m \div Day \in Nat
    <3> HIDE DEF m
    <3> QED
      BY <1>1, <2>1, SMT
  <2> QED
    BY <1>1, <1>2, <2>2 DEF DaysUntil
<1>3. CASE ~(e > Now)
  BY <1>1, <1>3 DEF DaysUntil
<1> QED
  BY <1>2, <1>3

\* With whole counters, what is needed of no panel resolves without one, to the
\* same but for the days left.
LEMMA ResolvesAlike ==
    ASSUME Received, WholeInfo, NEW names, ~NeedsPanel(names, SentInfo),
           NEW n \in names, n \in Placeholder
    PROVE  OpenText(Lookup(n, SentInfo, Nil))
               = OpenText(Lookup(n, SentInfo, PanelSays))
<1>1. CASE n \in engine.vars
  BY <1>1 DEF Lookup
<1>2. CASE n \notin engine.vars /\ Catalog[n] = "traffic"
  <2>1. SentInfo # Nil /\ SentInfo.expire > 0
    BY <1>2 DEF NeedsPanel, WholeInfo
  <2>2. CASE n \in {"TRAFFIC_USED", "TRAFFIC_LIMIT"}
    <3>1. \A f \in {"used", "total"} :
            Counter(SentInfo, Nil, f) = Counter(SentInfo, PanelSays, f)
      BY <2>1 DEF WholeInfo, Counter
    <3> QED
      BY <1>2, <2>2, <3>1 DEF Lookup
  <2>3. CASE n = "TRAFFIC_DOWNLOAD"
    BY <1>2, <2>3 DEF Lookup
  <2>4. CASE n = "EXPIRES_AT"
    BY <1>2, <2>1, <2>4 DEF Lookup, Expiry
  <2>5. CASE n = "DAYS_LEFT"
    <3> DEFINE d == DaysLeft(SentInfo, Nil)
               p == DaysLeft(SentInfo, PanelSays)
    <3>1. d \in Nat
      <4>1. d = DaysUntil(SentInfo.expire)
        BY <2>1 DEF DaysLeft, Expiry
      <4>2. SentInfo.expire \in Int
        BY <2>1, InfoIsCounters DEF Counters
      <4> QED
        BY <4>1, <4>2, DaysAreNatural
    <3>2. p \in Nat
      <4>1. CASE PanelSays = Nil
        BY <3>1, <4>1
      <4>2. CASE PanelSays # Nil
        <5>1. PanelSays.days \in Int
          BY <4>2 DEF PanelSays, Received
        <5> QED
          BY <4>2, <5>1 DEF DaysLeft
      <4> QED
        BY <4>1, <4>2
    <3>3. d \in RealDays /\ p \in RealDays
      BY DEF RealDays
    <3>4. /\ Lookup(n, SentInfo, Nil) = Valued("DAYS_LEFT", d)
          /\ Lookup(n, SentInfo, PanelSays) = Valued("DAYS_LEFT", p)
      BY <1>2, <2>5 DEF Lookup
    <3> HIDE DEF d, p
    <3>5. /\ Lookup(n, SentInfo, Nil) = {Shown("DAYS_LEFT", d)}
          /\ Lookup(n, SentInfo, PanelSays) = {Shown("DAYS_LEFT", p)}
      BY <3>1, <3>2, <3>4 DEF Valued
    <3>6. /\ Open(Shown("DAYS_LEFT", d)) = <<"days">>
          /\ Open(Shown("DAYS_LEFT", p)) = <<"days">>
      BY <3>3 DEF Open
    <3> QED
      BY <3>5, <3>6 DEF OpenText
  <2> QED
    BY <1>2, <2>2, <2>3, <2>4, <2>5 DEF Placeholder, Catalog
<1>3. CASE n \notin engine.vars /\ n = "USERNAME"
  BY <1>3 DEF NeedsPanel, Catalog
<1>4. CASE n \in {"ORIGINAL_VALUE", "SHORT_UUID"}
  BY <1>4 DEF Lookup
<1> QED
  BY <1>1, <1>2, <1>3, <1>4 DEF Placeholder, Catalog

\* What is sent, and what is made of it, are texts in a known form.
Typed(c) ==
    /\ c.rule.name \in Name
    /\ ~c.rule.remove => IsText(c.source) /\ c.form \in WireForm
    /\ c.original # Nil => IsText(c.original)

LEMMA SourceIsText == ASSUME NEW t, IsSource(t) PROVE IsText(t)
BY DEF IsSource, IsText, Kind

LEMMA BaseIsText ==
    ASSUME Received, NEW n \in Name, Present(Base, n)
    PROVE  /\ Base[n].form \in WireForm
           /\ IsText(Base[n].text) /\ IsText(TextOf(Base[n]))
<1>1. Base[n].form \in WireForm /\ IsText(Base[n].text)
  <2>1. CASE Base[n] = sent[n]
    BY <2>1, SourceIsText DEF Received, Present
  <2>2. CASE Base[n] # sent[n]
    <3>1. /\ n = UserInfoHeader /\ ParseUserInfo(sent[n]) # Nil
          /\ Base[n] = ForceUnlimitedTotal(sent[n])
      BY <2>2 DEF Base, Forced, Received
    <3>2. sent[n] # Absent /\ IsText(sent[n].text) /\ sent[n].form \in WireForm
      BY <3>1, SourceIsText DEF ParseUserInfo, Absent, Received
    <3>3. IsText(ForceUnlimitedTotal(sent[n]).text)
      BY <3>2 DEF IsText, ForceUnlimitedTotal, Field, Kind, SourceKind
    <3> QED
      BY <3>1, <3>2, <3>3 DEF ForceUnlimitedTotal
  <2> QED
    BY <2>1, <2>2
<1>2. IsText({Raw(Base[n])})
  BY DEF IsText, Raw, Kind
<1> QED
  BY <1>1, <1>2 DEF TextOf

LEMMA MadeIsTyped ==
    ASSUME Received, Shape, NEW c, Made(c)
    PROVE  Typed(c)
<1>1. ASSUME NEW r, r.name \in Name, HasWork(r, Base),
             r.template = Nil \/ IsSource(r.template),
             r.encode \in Form \cup {"auto"}
      PROVE  Typed(Candidate(r, Base))
  <2>1. Present(Base, r.name) => IsText(TextOf(Base[r.name]))
    BY <1>1, BaseIsText
  <2>2. FormOf(r, Base) \in WireForm
    <3>1. CASE r.encode # "auto"
      BY <1>1, <3>1 DEF FormOf, Form
    <3>2. CASE r.encode = "auto" /\ ~Present(Base, r.name)
      BY <3>2 DEF FormOf, WireForm
    <3>3. CASE r.encode = "auto" /\ Present(Base, r.name)
      BY <1>1, <3>3, BaseIsText DEF FormOf, WireForm
    <3> QED
      BY <3>1, <3>2, <3>3
  <2>3. ~r.remove => r.template # Nil \/ Present(Base, r.name)
    BY <1>1 DEF HasWork, Substitutes
  <2> QED
    BY <1>1, <2>1, <2>2, <2>3, SourceIsText DEF Typed, Candidate, Original
<1>2. ASSUME NEW i \in DOMAIN engine.rules, Works(i), c = OfRule(i)
      PROVE  Typed(c)
  BY <1>1, <1>2 DEF Shape, IsRule, Works, OfRule
<1>3. ASSUME NEW n \in Scanned(Base), c = OfScan(n)
      PROVE  Typed(c)
  <2>1. n \in Name /\ HasWork(ScanRule(n), Base)
    BY DEF Scanned, HasWork, ScanRule
  <2> QED
    BY <1>1, <1>3, <2>1 DEF ScanRule, OfScan
<1> QED
  BY <1>2, <1>3 DEF Made

\* A candidate's header ends the same whether the panel is asked or not, but for
\* the days left, if none of the names it uses needs the panel.
LEMMA ResultsAlike ==
    ASSUME Received, NEW c, Typed(c), WholeInfo,
           ~NeedsPanel(NamesIn(c), SentInfo)
    PROVE  Undated(Result(c, SentInfo, Nil))
               = Undated(Result(c, SentInfo, PanelSays))
<1>1. CASE c.rule.remove
  BY <1>1 DEF Result
<1>2. CASE ~c.rule.remove
  <2> DEFINE around == c.source \ {Hole("ORIGINAL_VALUE")}
             Around(inf) == RenderAround(c.source, c.original, SentInfo, inf)
             Outer(inf) == Render(around, SentInfo, inf)
             Inner(inf) == Render(c.original, SentInfo, inf)
  <2>1. \A n \in NamesIn(c) : n \in Placeholder
    BY DEF NamesIn, Holes
  <2>2. \A n \in NamesIn(c) :
            OpenText(Lookup(n, SentInfo, Nil))
                = OpenText(Lookup(n, SentInfo, PanelSays))
    BY <2>1, ResolvesAlike
  <2>3. Holes(around) \subseteq NamesIn(c)
    BY <1>2 DEF NamesIn, Holes
  <2>4. OpenText(Outer(Nil)) = OpenText(Outer(PanelSays))
    <3>1. IsText(around)
      BY <1>2 DEF Typed, IsText
    <3> HIDE DEF around
    <3> QED
      BY <2>2, <2>3, <3>1, RendersAlike
  <2>5. OpenText(Around(Nil)) = OpenText(Around(PanelSays))
    <3>1. CASE c.original # Nil /\ Hole("ORIGINAL_VALUE") \in c.source
      <4>1. Holes(c.original) \subseteq NamesIn(c)
        BY <1>2, <3>1 DEF NamesIn
      <4>2. OpenText(Inner(Nil)) = OpenText(Inner(PanelSays))
        BY <2>2, <3>1, <4>1, RendersAlike DEF Typed
      <4>3. /\ Around(Nil) = Outer(Nil) \cup Inner(Nil)
            /\ Around(PanelSays) = Outer(PanelSays) \cup Inner(PanelSays)
        BY <3>1 DEF RenderAround
      <4> HIDE DEF Around, Outer, Inner
      <4>4. OpenText(Outer(Nil) \cup Inner(Nil))
                = OpenText(Outer(PanelSays) \cup Inner(PanelSays))
        BY <2>4, <4>2, OpenUnion
      <4> QED
        BY <4>3, <4>4
    <3>2. CASE ~(c.original # Nil /\ Hole("ORIGINAL_VALUE") \in c.source)
      <4> DEFINE rest == UNION {IF engine.unknown = "keep" THEN {a} ELSE {} :
                                   a \in c.source \ around}
      <4>1. /\ Around(Nil) = Outer(Nil) \cup rest
            /\ Around(PanelSays) = Outer(PanelSays) \cup rest
        BY <3>2 DEF RenderAround
      <4> HIDE DEF Around, Outer, rest
      <4>2. OpenText(Outer(Nil) \cup rest)
                = OpenText(Outer(PanelSays) \cup rest)
        BY <2>4, OpenUnion
      <4> QED
        BY <4>1, <4>2
    <3> QED
      BY <3>1, <3>2
  <2>6. ASSUME NEW inf
        PROVE  Undated(Result(c, SentInfo, inf))
                   = [form |-> c.form, text |-> OpenText(Around(inf))]
    BY <1>2 DEF Undated, Result, OpenText
  <2> QED
    BY <2>5, <2>6
<1> QED
  BY <1>1, <1>2

\* Whether the panel is asked or not, Apply knows enough for every candidate.
LEMMA FetchSuffices ==
    ASSUME IInv, Queue, Fetch, NEW j \in 1..Len(todo)
    PROVE  Suffices(todo[j])'
<1> DEFINE c == todo[j]
<1>1. /\ UNCHANGED given /\ todo' = todo /\ userInfo = SentInfo
      /\ \E S : todo \in Seq(S)
  BY DEF Fetch, IInv, CountersOK, Shape
<1>2. Typed(c)
  BY MadeIsTyped DEF Queue, IInv
<1>3. /\ MatchesStatus(c.rule, info') <=> MatchesStatus(c.rule, PanelSays)
      /\ MatchesLimit(c.rule, SentInfo, info')
             <=> MatchesLimit(c.rule, SentInfo, PanelSays)
      /\ WholeInfo => Undated(Result(c, SentInfo, info'))
                          = Undated(Result(c, SentInfo, PanelSays))
  <2>1. CASE info' = PanelSays
    BY <2>1
  <2>2. CASE info' # PanelSays
    <3>1. info' = Nil /\ ~Needed
      BY <2>2 DEF Fetch, Asks, PanelSays
    <3>2. c.rule.statuses = {}
      BY <1>1, <3>1 DEF Needed
    <3>3. MatchesStatus(c.rule, info') /\ MatchesStatus(c.rule, PanelSays)
      BY <3>2 DEF MatchesStatus
    <3>4. MatchesLimit(c.rule, SentInfo, info')
              <=> MatchesLimit(c.rule, SentInfo, PanelSays)
      <4>1. CASE c.rule.limited = BOOLEAN
        BY <4>1 DEF MatchesLimit
      <4>2. CASE c.rule.limited # BOOLEAN
        <5>1. SentInfo # Nil /\ ~(SentInfo.total < 0)
          BY <1>1, <3>1, <4>2 DEF Needed
        <5>2. Counter(SentInfo, info', "total")
                  = Counter(SentInfo, PanelSays, "total")
          BY <5>1, InfoIsCounters DEF Counter, Counters, Queue
        <5> QED
          BY <5>2 DEF MatchesLimit
      <4> QED
        BY <4>1, <4>2
    <3>5. ~NeedsPanel(NamesIn(c), SentInfo)
      <4>1. NamesIn(c) \subseteq UNION {NamesIn(todo[i]) : i \in DOMAIN todo}
        BY <1>1
      <4>2. ~NeedsPanel(UNION {NamesIn(todo[i]) : i \in DOMAIN todo}, SentInfo)
        BY <1>1, <3>1 DEF Needed
      <4> QED
        BY <4>1, <4>2 DEF NeedsPanel
    <3> QED
      BY <1>2, <3>1, <3>3, <3>4, <3>5, ResultsAlike DEF Queue
  <2> QED
    BY <2>1, <2>2
<1> QED
  BY <1>1, <1>3, SaysStays, ResultStays, UndatedStays
  DEF Suffices, MatchesStatus, MatchesLimit, Counter, Used

-----------------------------------------------------------------------------
(* The race is kept                                                        *)

\* Who is first in a queue stays so when something is appended to it.
LEMMA FirstInLonger ==
    ASSUME NEW q, NEW q2, Len(q) \in Nat, Len(q2) \in Nat, Len(q) <= Len(q2),
           \A j \in 1..Len(q) : q2[j] = q[j], NEW c, NEW n, First(q, c, n)
    PROVE  First(q2, c, n)
BY DEF First

LEMMA QueueViews ==
    ASSUME UNCHANGED given, NEW n
    PROVE  /\ First(todo, OfRule(Min(Hits(n))), n)'
                  <=> First(todo', OfRule(Min(Hits(n))), n)
           /\ First(todo, Winner(n), n)' <=> First(todo', Winner(n), n)
           /\ Nobody(todo, n)' <=> Nobody(todo', n)
BY SettlesStays, WinnerStays DEF First, Nobody

LEMMA EnterStep ==
    ASSUME IInv, Queue, Enter
    PROVE  (pc' = "collect" => Collecting') /\ LazyLookupUnseen'
<1>1. /\ UNCHANGED <<given, todo, at>> /\ at = 1 /\ todo = <<>> /\ h = sent
      /\ pc' \in {"collect", "done"}
  BY DEF Enter, Queue
<1>2. ASSUME NEW n \in Name PROVE ~\E i \in Hits(n)' : i < at'
  BY <1>1, HitsStay, RulesLength DEF Hits, IInv
<1>3. Collecting'
  BY <1>1, <1>2 DEF Collecting, Nobody
<1>4. CASE pc' = "done"
  <2>1. ~short' /\ SentInfo' = Nil /\ h' = sent'
    BY <1>1, <1>4, SaysStays DEF Enter, SentInfo, given
  <2>2. \A n : Expected(n)' = sent'[n]
    BY <2>1 DEF Expected
  <2> QED
    BY <1>3, <2>1, <2>2 DEF LazyLookupUnseen
<1> QED
  BY <1>1, <1>3, <1>4 DEF LazyLookupUnseen, Done

LEMMA RuleStep ==
    ASSUME IInv, Queue, Race, CollectRule
    PROVE  Collecting'
<1>1. /\ UNCHANGED given /\ pc = "collect" /\ at' = at + 1
      /\ at \in DOMAIN engine.rules /\ at \in Nat /\ h = Base
  BY RulesLength DEF CollectRule, Queue, IInv, Shape
<1>2. \/ todo' = todo /\ ~Works(at)
      \/ todo' = Append(todo, OfRule(at)) /\ Works(at)
  BY <1>1 DEF CollectRule, OfRule, Works
<1>3. PICK S : todo \in Seq(S) /\ OfRule(at) \in S
  <2>1. PICK S : todo \in Seq(S)
    BY DEF IInv, Shape
  <2>2. todo \in Seq(S \cup {OfRule(at)})
    BY <2>1
  <2> QED
    BY <2>2
<1>4. /\ Len(todo) \in Nat /\ Len(todo') \in Nat /\ Len(todo) <= Len(todo')
      /\ \A j \in 1..Len(todo) : todo'[j] = todo[j]
      /\ Works(at) => /\ Len(todo') = Len(todo) + 1
                      /\ todo'[Len(todo) + 1] = OfRule(at)
      /\ ~Works(at) => todo' = todo
  BY <1>2, <1>3
<1> SUFFICES ASSUME NEW n \in Name
             PROVE  IF \E i \in Hits(n) : i < at + 1
                    THEN First(todo', OfRule(Min(Hits(n))), n)
                    ELSE Nobody(todo', n)
  BY <1>1, HitsStay, QueueViews DEF Collecting
<1>5. Hits(n) \subseteq Nat
  BY RulesLength DEF Hits, IInv
<1>6. at \in Hits(n) <=> Works(at) /\ Settles(OfRule(at), n)
  BY <1>1, HitIsCandidate DEF Queue, IInv
<1>7. CASE \E i \in Hits(n) : i < at
  <2>1. First(todo, OfRule(Min(Hits(n))), n)
    BY <1>1, <1>7 DEF Race, Collecting
  <2>2. \E i \in Hits(n) : i < at + 1
    BY <1>1, <1>5, <1>7
  <2> QED
    BY <1>4, <2>1, <2>2, FirstInLonger
<1>8. CASE ~\E i \in Hits(n) : i < at
  <2>1. Nobody(todo, n)
    BY <1>1, <1>8 DEF Race, Collecting
  <2>2. CASE at \in Hits(n)
    <3>1. Min(Hits(n)) = at
      BY <1>1, <1>5, <1>8, <2>2, LeastHit DEF IInv
    <3>2. todo'[Len(todo) + 1] = OfRule(at) /\ Len(todo') = Len(todo) + 1
      BY <1>4, <1>6, <2>2
    <3>3. \A k \in 1..Len(todo) : ~Settles(todo'[k], n)
      BY <1>4, <2>1 DEF Nobody
    <3>4. First(todo', OfRule(at), n)
      BY <1>4, <3>2, <3>3 DEF First
    <3> QED
      BY <1>1, <2>2, <3>1, <3>4
  <2>3. CASE at \notin Hits(n)
    <3>1. ~\E i \in Hits(n) : i < at + 1
      BY <1>1, <1>5, <1>8, <2>3
    <3>2. Nobody(todo', n)
      BY <1>4, <1>6, <2>1, <2>3 DEF Nobody
    <3> QED
      BY <3>1, <3>2
  <2> QED
    BY <2>2, <2>3
<1> QED
  BY <1>7, <1>8

LEMMA ScanStep ==
    ASSUME IInv, Queue, Race, CollectHeaders
    PROVE  Ahead'
<1>1. /\ UNCHANGED given /\ pc = "collect" /\ at \in Nat
      /\ at > Len(engine.rules) /\ h = Base /\ h' = h /\ written' = {}
  BY DEF CollectHeaders, Queue, IInv, Shape
<1>2. /\ Len(todo) \in Nat /\ Len(todo') \in Nat /\ Len(todo) <= Len(todo')
      /\ \A j \in 1..Len(todo) : todo'[j] = todo[j]
      /\ \A j \in Len(todo) + 1..Len(todo') :
            \E n \in Scanned(Base) : todo'[j] = OfScan(n)
      /\ \A n \in Scanned(Base) :
            \E j \in Len(todo) + 1..Len(todo') : todo'[j] = OfScan(n)
  BY <1>1, Appended DEF IInv
<1> SUFFICES ASSUME NEW n \in Name
             PROVE  IF Contested(n) THEN First(todo', Winner(n), n)
                    ELSE Nobody(todo', n)
  BY <1>1, BaseStays, WinnerStays, QueueViews DEF Ahead
<1>3. (\E i \in Hits(n) : i < at) <=> Hits(n) # {}
  BY <1>1, RulesLength DEF Hits, IInv
<1>4. CASE Hits(n) # {}
  <2>1. First(todo, OfRule(Min(Hits(n))), n)
    BY <1>1, <1>3, <1>4 DEF Race, Collecting
  <2> QED
    BY <1>2, <1>4, <2>1, FirstInLonger DEF Contested, Winner
<1>5. CASE Hits(n) = {}
  <2>1. Nobody(todo, n)
    BY <1>1, <1>3, <1>5 DEF Race, Collecting
  <2>2. ASSUME NEW k \in 1..Len(todo'), Settles(todo'[k], n)
        PROVE  n \in Scanned(Base) /\ todo'[k] = OfScan(n)
    <3>1. k \in Len(todo) + 1..Len(todo')
      BY <1>2, <2>1, <2>2 DEF Nobody
    <3>2. PICK m \in Scanned(Base) : todo'[k] = OfScan(m)
      BY <1>2, <3>1
    <3> QED
      BY <2>2, <3>2, ScanSettles
  <2>3. CASE n \in Scanned(Base)
    <3>1. PICK j \in Len(todo) + 1..Len(todo') : todo'[j] = OfScan(n)
      BY <1>2, <2>3
    <3>2. First(todo', OfScan(n), n)
      BY <1>2, <2>2, <3>1 DEF First
    <3> QED
      BY <1>5, <2>3, <3>2 DEF Contested, Winner
  <2>4. CASE n \notin Scanned(Base)
    BY <1>5, <2>2, <2>4 DEF Contested, Nobody
  <2> QED
    BY <2>3, <2>4
<1> QED
  BY <1>4, <1>5

\* The head of the queue decides as it should, and hands the race on.
LEMMA WriteStep ==
    ASSUME IInv, Queue, Race, Write
    PROVE  /\ Ahead' /\ Settled' /\ written' \subseteq Name
           /\ \A j \in 1..Len(todo') : Suffices(todo[j])'
<1> DEFINE c == Head(todo)
           m == c.rule.name
<1>1. /\ UNCHANGED <<given, info, userInfo>> /\ pc = "write" /\ Goes
      /\ userInfo = SentInfo
  BY DEF Write, Queue, IInv, CountersOK
<1>2. PICK S : todo \in Seq(S) /\ todo # <<>>
  BY <1>1 DEF IInv, Shape
<1>3. /\ Len(todo) \in Nat \ {0} /\ Len(todo') = Len(todo) - 1 /\ c = todo[1]
      /\ \A j \in 1..Len(todo') : j + 1 \in 1..Len(todo)
                                  /\ todo'[j] = todo[j + 1]
  BY <1>2 DEF Write
<1>4. Suffices(c) /\ m \in Name
  <2>1. 1 \in 1..Len(todo)
    BY <1>3
  <2> QED
    BY <1>1, <1>3, <2>1, MadeIsTyped DEF Race, Queue, IInv, Typed
<1>5. Decides(c) <=> m \notin written /\ Settles(c, m)
  BY <1>1, <1>4 DEF Decides, Settles, Suffices
<1>6. /\ Decides(c) => /\ written' = written \cup {m}
                       /\ h' = [h EXCEPT ![m] = Result(c, SentInfo, info)]
      /\ ~Decides(c) => written' = written /\ h' = h
  BY <1>1 DEF Write
<1>7. h = [n \in Name |-> h[n]]
  BY DEF IInv, Shape
<1>8. ASSUME NEW n \in Name \ written'
      PROVE  /\ h'[n] = Base[n]
             /\ IF Contested(n) THEN First(todo', Winner(n), n)
                ELSE Nobody(todo', n)
  <2>1. n \in Name \ written /\ ~Settles(c, n) /\ h'[n] = h[n]
    <3>1. CASE Decides(c)
      BY <1>4, <1>6, <1>7, <1>8, <3>1 DEF Settles
    <3>2. CASE ~Decides(c)
      BY <1>5, <1>6, <1>8, <3>2 DEF Settles
    <3> QED
      BY <3>1, <3>2
  <2>2. /\ h[n] = Base[n]
        /\ IF Contested(n) THEN First(todo, Winner(n), n) ELSE Nobody(todo, n)
    BY <1>1, <2>1 DEF Race, Ahead
  <2>3. CASE Contested(n)
    <3>1. PICK j \in 1..Len(todo) :
              /\ todo[j] = Winner(n)
              /\ \A k \in 1..j - 1 : Settles(todo[k], n) => todo[k] = Winner(n)
      BY <2>2, <2>3 DEF First
    <3>2. j # 1
      BY <1>3, <2>1, <2>3, <3>1, WinnerSettles DEF Queue, IInv
    <3>3. j - 1 \in 1..Len(todo') /\ todo'[j - 1] = Winner(n)
      BY <1>3, <3>1, <3>2
    <3>4. ASSUME NEW k \in 1..(j - 1) - 1, Settles(todo'[k], n)
          PROVE  todo'[k] = Winner(n)
      <4>1. k + 1 \in 1..j - 1 /\ k \in 1..Len(todo')
        BY <1>3, <3>1
      <4> QED
        BY <1>3, <3>1, <3>4, <4>1
    <3>5. First(todo', Winner(n), n)
      BY <3>3, <3>4 DEF First
    <3> QED
      BY <2>1, <2>2, <2>3, <3>5
  <2>4. CASE ~Contested(n)
    BY <1>3, <2>1, <2>2, <2>4 DEF Nobody
  <2> QED
    BY <2>3, <2>4
<1>9. Ahead'
  BY <1>1, <1>8, BaseStays, WinnerStays, QueueViews DEF Ahead
<1>10. Settled'
  <2> SUFFICES ASSUME WholeInfo, NEW n \in written' PROVE
             Undated(h'[n]) = Undated(Expected(n))
    BY <1>1, ExpectedStays, UndatedStays DEF Settled
  <2>1. CASE Decides(c) /\ n = m
    <3>1. m \in Name \ written /\ Settles(c, m)
      BY <1>4, <1>5, <2>1
    <3>2. Contested(m) /\ First(todo, Winner(m), m)
      <4>1. ~Nobody(todo, m)
        BY <1>3, <3>1 DEF Nobody
      <4> QED
        BY <1>1, <3>1, <4>1 DEF Race, Ahead
    <3>3. PICK j \in 1..Len(todo) :
              /\ todo[j] = Winner(m)
              /\ \A k \in 1..j - 1 : Settles(todo[k], m) => todo[k] = Winner(m)
      BY <3>2 DEF First
    <3>4. c = Winner(m)
      BY <1>3, <3>1, <3>3
    <3>5. h'[m] = Result(c, SentInfo, info)
      BY <1>4, <1>6, <1>7, <2>1
    <3>6. Undated(h'[m]) = Undated(Result(c, SentInfo, PanelSays))
      BY <1>4, <3>5 DEF Suffices
    <3> QED
      BY <1>1, <2>1, <3>2, <3>4, <3>6, ExpectedIsWinners
  <2>2. CASE ~(Decides(c) /\ n = m)
    <3>1. n \in written /\ n \in Name
      BY <1>6, <2>2 DEF Race
    <3>2. h'[n] = h[n]
      <4>1. CASE Decides(c)
        BY <1>6, <1>7, <2>2, <3>1, <4>1
      <4>2. CASE ~Decides(c)
        BY <1>6, <4>2
      <4> QED
        BY <4>1, <4>2
    <3> QED
      BY <1>1, <3>1, <3>2 DEF Race, Settled
  <2> QED
    BY <2>1, <2>2
<1>11. written' \subseteq Name
  BY <1>4, <1>6 DEF Race
<1>12. ASSUME NEW j \in 1..Len(todo') PROVE Suffices(todo[j])'
  <2> DEFINE d == todo[j + 1]
  <2>1. Suffices(d) /\ todo'[j] = d
    BY <1>1, <1>3 DEF Race
  <2> QED
    BY <1>1, <2>1, SaysStays, ResultStays, UndatedStays
    DEF Suffices, MatchesStatus, MatchesLimit, Counter, Used
<1> QED
  BY <1>9, <1>10, <1>11, <1>12

\* When the queue is empty, every header has been settled.
Drained == todo = <<>>

LEMMA Finish == Goes /\ Drained /\ Ahead /\ Settled => LazyLookupUnseen
<1> SUFFICES ASSUME Goes, Drained, Ahead, Settled, WholeInfo, NEW n \in Name
             PROVE  Undated(h[n]) = Undated(Expected(n))
  BY DEF LazyLookupUnseen
<1>1. CASE n \in written
  BY <1>1 DEF Settled
<1>2. CASE n \notin written
  <2>1. h[n] = Base[n] /\ ~Contested(n)
    BY <1>2 DEF Ahead, First, Drained
  <2> QED
    BY <2>1, ExpectedIsWinners
<1> QED
  BY <1>1, <1>2

LEMMA RaceStays ==
    ASSUME IInv, Queue, Race, UNCHANGED <<given, h, at, written>>, todo' = todo
    PROVE  /\ pc = "collect" => Collecting'
           /\ pc \in {"fetch", "write"} => Ahead'
           /\ Goes /\ Settled => Settled'
<1>1. \A n \in Name : /\ Hits(n)' = Hits(n) /\ (Contested(n)' <=> Contested(n))
                      /\ (First(todo, OfRule(Min(Hits(n))), n)'
                            <=> First(todo, OfRule(Min(Hits(n))), n))
                      /\ (First(todo, Winner(n), n)'
                            <=> First(todo, Winner(n), n))
                      /\ (Nobody(todo, n)' <=> Nobody(todo, n))
  BY HitsStay, WinnerStays, QueueViews
<1>2. Base' = Base
  BY BaseStays
<1>3. Goes => /\ \A n \in Name : Expected(n)' = Expected(n)
              /\ WholeInfo' <=> WholeInfo
              /\ \A v : Undated(v)' = Undated(v)
  BY ExpectedStays, UndatedStays
<1>4. pc = "collect" => Collecting'
  BY <1>1 DEF Race, Collecting
<1>5. pc \in {"fetch", "write"} => Ahead'
  BY <1>1, <1>2 DEF Race, Ahead
<1> QED
  BY <1>3, <1>4, <1>5 DEF Settled, Race

LEMMA RaceInit == Init => Race
BY DEF Init, Race, LazyLookupUnseen, Done

LEMMA RaceStep == IInv /\ Queue /\ Race /\ [Next]_vars => Race'
<1> SUFFICES ASSUME IInv, Queue, Race, [Next]_vars PROVE Race'
  OBVIOUS
<1>1. Queue'
  BY QueueStep
<1>2. CASE RenderNotice
  <2>1. pc' = "enter" /\ UNCHANGED written
    BY <1>2 DEF RenderNotice
  <2> QED
    BY <2>1 DEF Race, LazyLookupUnseen, Done
<1>3. CASE Enter
  <2>1. pc' \in {"collect", "done"} /\ UNCHANGED written
    BY <1>3 DEF Enter
  <2> QED
    BY <1>3, <2>1, EnterStep DEF Race
<1>4. CASE CollectRule
  <2>1. pc' = "collect" /\ UNCHANGED written
    BY <1>4 DEF CollectRule
  <2> QED
    BY <1>4, <2>1, RuleStep DEF Race, LazyLookupUnseen, Done
<1>5. CASE CollectHeaders
  <2>1. /\ pc = "collect" /\ UNCHANGED <<given, written>> /\ written = {}
        /\ pc' = IF todo' = <<>> THEN "done" ELSE "fetch"
    BY <1>5 DEF CollectHeaders, Queue
  <2>2. Ahead'
    BY <1>5, ScanStep
  <2>3. Settled' /\ Goes'
    BY <2>1, ReceivedStays DEF Settled, Queue
  <2>4. CASE pc' = "done"
    <3>1. Drained'
      BY <2>1, <2>4 DEF Drained
    <3>2. LazyLookupUnseen'
      BY <2>2, <2>3, <3>1, Finish, PTL
    <3> QED
      BY <2>1, <2>4, <3>2 DEF Race
  <2>5. CASE pc' = "fetch"
    BY <2>1, <2>2, <2>5 DEF Race, LazyLookupUnseen, Done
  <2> QED
    BY <2>1, <2>4, <2>5
<1>6. CASE Fetch
  <2>1. /\ pc = "fetch" /\ pc' = "write" /\ written' = {} /\ written = {}
        /\ UNCHANGED <<given, h, at, todo>>
    BY <1>6 DEF Fetch, Queue
  <2>2. Ahead' /\ Settled'
    BY <2>1, RaceStays DEF Settled
  <2>3. \A j \in 1..Len(todo') : Suffices(todo[j])'
    BY <1>6, <2>1, FetchSuffices
  <2> QED
    BY <2>1, <2>2, <2>3 DEF Race, LazyLookupUnseen, Done
<1>7. CASE Write
  <2>1. /\ pc = "write" /\ UNCHANGED given
        /\ pc' = IF todo' = <<>> THEN "done" ELSE "write"
    BY <1>7 DEF Write
  <2>2. /\ Ahead' /\ Settled' /\ written' \subseteq Name
        /\ \A j \in 1..Len(todo') : Suffices(todo[j])'
    BY <1>7, WriteStep
  <2>3. Goes'
    BY <2>1, ReceivedStays DEF Queue
  <2>4. CASE pc' = "done"
    <3>1. Drained'
      BY <2>1, <2>4 DEF Drained
    <3>2. LazyLookupUnseen'
      BY <2>2, <2>3, <3>1, Finish, PTL
    <3> QED
      BY <2>2, <2>4, <3>2 DEF Race
  <2>5. CASE pc' = "write"
    BY <2>2, <2>5 DEF Race, LazyLookupUnseen, Done
  <2> QED
    BY <2>1, <2>4, <2>5
<1>8. CASE UNCHANGED vars
  <2>1. UNCHANGED <<given, h, at, written, pc, info, userInfo>> /\ todo' = todo
    BY <1>8 DEF vars
  <2>2. /\ pc' = "collect" => Collecting'
        /\ pc' \in {"fetch", "write"} => Ahead'
    BY <2>1, RaceStays
  <2>3. pc' = "write" =>
            Settled' /\ \A j \in 1..Len(todo') : Suffices(todo[j])'
    <3> SUFFICES ASSUME pc = "write"
                 PROVE  Settled' /\ \A j \in 1..Len(todo') : Suffices(todo[j])'
      BY <2>1
    <3>1. Settled'
      BY <2>1, RaceStays DEF Race, Queue
    <3>2. ASSUME NEW j \in 1..Len(todo') PROVE Suffices(todo[j])'
      <4>1. Suffices(todo[j])
        BY <2>1 DEF Race
      <4> QED
        BY <2>1, <4>1, SaysStays, ResultStays, UndatedStays
        DEF Suffices, MatchesStatus, MatchesLimit, Counter, Used
    <3> QED
      BY <3>1, <3>2
  <2>4. LazyLookupUnseen'
    <3>1. UNCHANGED <<Done, SentInfo>>
      BY <2>1, SaysStays DEF Done
    <3>2. \A n : Expected(n)' = Expected(n)
      BY <2>1, BaseStays, SaysStays, HitsStay, MadeStays, ResultStays
      DEF given, Expected, Base, OfRule, OfScan
    <3> QED
      BY <2>1, <3>1, <3>2, UndatedStays DEF Race, LazyLookupUnseen
  <2> QED
    BY <2>1, <2>2, <2>3, <2>4 DEF Race
<1> QED
  BY <1>2, <1>3, <1>4, <1>5, <1>6, <1>7, <1>8 DEF Next

\* Whatever the rules, headers and options, with whole counters each header ends
\* as if the panel had been asked at once and the rules for it had been tried in
\* order: neither the laziness of the lookup nor the order of the scan can be
\* seen, but for which count of the days left is shown.
THEOREM LookupUnseen == Spec => []LazyLookupUnseen
<1>1. Race => LazyLookupUnseen
  BY DEF Race
<1> QED
  BY QueueAlways, RaceInit, RaceStep, <1>1, PTL DEF Spec

-----------------------------------------------------------------------------
(* Types                                                                   *)

\* What a placeholder or a text renders to is text.
LEMMA RenderIsText ==
    ASSUME NEW t, NEW ui, NEW inf, IsText(t)
    PROVE  IsText(Render(t, ui, inf))
<1> SUFFICES ASSUME NEW b \in t, NEW a \in Fill(b, ui, inf)
             PROVE  a[1] \in Kind /\ (a[1] = "hole" => a = Hole(a[2]))
  BY DEF IsText, Render
<1>1. CASE a = b
  BY <1>1 DEF IsText
<1>2. CASE a \in Lookup(b[2], ui, inf)
  <2>1. a = Custom(b[2]) \/ \E v : a = Shown(b[2], v)
    BY <1>2, LookupShows
  <2>2. a[1] \in {"custom", "shown"}
    BY <2>1 DEF Custom, Shown
  <2> QED
    BY <2>2 DEF Kind
<1> QED
  BY <1>1, <1>2 DEF Fill

LEMMA ResultIsText ==
    ASSUME NEW c, Typed(c), ~c.rule.remove, NEW ui, NEW inf
    PROVE  /\ Result(c, ui, inf).form \in WireForm
           /\ IsText(Result(c, ui, inf).text)
<1> DEFINE around == c.source \ {Hole("ORIGINAL_VALUE")}
<1>1. IsText(c.source) /\ IsText(around) /\ c.form \in WireForm
  BY DEF Typed, IsText
<1>2. IsText(Render(around, ui, inf))
  BY <1>1, RenderIsText
<1>3. c.original # Nil => IsText(Render(c.original, ui, inf))
  BY RenderIsText DEF Typed
<1>4. IsText(UNION {IF engine.unknown = "keep" THEN {a} ELSE {} :
                       a \in c.source \ around})
  BY <1>1 DEF IsText
<1> QED
  BY <1>1, <1>2, <1>3, <1>4 DEF Result, RenderAround, IsText

LEMMA TypeInit == Init => TypeOK
<1> SUFFICES ASSUME Init PROVE TypeOK
  OBVIOUS
<1>1. h = sent
  BY DEF Init
<1>2. \A n \in Name : h[n] # Absent => h[n].form \in WireForm /\ IsText(h[n].text)
  BY <1>1, QueueInit, SourceIsText DEF Queue, Received
<1> QED
  BY <1>2, QueueInit DEF Init, Queue, TypeOK

LEMMA TypeStep ==
    IInv /\ Queue /\ Queue' /\ Race' /\ TypeOK /\ [Next]_vars => TypeOK'
<1> SUFFICES ASSUME IInv, Queue, Queue', Race', TypeOK, [Next]_vars
             PROVE  TypeOK'
  OBVIOUS
<1>1. at' \in 1..Len(engine'.rules) + 1 /\ written' \subseteq Name
  BY DEF Queue, Race
<1>2. CASE RenderNotice
  <2>1. IsText(Render(engine.notice, ParseUserInfo(h[UserInfoHeader]),
            IF Asks(NeedsPanel(Holes(engine.notice),
                               ParseUserInfo(h[UserInfoHeader])))
            THEN panel ELSE Nil)) \/ engine.notice = Nil
    BY RenderIsText, SourceIsText DEF IInv, Shape
  <2>2. notice' = Nil \/ IsText(notice')
    BY <1>2, <2>1 DEF RenderNotice
  <2> QED
    BY <1>1, <1>2, <2>2 DEF RenderNotice, TypeOK, given
<1>3. CASE Enter
  <2>1. \A n \in Name :
            h'[n] # Absent => h'[n].form \in WireForm /\ IsText(h'[n].text)
    <3>1. h' = h \/ h' = Base
      BY <1>3 DEF Enter, Queue, Base
    <3> QED
      BY <3>1, BaseIsText DEF TypeOK, Queue, Present
  <2>2. userInfo' = Nil \/ userInfo' \in [Counters -> Int]
    BY <1>3, InfoIsCounters DEF Enter, Queue, SentInfo
  <2> QED
    BY <1>1, <1>3, <2>1, <2>2 DEF Enter, TypeOK, given
<1>4. CASE CollectRule
  BY <1>1, <1>4 DEF CollectRule, TypeOK, given
<1>5. CASE CollectHeaders
  BY <1>1, <1>5 DEF CollectHeaders, TypeOK, given
<1>6. CASE Fetch
  BY <1>1, <1>6 DEF Fetch, Asks, TypeOK, given
<1>7. CASE Write
  <2> DEFINE c == Head(todo)
  <2>1. Typed(c)
    <3>1. todo # <<>> /\ \E S : todo \in Seq(S)
      BY <1>7 DEF Write, IInv, Shape
    <3>2. 1 \in 1..Len(todo) /\ c = todo[1]
      BY <3>1
    <3> QED
      BY <3>2, MadeIsTyped DEF Queue, IInv
  <2>2. \A n \in Name :
            h'[n] # Absent => h'[n].form \in WireForm /\ IsText(h'[n].text)
    <3> SUFFICES ASSUME NEW n \in Name, h'[n] # Absent
                 PROVE  h'[n].form \in WireForm /\ IsText(h'[n].text)
      OBVIOUS
    <3>1. CASE h'[n] = h[n]
      BY <3>1 DEF TypeOK
    <3>2. CASE h'[n] = Result(c, userInfo, info)
      <4>1. ~c.rule.remove
        BY <3>2 DEF Result
      <4> QED
        BY <2>1, <3>2, <4>1, ResultIsText
    <3> QED
      BY <1>7, <3>1, <3>2 DEF Write, IInv, Shape
  <2> QED
    BY <1>1, <1>7, <2>2 DEF Write, TypeOK, given
<1>8. CASE UNCHANGED vars
  BY <1>8 DEF vars, given, TypeOK
<1> QED
  BY <1>2, <1>3, <1>4, <1>5, <1>6, <1>7, <1>8 DEF Next

\* TypeOK: every header is text in a form that a client can read, and what
\* Apply holds is what the page and the panel can say.
THEOREM TypeCorrect == Spec => []TypeOK
BY QueueAlways, RaceInit, RaceStep, QueueStep, TypeInit, TypeStep, PTL DEF Spec

-----------------------------------------------------------------------------
(* When the panel is asked, and what stays when it cannot be               *)

\* What the page sent reads as it did, whatever the form.
LEMMA HolesCame ==
    ASSUME Received, NEW n \in Name, Present(Base, n)
    PROVE  /\ Present(sent, n)
           /\ Holes(TextOf(Base[n])) \subseteq Holes(sent[n].text)
<1>1. Present(sent, n) /\ Holes(TextOf(Base[n])) = Holes(TextOf(sent[n]))
  BY SameHoles
<1>2. Holes({Raw(sent[n])}) = {}
  BY DEF Holes, Raw, Hole
<1> QED
  BY <1>1, <1>2 DEF TextOf

\* A candidate's names are in what came or in a template.
LEMMA NamesAreAround ==
    ASSUME Received, Shape, NEW c, Made(c)
    PROVE  NamesIn(c) \ engine.vars \subseteq NamesAround
<1> DEFINE templates == {engine.rules[i].template : i \in DOMAIN engine.rules}
           came == {sent[n].text : n \in {m \in Name : Present(sent, m)}}
           texts == came \cup (templates \ {Nil})
           around == UNION {Holes(t) : t \in texts}
<1>1. ASSUME NEW r, r.name \in Name, HasWork(r, Base), ~r.remove,
             r.template \in templates \cup {Nil}, c = Candidate(r, Base)
      PROVE  NamesIn(c) \ engine.vars \subseteq NamesAround
  <2>1. ASSUME Present(Base, r.name)
        PROVE  Holes(TextOf(Base[r.name])) \subseteq around
    <3>1. Present(sent, r.name)
          /\ Holes(TextOf(Base[r.name])) \subseteq Holes(sent[r.name].text)
      BY <1>1, <2>1, HolesCame
    <3>2. sent[r.name].text \in texts
      BY <1>1, <3>1
    <3> QED
      BY <3>1, <3>2
  <2>2. Holes(c.source) \subseteq around
    <3>1. CASE r.template # Nil
      BY <1>1, <3>1 DEF Candidate
    <3>2. CASE r.template = Nil
      BY <1>1, <2>1, <3>2 DEF Candidate, Original, HasWork, Substitutes
    <3> QED
      BY <3>1, <3>2
  <2>3. c.original # Nil => Holes(c.original) \subseteq around
    BY <1>1, <2>1 DEF Candidate, Original
  <2>4. NamesIn(c) \subseteq around
    BY <2>2, <2>3 DEF NamesIn
  <2>5. NamesAround = around \ engine.vars
    BY DEF NamesAround
  <2> HIDE DEF around
  <2> QED
    BY <2>4, <2>5
<1>2. ASSUME NEW i \in DOMAIN engine.rules, Works(i), c = OfRule(i)
      PROVE  NamesIn(c) \ engine.vars \subseteq NamesAround
  <2>1. CASE engine.rules[i].remove
    BY <1>2, <2>1 DEF NamesIn, OfRule, Candidate
  <2>2. CASE ~engine.rules[i].remove
    BY <1>1, <1>2, <2>2 DEF Shape, IsRule, Works, OfRule
  <2> QED
    BY <2>1, <2>2
<1>3. ASSUME NEW n \in Scanned(Base), c = OfScan(n)
      PROVE  NamesIn(c) \ engine.vars \subseteq NamesAround
  <2>1. n \in Name /\ HasWork(ScanRule(n), Base)
    BY DEF Scanned, HasWork, ScanRule
  <2>2. /\ ScanRule(n).name = n /\ ScanRule(n).template = Nil
        /\ ~ScanRule(n).remove
    BY DEF ScanRule
  <2> QED
    BY <1>1, <1>3, <2>1, <2>2 DEF OfScan
<1> QED
  BY <1>2, <1>3 DEF Made

LEMMA CommonInit == Init => CommonCaseIsFree
BY DEF Init, CommonCaseIsFree

\* The panel is asked in Fetch only, when something of what was given needs it.
LEMMA CommonStep ==
    IInv /\ Queue /\ CommonCaseIsFree /\ [Next]_vars => CommonCaseIsFree'
<1> SUFFICES ASSUME IInv, Queue, CommonCaseIsFree, [Next]_vars
             PROVE  CommonCaseIsFree'
  OBVIOUS
<1>1. UNCHANGED given
  BY DEF Next, RenderNotice, Enter, CollectRule, CollectHeaders, Fetch, Write, vars
<1>2. /\ UNCHANGED <<engine, sent>> /\ SentInfo' = SentInfo
      /\ NamesAround' = NamesAround
  BY <1>1, SaysStays DEF given, NamesAround, Holes, Present
<1>3. CASE Fetch
  <2> SUFFICES ASSUME asked', ~engine.always, SentInfo # Nil,
                      SentInfo.total >= 0
               PROVE  \/ \E i \in DOMAIN engine.rules :
                            engine.rules[i].statuses # {}
                      \/ \E n \in NamesAround : Catalog[n] = "panel"
    BY <1>2 DEF CommonCaseIsFree
  <2>1. Needed /\ userInfo = SentInfo /\ \E S : todo \in Seq(S)
    BY <1>3 DEF Fetch, Asks, IInv, CountersOK, Shape
  <2>2. \A i \in DOMAIN todo : Made(todo[i])
    BY <2>1 DEF Queue
  <2>3. CASE \E i \in DOMAIN todo : todo[i].rule.statuses # {}
    <3>1. PICK i \in DOMAIN todo : todo[i].rule.statuses # {}
      BY <2>3
    <3>2. \A n : OfScan(n).rule.statuses = {}
      BY DEF OfScan, Candidate, ScanRule
    <3>3. \A k : OfRule(k).rule = engine.rules[k]
      BY DEF OfRule, Candidate
    <3> QED
      BY <2>2, <3>1, <3>2, <3>3 DEF Made
  <2>4. CASE NeedsPanel(UNION {NamesIn(todo[i]) : i \in DOMAIN todo}, userInfo)
    <3>1. PICK n \in (UNION {NamesIn(todo[i]) : i \in DOMAIN todo}) \ engine.vars :
              Catalog[n] = "panel" \/ (Catalog[n] = "traffic" /\ userInfo = Nil)
      BY <2>4 DEF NeedsPanel
    <3>2. PICK i \in DOMAIN todo : n \in NamesIn(todo[i]) \ engine.vars
      BY <3>1
    <3>3. n \in NamesAround
      BY <2>2, <3>2, NamesAreAround DEF Queue, IInv
    <3> QED
      BY <2>1, <3>1, <3>3
  <2>5. ~(userInfo = Nil \/ userInfo.total < 0)
    BY <2>1, InfoIsCounters DEF Counters, Queue
  <2> QED
    BY <2>1, <2>3, <2>4, <2>5 DEF Needed
<1>4. CASE ~Fetch
  <2>1. asked' = asked
    BY <1>4 DEF Next, RenderNotice, Enter, CollectRule, CollectHeaders, Write, vars
  <2> QED
    BY <1>2, <2>1 DEF CommonCaseIsFree
<1> QED
  BY <1>3, <1>4

\* A subscription that carries its counters costs no call of the panel, unless
\* a rule asks for a status or some text names what only the panel knows.
THEOREM CommonCaseFree == Spec => []CommonCaseIsFree
BY QueueAlways, CommonInit, CommonStep, PTL DEF Spec

\* Of what the page sent, what only the panel could fill is still literal.
StillLiteral ==
    PanelSays = Nil /\ engine.unknown = "keep" =>
        \A n \in Name : Present(sent, n) /\ ~Ruled(n) =>
            {m \in Holes(sent[n].text) \ engine.vars : Catalog[m] = "panel"}
                \subseteq Holes(h[n].text)

\* A scanned header keeps them when it is rendered without a panel.
LEMMA ScanKeepsLiteral ==
    ASSUME Received, engine.unknown = "keep", NEW n \in Scanned(Base), NEW ui,
           NEW m \in Holes(sent[n].text) \ engine.vars, Catalog[m] = "panel"
    PROVE  m \in Holes(Result(OfScan(n), ui, Nil).text)
<1> DEFINE t == TextOf(Base[n])
           around == t \ {Hole("ORIGINAL_VALUE")}
<1>1. n \in Name /\ Present(Base, n) /\ Holes(t) # {}
  BY DEF Scanned, Substitutes
<1>2. Present(sent, n) /\ Holes(t) = Holes(TextOf(sent[n]))
  BY <1>1, SameHoles
<1>3. TextOf(sent[n]) = sent[n].text
  <2>1. Holes({Raw(sent[n])}) = {}
    BY DEF Holes, Raw, Hole
  <2> QED
    BY <1>1, <1>2, <2>1 DEF TextOf
<1>4. m = "USERNAME" /\ Hole(m) \in t
  BY <1>2, <1>3 DEF Holes, Placeholder, Catalog
<1>5. Hole(m) \in around
  BY <1>4 DEF Hole
<1>6. Hole(m) \in Fill(Hole(m), ui, Nil)
  <2>1. Lookup(m, ui, Nil) = {}
    BY <1>4 DEF Lookup
  <2> QED
    BY <2>1 DEF Fill, Hole
<1>7. Hole(m) \in Render(around, ui, Nil)
  BY <1>5, <1>6 DEF Render
<1>8. Result(OfScan(n), ui, Nil).text = RenderAround(t, t, ui, Nil)
  BY <1>1 DEF Result, OfScan, Candidate, ScanRule, Original
<1> HIDE DEF t
<1>9. Hole(m) \in RenderAround(t, t, ui, Nil)
  BY <1>7 DEF RenderAround
<1> QED
  BY <1>4, <1>8, <1>9 DEF Holes

LEMMA LiteralInit == Init => StillLiteral
<1> SUFFICES ASSUME Init PROVE StillLiteral
  OBVIOUS
<1>1. h = sent
  BY DEF Init
<1> QED
  BY <1>1 DEF StillLiteral

LEMMA LiteralStep ==
    IInv /\ Queue /\ StillLiteral /\ [Next]_vars => StillLiteral'
<1> SUFFICES ASSUME IInv, Queue, StillLiteral, [Next]_vars
             PROVE  StillLiteral'
  OBVIOUS
<1>1. UNCHANGED given /\ PanelSays' = PanelSays
  <2>1. UNCHANGED given
    BY DEF Next, RenderNotice, Enter, CollectRule, CollectHeaders, Fetch,
           Write, vars
  <2> QED
    BY <2>1, SaysStays
<1> SUFFICES ASSUME PanelSays = Nil, engine.unknown = "keep", NEW n \in Name,
                    Present(sent, n), ~Ruled(n),
                    NEW m \in Holes(sent[n].text) \ engine.vars,
                    Catalog[m] = "panel"
             PROVE  m \in Holes(h'[n].text)
  BY <1>1 DEF StillLiteral, given, Present, Ruled, Holes
<1>2. m \in Holes(h[n].text)
  BY DEF StillLiteral
<1>3. CASE Enter
  <2>1. h' = sent \/ h' = Base
    BY <1>3 DEF Enter, Queue, Base
  <2>2. ASSUME Base[n] # sent[n] PROVE m \in Holes(Base[n].text)
    <3>1. Base[n] = ForceUnlimitedTotal(sent[n])
      BY <2>2 DEF Base, Forced, Queue, Received
    <3> QED
      BY <3>1 DEF ForceUnlimitedTotal, Holes, Hole
  <2> QED
    BY <2>1, <2>2
<1>4. CASE Write
  <2> DEFINE c == Head(todo)
  <2>1. h' = h \/ h' = [h EXCEPT ![c.rule.name] = Result(c, userInfo, info)]
    BY <1>4 DEF Write
  <2>2. CASE h'[n] = h[n]
    BY <1>2, <2>2
  <2>3. CASE n = c.rule.name /\ h'[n] = Result(c, userInfo, info)
    <3>1. Made(c)
      <4>1. todo # <<>> /\ \E S : todo \in Seq(S)
        BY <1>4 DEF Write, IInv, Shape
      <4>2. 1 \in 1..Len(todo) /\ c = todo[1]
        BY <4>1
      <4> QED
        BY <4>2 DEF Queue
    <3>2. \A i : OfRule(i).rule = engine.rules[i]
      BY DEF OfRule, Candidate
    <3>3. \A k : OfScan(k).rule.name = k
      BY DEF OfScan, Candidate, ScanRule
    <3>4. n \in Scanned(Base) /\ c = OfScan(n)
      BY <2>3, <3>1, <3>2, <3>3 DEF Made, Ruled
    <3>5. info = Nil
      BY DEF IInv, CountersOK
    <3> QED
      BY <2>3, <3>4, <3>5, ScanKeepsLiteral DEF Queue
  <2> QED
    BY <2>1, <2>2, <2>3 DEF IInv, Shape
<1>5. CASE ~Enter /\ ~Write
  <2>1. h' = h
    BY <1>5 DEF Next, RenderNotice, CollectRule, CollectHeaders, Fetch, vars
  <2> QED
    BY <1>2, <2>1
<1> QED
  BY <1>3, <1>4, <1>5

\* When the panel cannot be asked, or fails, what only it could fill stays
\* literally in the headers that the page sent and no rule names.
THEOREM LiteralAlways == Spec => []LiteralWithoutPanel
<1>1. StillLiteral => LiteralWithoutPanel
  BY DEF StillLiteral, LiteralWithoutPanel
<1> QED
  BY QueueAlways, LiteralInit, LiteralStep, <1>1, PTL DEF Spec

=============================================================================

---------------------------- MODULE HeaderEngine ----------------------------
(***************************************************************************)
(* What the proxy does to the headers of a subscription response           *)
(* (internal/rewrite, with the parts of internal/subinfo and internal/tmpl *)
(* it decides by): the notice rendered first, the quota hidden, candidates *)
(* collected from the rules and the headers, the panel asked only when     *)
(* something needs it, one write per header.                               *)
(*                                                                         *)
(* A text is the set of what it is made of: words, placeholders (holes),   *)
(* values shown in their place, fields of the userinfo header.  A header   *)
(* has one value, a text in a wire form, or is absent.  Catalog has a name *)
(* or two of each way to a value: the request, a counter of the header or  *)
(* the panel, one of the header alone, the date, the days, the panel.      *)
(***************************************************************************)
EXTENDS Integers, Sequences, FiniteSets, SequencesExt

CONSTANTS
    Name,            \* header names, in canonical spelling
    UserInfoHeader,  \* subscription-userinfo
    Nil,             \* of what is absent
    Now, Day,        \* the time a response comes at, and a day of it
    Starts           \* engines, requests, responses and panels to start with

\* Where a placeholder's value can come from.
Catalog == [ORIGINAL_VALUE |-> "local", SHORT_UUID |-> "local",
            TRAFFIC_USED |-> "traffic", TRAFFIC_LIMIT |-> "traffic",
            TRAFFIC_DOWNLOAD |-> "traffic", DAYS_LEFT |-> "traffic",
            EXPIRES_AT |-> "traffic", USERNAME |-> "panel"]
Placeholder == DOMAIN Catalog

Words(w) == <<"words", w>>
Hole(n) == <<"hole", n>>
Custom(n) == <<"custom", n>>    \* a value of vars
Shown(n, v) == <<"shown", n, v>>
Field(f, v) == <<"field", f, v>>
Raw(v) == <<"raw", v.form, v.text>>  \* base64 taken as it is

\* What arrives or is configured holds no values yet.
SourceKind == {"words", "hole", "field"}
Kind == SourceKind \cup {"custom", "shown", "raw"}
IsSource(t) ==
    \A a \in t : /\ a[1] \in SourceKind
                 /\ a[1] = "hole" => a = Hole(a[2])
                 /\ a[1] = "field" => a[3] \in Int
IsText(t) ==
    \A a \in t : a[1] \in Kind /\ (a[1] = "hole" => a = Hole(a[2]))

\* In place of a header that is not there.
Absent == [form |-> "none", text |-> {}]

\* "base64url" is base64 in another alphabet, or without padding.
WireForm == {"plain", "prefixed", "base64", "base64url"}
Form == WireForm \ {"base64url"}

\* A rule; "asks" for client_types or user_agent conditions, which the request
\* alone decides, so "meets" tells whether they hold.  A template of Nil only
\* substitutes; exists and limited are the answers a condition admits.
IsRule(r) ==
    /\ r.name \in Name
    /\ r.template = Nil \/ (IsSource(r.template) /\ ~r.remove)
    /\ r.encode \in Form \cup {"auto"}
    /\ r.remove \in BOOLEAN
    /\ r.asks \in BOOLEAN /\ r.meets \in BOOLEAN /\ (~r.asks => r.meets)
    /\ r.exists \subseteq BOOLEAN /\ r.limited \subseteq BOOLEAN

\* What a header that no rule names is scanned with.
ScanRule(n) ==
    [name |-> n, template |-> Nil, remove |-> FALSE, encode |-> "auto",
     asks |-> FALSE, meets |-> TRUE, exists |-> BOOLEAN, statuses |-> {},
     limited |-> BOOLEAN]

\* Condition.isEmpty
IsEmpty(r) ==
    ~r.asks /\ r.exists = BOOLEAN /\ r.statuses = {} /\ r.limited = BOOLEAN

\* validate refuses a rule behind one for the same header with no conditions.
Accepted(rules) ==
    \A i, j \in DOMAIN rules :
        i < j /\ rules[i].name = rules[j].name => ~IsEmpty(rules[i])

ASSUME ConstantsAssumption ==
    /\ UserInfoHeader \in Name
    /\ IsFiniteSet(Name)
    /\ Now \in Nat /\ Day \in Nat \ {0}
    /\ \A s \in Starts :
          /\ s.engine.rules \in Seq({s.engine.rules[i] :
                                       i \in DOMAIN s.engine.rules})
          /\ \A i \in DOMAIN s.engine.rules : IsRule(s.engine.rules[i])
          /\ Accepted(s.engine.rules)
          /\ s.engine.notice = Nil \/ IsSource(s.engine.notice)
          /\ s.panel = Nil \/ s.panel.days \in Int
          /\ s.sent = [n \in Name |-> s.sent[n]]
          /\ \A n \in Name : s.sent[n] # Absent =>
                s.sent[n].form \in WireForm /\ IsSource(s.sent[n].text)

\* The fields of a userinfo header.
Counters == {"upload", "download", "total", "expire"}

VARIABLES
    engine,    \* rules and options, fixed at startup
    short,     \* the request has a short UUID
    panel,     \* what a lookup would return; Nil for a failure
    sent,      \* history: the headers as the page sent them
    h,         \* the response's headers
    pc,        \* how far the response has come
    notice,    \* the message for a broken User-Agent, rendered
    userInfo,  \* the counters read from the userinfo header, or Nil
    at,        \* the next rule to look at
    todo,      \* candidates left
    info,      \* what Apply knows from the panel, or Nil
    asked,     \* the panel was called
    written    \* headers that a candidate has decided

given == <<engine, short, panel, sent>>
vars == <<given, h, pc, notice, userInfo, at, todo, info, asked, written>>

TypeOK ==
    /\ \A n \in Name : h[n] # Absent =>
            h[n].form \in WireForm /\ IsText(h[n].text)
    /\ pc \in {"notice", "enter", "collect", "fetch", "write", "done"}
    /\ notice = Nil \/ IsText(notice)
    /\ userInfo = Nil \/ userInfo \in [Counters -> Int]
    /\ at \in 1..Len(engine.rules) + 1
    /\ info \in {Nil, panel}
    /\ asked \in BOOLEAN
    /\ written \subseteq Name

Init ==
    /\ \E s \in Starts :
          /\ engine = s.engine /\ short = s.short
          /\ panel = s.panel /\ sent = s.sent /\ h = s.sent
    /\ pc = "notice"
    /\ notice = Nil /\ userInfo = Nil /\ info = Nil
    /\ at = 1 /\ todo = <<>> /\ asked = FALSE /\ written = {}

-----------------------------------------------------------------------------
(* Texts and their placeholders                                            *)

\* tmpl.Names
Holes(text) == {n \in Placeholder : Hole(n) \in text}

\* A header as placeholders see it: base64 is unwrapped if decode_base64 is on.
TextOf(v) == IF v.form = "plain" \/ engine.decode THEN v.text ELSE {Raw(v)}

\* ParseUserInfo: -1 for a missing field, Nil when there is none.
FieldOf(text, f) ==
    LET found == {a \in text : a[1] = "field" /\ a[2] = f}
    IN  IF found = {} THEN -1 ELSE (CHOOSE a \in found : TRUE)[3]

ParseUserInfo(v) ==
    IF v.form # "plain" \/ (\A a \in v.text : a[1] # "field")
    THEN Nil
    ELSE [f \in Counters |-> FieldOf(v.text, f)]

\* UserInfo.Used: both directions, or the one that is there.
Used(ui) ==
    IF ui.upload < 0 THEN (IF ui.download < 0 THEN -1 ELSE ui.download)
    ELSE IF ui.download < 0 THEN ui.upload ELSE ui.upload + ui.download

\* ForceUnlimitedTotal: total=0 in place of the quota, the rest stays.
ForceUnlimitedTotal(v) ==
    [form |-> v.form,
     text |-> {a \in v.text : ~(a[1] = "field" /\ a[2] = "total")}
              \cup {Field("total", 0)}]

\* trafficCounters: the header's counter, or the panel's for one it left out.
Counter(ui, inf, f) ==
    LET own == IF ui = Nil THEN -1
               ELSE IF f = "used" THEN Used(ui) ELSE ui[f]
    IN  IF own >= 0 THEN own ELSE IF inf # Nil THEN inf[f] ELSE -1

\* expiry: the header's date, or the panel's; 0 for none.
Expiry(ui, inf) ==
    IF ui # Nil /\ ui.expire > 0 THEN ui.expire
    ELSE IF inf # Nil THEN inf.expiry ELSE 0

\* A day begun counts.
DaysUntil(expiry) ==
    IF expiry <= Now THEN 0 ELSE (expiry - Now + Day - 1) \div Day

\* What the panel says, if it was asked, comes before the header's date.
DaysLeft(ui, inf) ==
    IF inf # Nil THEN (IF inf.days > 0 THEN inf.days ELSE 0)
    ELSE IF Expiry(ui, Nil) > 0 THEN DaysUntil(Expiry(ui, Nil)) ELSE -1

Valued(n, v) == IF v < 0 THEN {} ELSE {Shown(n, v)}

\* What a name resolves to, {} when it has no value; a date always has one.
Lookup(n, ui, inf) ==
    IF n \in engine.vars THEN {Custom(n)}
    ELSE CASE n = "SHORT_UUID" -> IF short THEN {Shown(n, 0)} ELSE {}
           [] n = "TRAFFIC_USED" -> Valued(n, Counter(ui, inf, "used"))
           [] n = "TRAFFIC_LIMIT" -> Valued(n, Counter(ui, inf, "total"))
           [] n = "TRAFFIC_DOWNLOAD" ->
                IF ui = Nil THEN {} ELSE Valued(n, ui.download)
           [] n = "DAYS_LEFT" -> Valued(n, DaysLeft(ui, inf))
           [] n = "EXPIRES_AT" -> {Shown(n, Expiry(ui, inf))}
           [] n = "USERNAME" -> IF inf = Nil THEN {} ELSE {Shown(n, 0)}
           [] OTHER -> {}

\* MUTANT a placeholder without a value is always blanked.
FillBlanking(a, ui, inf) ==
    IF a[1] # "hole" THEN {a} ELSE Lookup(a[2], ui, inf)

\* renderOne: a placeholder without a value stays, or is blanked.
Fill(a, ui, inf) ==
    IF a[1] # "hole" THEN {a}
    ELSE LET value == Lookup(a[2], ui, inf)
         IN  IF value = {} /\ engine.unknown = "keep" THEN {a} ELSE value

Render(text, ui, inf) == UNION {Fill(a, ui, inf) : a \in text}

\* Render with withOriginal: the original is rendered on its own, so a
\* placeholder in it that asks for the original has no value.
RenderAround(text, original, ui, inf) ==
    LET around == text \ {Hole("ORIGINAL_VALUE")}
    IN  IF original # Nil /\ Hole("ORIGINAL_VALUE") \in text
        THEN Render(around, ui, inf) \cup Render(original, ui, inf)
        ELSE Render(around, ui, inf)
             \cup UNION {IF engine.unknown = "keep" THEN {a} ELSE {} :
                            a \in text \ around}

-----------------------------------------------------------------------------
(* Candidates                                                              *)

Present(hs, n) == hs[n] # Absent
Original(hs, n) == IF Present(hs, n) THEN TextOf(hs[n]) ELSE Nil

\* A scanned header, or a rule without a template, needs a placeholder.
Substitutes(hs, n) == Present(hs, n) /\ Holes(TextOf(hs[n])) # {}

\* MUTANT encode is used as configured.
FormAsConfigured(rule, hs) == rule.encode

\* overrideForm of what DecodeBase64 detected: the alphabet is not kept.
FormOf(rule, hs) ==
    IF rule.encode # "auto" THEN rule.encode
    ELSE IF ~Present(hs, rule.name) THEN "plain"
    ELSE IF hs[rule.name].form = "base64url" THEN "base64"
    ELSE hs[rule.name].form

\* candidateFor
Candidate(rule, hs) ==
    [rule |-> rule,
     source |-> IF rule.template # Nil THEN rule.template
                ELSE Original(hs, rule.name),
     original |-> Original(hs, rule.name),
     form |-> FormOf(rule, hs)]

MatchesRequest(rule, hs) ==
    rule.meets /\ Present(hs, rule.name) \in rule.exists

\* The rule has something to do to these headers.
HasWork(rule, hs) ==
    IF rule.remove THEN Present(hs, rule.name)
    ELSE rule.template # Nil \/ Substitutes(hs, rule.name)

\* handled: some rule names the header, whether it matches or not.
Ruled(n) == \E i \in DOMAIN engine.rules : engine.rules[i].name = n

\* MUTANT every header is taken, with or without a placeholder.
ScannedWhole(hs) == {n \in Name : engine.scan /\ ~Ruled(n) /\ Present(hs, n)}

\* What the scan adds: no header that a rule names, matching or not.
Scanned(hs) == {n \in Name : engine.scan /\ ~Ruled(n) /\ Substitutes(hs, n)}

-----------------------------------------------------------------------------
(* Conditions and the panel                                                *)

MatchesStatus(rule, inf) ==
    rule.statuses # {} => inf # Nil /\ inf.status \in rule.statuses

\* Limit and matchesTrafficLimit: zero is unlimited, unknown never matches.
MatchesLimit(rule, ui, inf) ==
    rule.limited # BOOLEAN =>
        LET limit == Counter(ui, inf, "total")
        IN  limit >= 0 /\ (limit > 0) \in rule.limited

\* MUTANT the placeholders of the original are not counted.
NamesInTemplate(c) == IF c.rule.remove THEN {} ELSE Holes(c.source)

\* The names a candidate uses, those of an original it shows included.
NamesIn(c) ==
    IF c.rule.remove THEN {}
    ELSE Holes(c.source)
         \cup (IF c.original # Nil /\ Hole("ORIGINAL_VALUE") \in c.source
               THEN Holes(c.original) ELSE {})

\* MUTANT traffic is always taken from the panel.
NeedsPanelForTraffic(names, ui) ==
    \E n \in names \ engine.vars : Catalog[n] \in {"panel", "traffic"}

NeedsPanel(names, ui) ==
    \E n \in names \ engine.vars :
        Catalog[n] = "panel" \/ (Catalog[n] = "traffic" /\ ui = Nil)

\* fetchInfo calls the panel.
Asks(needed) == engine.fetcher /\ short /\ (needed \/ engine.always)

\* What a call answers: there is none without a fetcher or a short UUID.
PanelSays == IF engine.fetcher /\ short THEN panel ELSE Nil

Needed ==
    \/ \E i \in DOMAIN todo : todo[i].rule.statuses # {}
    \/ /\ \E i \in DOMAIN todo : todo[i].rule.limited # BOOLEAN
       /\ userInfo = Nil \/ userInfo.total < 0
    \/ NeedsPanel(UNION {NamesIn(todo[i]) : i \in DOMAIN todo}, userInfo)

-----------------------------------------------------------------------------
(* A response goes through                                                 *)

\* Render, for the notice of a broken User-Agent, before Apply.
RenderNotice ==
    /\ pc = "notice"
    /\ pc' = "enter"
    /\ LET ui == ParseUserInfo(h[UserInfoHeader])
           inf == IF Asks(NeedsPanel(Holes(engine.notice), ui)) THEN panel
                  ELSE Nil
       IN  notice' = IF engine.notice = Nil THEN Nil
                     ELSE Render(engine.notice, ui, inf)
    /\ UNCHANGED <<given, h, userInfo, at, todo, info, asked, written>>

\* force_unlimited changes the header only if it could be read.
Forced(hs) ==
    IF engine.force /\ ParseUserInfo(hs[UserInfoHeader]) # Nil
    THEN [hs EXCEPT ![UserInfoHeader] = ForceUnlimitedTotal(@)]
    ELSE hs

\* MUTANT the counters are read after the quota is hidden.
ReadAfterForcing ==
    /\ pc = "enter"
    /\ userInfo' = ParseUserInfo(Forced(h)[UserInfoHeader])
    /\ IF ~short /\ userInfo' = Nil
       THEN pc' = "done" /\ UNCHANGED h
       ELSE pc' = "collect" /\ h' = Forced(h)
    /\ UNCHANGED <<given, notice, at, todo, info, asked, written>>

\* Apply up to the candidates.
Enter ==
    /\ pc = "enter"
    /\ userInfo' = ParseUserInfo(h[UserInfoHeader])
    /\ IF ~short /\ userInfo' = Nil
       THEN pc' = "done" /\ UNCHANGED h
       ELSE pc' = "collect" /\ h' = Forced(h)
    /\ UNCHANGED <<given, notice, at, todo, info, asked, written>>

\* collect, one rule: a candidate if it matches and has something to do.
CollectRule ==
    /\ pc = "collect" /\ at <= Len(engine.rules)
    /\ LET r == engine.rules[at]
       IN  todo' = IF MatchesRequest(r, h) /\ HasWork(r, h)
                   THEN Append(todo, Candidate(r, h)) ELSE todo
    /\ at' = at + 1
    /\ UNCHANGED <<given, h, pc, notice, userInfo, info, asked, written>>

\* collect, the headers: in map order.
CollectHeaders ==
    /\ pc = "collect" /\ at > Len(engine.rules)
    /\ \E order \in SetToSeqs(Scanned(h)) :
          todo' = todo \o [i \in DOMAIN order |->
                              Candidate(ScanRule(order[i]), h)]
    /\ pc' = IF todo' = <<>> THEN "done" ELSE "fetch"
    /\ UNCHANGED <<given, h, notice, userInfo, at, info, asked, written>>

Fetch ==
    /\ pc = "fetch"
    /\ asked' = Asks(Needed)
    /\ info' = IF asked' THEN panel ELSE Nil
    /\ pc' = "write"
    /\ UNCHANGED <<given, h, notice, userInfo, at, todo, written>>

Decides(c) ==
    /\ c.rule.name \notin written
    /\ MatchesStatus(c.rule, info)
    /\ MatchesLimit(c.rule, userInfo, info)

\* What a deciding candidate leaves of its header.
Result(c, ui, inf) ==
    IF c.rule.remove THEN Absent
    ELSE [form |-> c.form,
          text |-> RenderAround(c.source, c.original, ui, inf)]

\* One turn of the writing loop.
Write ==
    /\ pc = "write"
    /\ todo' = Tail(todo)
    /\ LET c == Head(todo)
       IN  IF Decides(c)
           THEN /\ written' = written \cup {c.rule.name}
                /\ h' = [h EXCEPT ![c.rule.name] = Result(c, userInfo, info)]
           ELSE UNCHANGED <<h, written>>
    /\ pc' = IF todo' = <<>> THEN "done" ELSE "write"
    /\ UNCHANGED <<given, notice, userInfo, at, info, asked>>

Next ==
    \/ RenderNotice \/ Enter
    \/ CollectRule \/ CollectHeaders
    \/ Fetch \/ Write

Spec == Init /\ [][Next]_vars

-----------------------------------------------------------------------------
(* Properties                                                              *)

Done == pc = "done"

\* The counters as the page sent them.
SentInfo == ParseUserInfo(sent[UserInfoHeader])

\* The rules that decide header n if the panel is asked in any case.
Hits(n) ==
    {i \in DOMAIN engine.rules :
        LET r == engine.rules[i]
        IN  /\ r.name = n
            /\ MatchesRequest(r, sent) /\ HasWork(r, sent)
            /\ MatchesStatus(r, PanelSays)
            /\ MatchesLimit(r, SentInfo, PanelSays)}

\* What header n should end as: the first rule that holds and has work to do
\* decides, else the scan, else it stays as it came.
Expected(n) ==
    LET base == Forced(sent)
        By(r) == Result(Candidate(r, base), SentInfo, PanelSays)
    IN  IF ~short /\ SentInfo = Nil THEN sent[n]
        ELSE IF Hits(n) # {} THEN By(engine.rules[Min(Hits(n))])
        ELSE IF n \in Scanned(base) THEN By(ScanRule(n))
        ELSE base[n]

\* A userinfo header that is there has its counters and a date.
WholeInfo ==
    SentInfo # Nil =>
        Used(SentInfo) >= 0 /\ SentInfo.total >= 0 /\ SentInfo.expire > 0

\* The days left by the page's date, and by the panel.
RealDays == {DaysLeft(SentInfo, Nil), DaysLeft(SentInfo, PanelSays)}

\* A header with either of them left open.
Open(a) ==
    IF \E d \in RealDays : a = Shown("DAYS_LEFT", d) THEN <<"days">> ELSE a
Undated(v) == [form |-> v.form, text |-> {Open(a) : a \in v.text}]

\* Not asking the panel, asking it late, and the order of the scan make no
\* difference, if the page sends whole counters: every header ends as if the
\* panel had been asked at once and its rules had been tried in order, except
\* for which of the two counts of days left it shows.
LazyLookupUnseen ==
    Done /\ WholeInfo =>
        \A n \in Name : Undated(h[n]) = Undated(Expected(n))

\* Something asks for header n to be changed: a placeholder in it, the quota to
\* be hidden, or a rule that sets or removes it.
Justified(n) ==
    \/ Present(sent, n) /\ Holes(TextOf(sent[n])) # {}
    \/ n = UserInfoHeader /\ engine.force
    \/ \E i \in DOMAIN engine.rules :
          LET r == engine.rules[i]
          IN  /\ r.name = n
              /\ r.template # Nil \/ r.remove
              /\ MatchesRequest(r, sent)

\* Anything else passes byte for byte, base64 that is not understood included.
OpaqueUntouched == \A n \in Name : h[n] # sent[n] => Justified(n)

\* What the user's quota is, by the page's counters and by the panel's.
RealQuotas ==
    {Counter(SentInfo, Nil, "total"), Counter(SentInfo, PanelSays, "total")}

Honest(text) ==
    \A a \in text :
        a[1] = "shown" /\ a[2] = "TRAFFIC_LIMIT" => a[3] \in RealQuotas

\* The quota the placeholders tell of is the real one, never the zero that
\* force_unlimited shows to the app, in headers and in the notice.
ShowsRealQuota ==
    /\ \A n \in Name : Present(h, n) => Honest(h[n].text)
    /\ notice # Nil => Honest(notice)

\* The names that some header or template uses, custom ones aside.
NamesAround ==
    LET templates == {engine.rules[i].template : i \in DOMAIN engine.rules}
        came == {sent[n].text : n \in {m \in Name : Present(sent, m)}}
    IN  (UNION {Holes(t) : t \in came \cup (templates \ {Nil})})
            \ engine.vars

\* With a quota in the header, no status condition and no placeholder
\* of the panel, the panel is not called: the common case is free.
CommonCaseIsFree ==
    /\ asked /\ ~engine.always
    /\ SentInfo # Nil /\ SentInfo.total >= 0
    => \/ \E i \in DOMAIN engine.rules : engine.rules[i].statuses # {}
       \/ \E n \in NamesAround : Catalog[n] = "panel"

\* When the panel cannot be asked, or fails, the placeholders only it could
\* fill keep their literal text in what the page sent.
LiteralWithoutPanel ==
    Done /\ PanelSays = Nil /\ engine.unknown = "keep" =>
        \A n \in Name : Present(sent, n) /\ ~Ruled(n) =>
            {m \in Holes(sent[n].text) \ engine.vars : Catalog[m] = "panel"}
                \subseteq Holes(h[n].text)

\* REFUTED A quota that the userinfo header leaves out comes from the panel.
FallsBackToPanel ==
    Done /\ PanelSays # Nil =>
        \A n \in written :
            Present(h, n) /\ Counter(SentInfo, PanelSays, "total") >= 0 =>
                "TRAFFIC_LIMIT" \notin Holes(h[n].text)

=============================================================================

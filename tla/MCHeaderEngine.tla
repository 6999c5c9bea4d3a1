--------------------------- MODULE MCHeaderEngine ---------------------------
(* HeaderEngine on small sets, for TLC: every list of rules below against  *)
(* every response, with the default options and each changed on its own.   *)
EXTENDS HeaderEngine

Names == {"userinfo", "announce", "title"}

AnyRule(n, template) == [ScanRule(n) EXCEPT !.template = template]

\* Rules for one header that a panel may set, with each kind of condition.
ForStatus == [AnyRule("announce", {Words("t")}) EXCEPT !.statuses = {"ACTIVE"}]
ForLimited ==
    [AnyRule("announce", {Words("t"), Hole("ORIGINAL_VALUE")})
        EXCEPT !.limited = {TRUE}, !.encode = "prefixed"]
ForApp == [AnyRule("announce", Nil) EXCEPT !.remove = TRUE, !.asks = TRUE]
ForOthers ==
    [AnyRule("announce", {Hole("USERNAME")})
        EXCEPT !.asks = TRUE, !.meets = FALSE]
Substitute == [AnyRule("announce", Nil) EXCEPT !.encode = "base64"]
Default ==
    [AnyRule("announce", {Hole("TRAFFIC_USED")}) EXCEPT !.exists = {FALSE}]

Announces ==
    {ForStatus, ForLimited, ForApp, ForOthers, Substitute, Default}

\* Rules for other headers.
Quota == AnyRule("userinfo", {Hole("ORIGINAL_VALUE"), Hole("TRAFFIC_LIMIT")})
Unlimited ==
    [AnyRule("title", Nil) EXCEPT !.remove = TRUE, !.limited = {FALSE}]

RuleLists ==
    {<<>>, <<Quota>>, <<Unlimited, ForStatus>>}
    \cup {<<r>> : r \in Announces}
    \cup {<<p[1], p[2]>> : p \in {q \in Announces \X Announces :
                                    q[1] # q[2] /\ Accepted(q)}}

-----------------------------------------------------------------------------
Usual == [scan |-> TRUE, decode |-> TRUE, unknown |-> "keep", force |-> FALSE,
          always |-> FALSE, fetcher |-> TRUE, vars |-> {},
          notice |-> {Hole("TRAFFIC_LIMIT"), Hole("USERNAME")}]

Options ==
    {Usual, [Usual EXCEPT !.scan = FALSE], [Usual EXCEPT !.decode = FALSE],
     [Usual EXCEPT !.unknown = "blank"], [Usual EXCEPT !.force = TRUE],
     [Usual EXCEPT !.always = TRUE], [Usual EXCEPT !.fetcher = FALSE],
     [Usual EXCEPT !.vars = {"USERNAME"}, !.notice = Nil]}

Engine(options, rules) ==
    [scan |-> options.scan, decode |-> options.decode,
     unknown |-> options.unknown, force |-> options.force,
     always |-> options.always, fetcher |-> options.fetcher,
     vars |-> options.vars, notice |-> options.notice, rules |-> rules]

Plain(text) == [form |-> "plain", text |-> text]

\* Two days from the hour 100, by the page; one of them has begun.
Whole(total) ==
    Plain({Field("upload", 1), Field("total", total), Field("expire", 130)})
Sparse ==
    Plain({Field("upload", 1), Field("download", 2), Field("total", 5),
           Field("expire", 0)})
Partial == Plain({Field("download", 1)})

Responses ==
    [userinfo : {Absent, Whole(0), Whole(5), Sparse, Partial},
     announce : {Absent, Plain({Words("a")}),
                 Plain({Words("a"), Hole("USERNAME")}),
                 [form |-> "base64url", text |-> {Words("a")}],
                 [form |-> "base64url",
                  text |-> {Words("a"), Hole("TRAFFIC_USED")}],
                 [form |-> "prefixed",
                  text |-> {Hole("SHORT_UUID"), Hole("ORIGINAL_VALUE")}]},
     title : {Plain({Hole("TRAFFIC_LIMIT"), Hole("DAYS_LEFT")}),
              Plain({Hole("TRAFFIC_DOWNLOAD"), Hole("EXPIRES_AT")})}]

\* A user with a quota, one without, and a panel that fails.
Panels ==
    {[status |-> "ACTIVE", used |-> 2, total |-> 7, days |-> 1,
      expiry |-> 130],
     [status |-> "LIMITED", used |-> 2, total |-> 0, days |-> -3,
      expiry |-> 0], Nil}

\* Without a short UUID the panel is not called.
Askings == {[short |-> TRUE, panel |-> p] : p \in Panels}
           \cup {[short |-> FALSE, panel |-> Nil]}

StartsOf(options, lists, responses) ==
    {[engine |-> Engine(o, l), short |-> a.short, panel |-> a.panel,
      sent |-> s] :
        o \in options, l \in lists, a \in Askings, s \in responses}

AllStarts == StartsOf(Options, RuleLists, Responses)

\* A page that sends only what was used, and no rules.
PartialStarts ==
    StartsOf({Usual}, {<<>>}, {s \in Responses : s.userinfo = Partial})

=============================================================================

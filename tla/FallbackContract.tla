-------------------------- MODULE FallbackContract --------------------------
(***************************************************************************)
(* What a client may get from the proxy, as the README states it under     *)
(* "Subscription fallback cache": every request that is not refused on the *)
(* spot goes to the page first, and a stored response stands in for the    *)
(* page's own only when the page failed, only for the same key, only while *)
(* it is no older than TTL, and only if it was complete and small enough.  *)
(***************************************************************************)
EXTENDS Integers

CONSTANTS Request, NoRequest, Key, NoKey, TTL, Never

VARIABLES
    now,
    key,     \* under which a request's response may be kept, or NoKey
    said,    \* what the page said to each request
    kept,    \* when its response was kept
    outcome  \* what its client gets

vars == <<now, key, said, kept, outcome>>

\* "good": a complete subscription of a size worth keeping.  "unfit": any other
\* answer that is the page's last word.  "failed": no answer, or an error of the
\* page's own.  "gone": the client did not wait for one.
Verdicts == {"good", "unfit", "failed", "gone"}

Undecided(r) == outcome[r].kind = "none"

Decide(r, kind, from) ==
    /\ Undecided(r)
    /\ outcome' = [outcome EXCEPT ![r] = [kind |-> kind, from |-> from]]
    /\ UNCHANGED <<now, key, said, kept>>

Init ==
    /\ now = 0
    /\ key \in [Request -> Key \cup {NoKey}]
    /\ said = [r \in Request |-> "nothing"]
    /\ kept = [r \in Request |-> Never]
    /\ outcome = [r \in Request |-> [kind |-> "none", from |-> NoRequest]]

\* Refused or answered without the page, which never hears of the request.
AnswerLocally(r) == said[r] = "nothing" /\ Decide(r, "local", NoRequest)

Hear(r) ==
    /\ Undecided(r)
    /\ said[r] = "nothing"
    /\ said' \in {[said EXCEPT ![r] = v] : v \in Verdicts}
    /\ UNCHANGED <<now, key, kept, outcome>>

Keep(r) ==
    /\ Undecided(r)
    /\ said[r] = "good" /\ key[r] # NoKey /\ kept[r] = Never
    /\ kept' = [kept EXCEPT ![r] = now]
    /\ UNCHANGED <<now, key, said, outcome>>

\* The page's own answer, annotated or cut short as it may be.
AnswerOwn(r) == said[r] # "nothing" /\ Decide(r, "own", r)

Replay(r, q) ==
    /\ said[r] = "failed"
    /\ key[r] # NoKey /\ key[q] = key[r]
    /\ kept[q] # Never /\ now - kept[q] <= TTL
    /\ Decide(r, "replay", q)

Close(r) == said[r] \in {"failed", "gone"} /\ Decide(r, "closed", NoRequest)

Tick == now' = now + 1 /\ UNCHANGED <<key, said, kept, outcome>>

Next ==
    \/ \E r \in Request : \/ AnswerLocally(r) \/ Hear(r) \/ Keep(r)
                          \/ AnswerOwn(r) \/ Close(r)
                          \/ \E q \in Request : Replay(r, q)
    \/ Tick

Spec == Init /\ [][Next]_vars

=============================================================================

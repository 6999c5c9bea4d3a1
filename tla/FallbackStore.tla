--------------------------- MODULE FallbackStore ---------------------------
(***************************************************************************)
(* What the fallback cache promises, whatever its budget and its clock: a  *)
(* map from keys to responses that may forget any of them at any time, but *)
(* in which a key only ever holds the response last taken from a writer    *)
(* that offered it under that very key.                                    *)
(***************************************************************************)
CONSTANTS Key, Value, Nothing, Writer, NoOffer

VARIABLES
    mem,   \* what is remembered for each key, or Nothing
    offer  \* by writer: the offer it is about to make good, or NoOffer

vars == <<mem, offer>>

Offer == [busy : {TRUE}, key : Key, entry : Value]

\* m without what is forgotten for the keys of S.
Without(m, S) == [k \in Key |-> IF k \in S THEN Nothing ELSE m[k]]

Init ==
    /\ mem = [k \in Key |-> Nothing]
    /\ offer = [w \in Writer |-> NoOffer]

\* A writer comes with any response under any key.
MakeOffer(w) ==
    /\ offer[w] = NoOffer
    /\ offer'[w] \in Offer
    /\ offer' = [offer EXCEPT ![w] = offer'[w]]
    /\ UNCHANGED mem

Take(w, S) ==
    /\ offer[w] # NoOffer
    /\ offer' = [offer EXCEPT ![w] = NoOffer]
    /\ mem' = Without([mem EXCEPT ![offer[w].key] = offer[w].entry], S)

Forget(S) ==
    /\ mem' = Without(mem, S)
    /\ UNCHANGED offer

Next ==
    \/ \E w \in Writer : MakeOffer(w)
    \/ \E w \in Writer, S \in SUBSET Key : Take(w, S)
    \/ \E S \in SUBSET Key : Forget(S)

Spec == Init /\ [][Next]_vars

=============================================================================

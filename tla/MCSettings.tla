------------------------------- MODULE MCSettings -------------------------------
(* Two requests.  One user owns household 1 and is signed in, the other is in   *)
(* no household and not signed in; there is room for a third user, another      *)
(* session and another household.  The household has two LLM and two OCR        *)
(* providers, one of each the default, next to the system's LLM provider.       *)
EXTENDS Settings, TLC

CONSTANTS u1, u2, u3, s1, s2, l1, p0, p1, p2, p3, q1, q2, q3, r1, r2

\* One body that is refused at once, one for the CHECK to refuse, and the others.
SomeBodies ==
    [name : {"known"}, key : BOOLEAN, default : BOOLEAN]
        \union {[name |-> "", key |-> FALSE, default |-> FALSE],
                [name |-> "unknown", key |-> FALSE, default |-> FALSE],
                [name |-> "unknown", key |-> FALSE, default |-> TRUE]}

Sym == Permutations(Requests)
Scopes == LLMOps \union OCROps \union SettingOps

Signed(u) == [user |-> u, expired |-> FALSE, revoked |-> FALSE]
TwoUsers ==
    {<<[u \in Users |-> IF u = u3 THEN None
                        ELSE [email |-> IF u = u1 THEN "ann" ELSE "bob"]],
       [s \in Sessions |-> IF s = s1 THEN Signed(u1) ELSE None],
       [h \in Households |-> IF h = 1 THEN [creator |-> u1] ELSE None],
       [h \in Households |-> [u \in Users |-> IF h = 1 /\ u = u1 THEN "owner" ELSE None]]>>}

Of(h, key, default) == [household |-> h, key |-> key, default |-> default]
TwoProviders ==
    {<<[p \in LLMs |-> IF p = p0 THEN Of(None, FALSE, TRUE) ELSE IF p = p1 THEN Of(1, TRUE, TRUE)
                       ELSE IF p = p2 THEN Of(1, FALSE, FALSE) ELSE None],
       [q \in OCRs |-> IF q = q1 THEN Of(1, TRUE, TRUE)
                       ELSE IF q = q2 THEN Of(1, FALSE, FALSE) ELSE None]>>}
================================================================================

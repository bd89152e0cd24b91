----------------------------- MODULE MCMailDesk -----------------------------
(* Two cases, and two mails of which the second answers the first. *)
EXTENDS MailDesk, TLC

CONSTANTS k1, k2, m1, m2, h1, h2, s1, s2, l1, l2

MCCase == {k1, k2}
MCExisting == {k1}
MCHandler == {h1, h2}
MCMessage == {m1, m2}
MCRefers == (m1 :> {}) @@ (m2 :> {m1})
MCSubject == (m1 :> k1) @@ (m2 :> k2)
TwoChannels == {s1, s2}
TwoLines == {l1, l2}
Interchangeable ==
    Permutations(MCHandler) \cup Permutations(TwoChannels) \cup Permutations(TwoLines)
=============================================================================

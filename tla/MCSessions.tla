----------------------------- MODULE MCSessions -----------------------------
(* One user's tokens for TLC: two access and two refresh tokens. *)
EXTENDS Sessions, TLC

CONSTANTS j1, j2, f1, f2, c1, c2

MCAccess == {j1, j2}
MCRefresh == {f1, f2}
MCCall == {c1, c2}
Interchangeable ==
    Permutations(MCAccess) \cup Permutations(MCRefresh) \cup Permutations(MCCall)

\* .env:22, then the forms of the comment at auth.service.ts:67, then a week.
OfEnv == [value |-> 86400000, unit |-> ""]
QuarterHour == [value |-> 15, unit |-> "m"]
OneWeek == [value |-> 1, unit |-> "w"]
OneDigit == [value |-> 5, unit |-> ""]
MCSettings == {OfEnv, QuarterHour, OneWeek, OneDigit}

\* Within and after a quarter of an hour, a day, and the week of a refresh token.
MCMoments == {600, 1000, 90000, 700000}
=============================================================================

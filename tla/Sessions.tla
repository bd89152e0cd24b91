------------------------------- MODULE Sessions -------------------------------
(***************************************************************************)
(* Access and refresh tokens (src/modules/iam/auth).                       *)
(*                                                                         *)
(* An access token is valid until it expires unless its id is on the       *)
(* blacklist; a refresh token is a row that is looked up, saved back whole *)
(* each time it is used, and revoked by the logouts.  An action is one     *)
(* database call with the code up to the next one.  Times are in seconds.  *)
(*                                                                         *)
(* How long an access token lives is one setting, read twice: by the       *)
(* library that signs the token (TokenLife), and by the code that answers  *)
(* and stores when it expires (ParseExpiry).  They do not read alike.      *)
(*                                                                         *)
(* Passwords are not modelled: a login is a call whose checks succeeded.   *)
(***************************************************************************)
EXTENDS Integers, FiniteSets

CONSTANTS
    Access,      \* ids of access tokens, each issued once: the bound on issuing
    Refresh,     \* refresh tokens, each issued once
    Call,        \* calls being handled at the same time
    Settings,    \* the values JWT_EXPIRES_IN may have
    RefreshTTL,
    Moments,     \* the times at which something happens
    None

(* What a unit of a setting stands for, "" being a number without one: to   *)
(* jsonwebtoken, which takes it from the package ms (and for "" counts      *)
(* milliseconds), and the letter parseExpiry takes for the unit.            *)
Unit == {"", "s", "m", "h", "d", "w", "minutes", "day"}
Seconds == [s |-> 1, m |-> 60, h |-> 3600, d |-> 86400, w |-> 604800,
            minutes |-> 60, day |-> 86400]
LastLetter == [s |-> "s", m |-> "m", h |-> "h", d |-> "d", w |-> "w",
               minutes |-> "s", day |-> "y"]

Setting == [value : Nat, unit : Unit]

TokenLife(s) ==
    IF s.unit = "" THEN s.value \div 1000 ELSE s.value * Seconds[s.unit]

\* The multipliers the code knows; 60 for any other letter.
Multiplier(letter) == IF letter \in {"s", "m", "h", "d"} THEN Seconds[letter] ELSE 60

(* The last character is the unit, even where it is a digit: such a number  *)
(* loses it, and of a number with one digit nothing is left (NaN).          *)
ParseExpiry(s) ==
    IF s.unit = ""
    THEN IF s.value < 10 THEN None ELSE (s.value \div 10) * 60
    ELSE s.value * Multiplier(LastLetter[s.unit])

ASSUME SettingsAssumption == Settings \subseteq Setting

ASSUME TimeAssumption ==
    /\ RefreshTTL \in Nat
    /\ Moments \subseteq Nat

\* None is not a time.
ASSUME NoneAssumption == None \notin Int

VARIABLES
    setting,     \* the setting this server runs with
    now,         \* the time
    active,      \* the column isActive of the user
    expires,     \* when each access token expires; None before it is issued
    blacklist,   \* expiresAt of each blacklist entry; None for no entry
    refresh,     \* the rows of the refresh tokens
    call,        \* the calls
    loggedOut,   \* access tokens whose logout was answered (history)
    closed       \* refresh tokens revoked while no refresh used them (history)

tokens == << expires, blacklist, refresh >>
history == << loggedOut, closed >>
vars == << setting, now, active, tokens, call, history >>

NoRow == [stored |-> FALSE, issued |-> FALSE, revoked |-> FALSE, expires |-> 0]
Idle == [pc |-> "idle", access |-> None, refresh |-> None]

Init ==
    /\ setting \in Settings
    /\ now = 0
    /\ active = TRUE
    /\ expires = [j \in Access |-> None]
    /\ blacklist = [j \in Access |-> None]
    /\ refresh = [f \in Refresh |-> NoRow]
    /\ call = [c \in Call |-> Idle]
    /\ loggedOut = {}
    /\ closed = {}

-----------------------------------------------------------------------------
Goes(c, r) == call' = [call EXCEPT ![c] = r]
Ends(c) == Goes(c, Idle)

\* A row the calls may find: stored and not revoked.
Open(f) == refresh[f].stored /\ ~refresh[f].revoked

Expired(f) == refresh[f].expires < now

Issue(j) == expires[j] = None /\ expires' = [expires EXCEPT ![j] = now + TokenLife(setting)]

\* A login looks its user up, checks it, and saves it with lastLoginAt.
Login(c) ==
    /\ call[c].pc = "idle" /\ active
    /\ Goes(c, [Idle EXCEPT !.pc = "login"])
    /\ UNCHANGED << active, tokens, history >>

\* The whole row was read: an isActive changed since is written back.
SaveLogin(c) ==
    /\ call[c].pc = "login"
    /\ active' = TRUE
    /\ Goes(c, [Idle EXCEPT !.pc = "loggedIn"])
    /\ UNCHANGED << tokens, history >>

\* Housekeeping: the user's expired refresh tokens are deleted.
DeleteExpired(c) ==
    /\ call[c].pc = "loggedIn"
    /\ refresh' = [f \in Refresh |->
                     [refresh[f] EXCEPT !.stored = @ /\ ~Expired(f)]]
    /\ Goes(c, [Idle EXCEPT !.pc = "signing"])
    /\ UNCHANGED << active, expires, blacklist, history >>

Inserted(f, at) == [refresh EXCEPT ![f] =
    [stored |-> TRUE, issued |-> TRUE, revoked |-> FALSE, expires |-> at]]

\* Mutant: the time to live of a refresh token has no default.
IssuePairUndated(c) ==
    /\ call[c].pc = "signing"
    /\ \E j \in Access, f \in Refresh :
         /\ Issue(j)
         /\ ~refresh[f].issued
         /\ refresh' = Inserted(f, None)
    /\ Ends(c)
    /\ UNCHANGED << active, blacklist, history >>

\* generateTokenPair: an access token and the row of a new refresh token.
IssuePair(c) ==
    /\ call[c].pc = "signing"
    /\ \E j \in Access, f \in Refresh :
         /\ Issue(j)
         /\ ~refresh[f].issued
         /\ refresh' = Inserted(f, now + RefreshTTL)
    /\ Ends(c)
    /\ UNCHANGED << active, blacklist, history >>

\* Mutant: revoked tokens are not left out of the search.
FindRefreshAny(c) ==
    /\ call[c].pc = "idle"
    /\ \E f \in Refresh :
         /\ refresh[f].stored
         /\ Expired(f) \/ active
         /\ Goes(c, [Idle EXCEPT !.pc = IF Expired(f) THEN "expired" ELSE "used",
                                 !.refresh = f])
    /\ UNCHANGED << active, tokens, history >>

(* A refresh finds its token among the ones not revoked, with its user;     *)
(* it goes on to delete an expired one, and else if the user is active.     *)
FindRefresh(c) ==
    /\ call[c].pc = "idle"
    /\ \E f \in Refresh :
         /\ Open(f)
         /\ Expired(f) \/ active
         /\ Goes(c, [Idle EXCEPT !.pc = IF Expired(f) THEN "expired" ELSE "used",
                                 !.refresh = f])
    /\ UNCHANGED << active, tokens, history >>

RejectExpired(c) ==
    /\ call[c].pc = "expired"
    /\ refresh' = [refresh EXCEPT ![call[c].refresh].stored = FALSE]
    /\ Ends(c)
    /\ UNCHANGED << active, expires, blacklist, history >>

(* The row is saved as it was read, that is not revoked, with lastUsedAt; a *)
(* row deleted since is inserted.                                           *)
SaveUsed(c) ==
    LET f == call[c].refresh IN
    /\ call[c].pc = "used"
    /\ refresh' = [refresh EXCEPT ![f].stored = TRUE, ![f].revoked = FALSE]
    /\ Goes(c, [Idle EXCEPT !.pc = "refreshed", !.refresh = f])
    /\ UNCHANGED << active, expires, blacklist, history >>

IssueRefreshed(c) ==
    /\ call[c].pc = "refreshed"
    /\ \E j \in Access : Issue(j)
    /\ Ends(c)
    /\ UNCHANGED << active, blacklist, refresh, history >>

\* What the guard of every route asks (jwt.strategy.ts).
Accepted(j) == expires[j] # None /\ now < expires[j] /\ blacklist[j] = None

\* A logout names a refresh token, perhaps one that is not found.
FindLogout(c) ==
    /\ call[c].pc = "idle"
    /\ \E j \in Access, f \in Refresh :
         /\ Accepted(j)
         /\ IF Open(f)
            THEN Goes(c, [pc |-> "revoke", access |-> j, refresh |-> f])
            ELSE Goes(c, [Idle EXCEPT !.pc = "blacklist", !.access = j])
    /\ UNCHANGED << active, tokens, history >>

\* No refresh has read the row of f without having answered yet.
Unused(f) == \A c \in Call : call[c].pc \in {"used", "refreshed"} => call[c].refresh # f

Revokes(F) == closed' = closed \cup {f \in F : Unused(f)}

SaveRevoked(c) ==
    LET f == call[c].refresh IN
    /\ call[c].pc = "revoke"
    /\ refresh' = [refresh EXCEPT ![f].stored = TRUE, ![f].revoked = TRUE]
    /\ Revokes({f})
    /\ Goes(c, [Idle EXCEPT !.pc = "blacklist", !.access = call[c].access])
    /\ UNCHANGED << active, expires, blacklist, loggedOut >>

\* logoutAll: one update revokes every row of the user that is not revoked.
RevokeAll(c) ==
    /\ call[c].pc = "idle"
    /\ \E j \in Access :
         /\ Accepted(j)
         /\ Goes(c, [Idle EXCEPT !.pc = "blacklist", !.access = j])
    /\ refresh' = [f \in Refresh |-> [refresh[f] EXCEPT !.revoked = @ \/ refresh[f].stored]]
    /\ Revokes({f \in Refresh : refresh[f].stored})
    /\ UNCHANGED << active, expires, blacklist, loggedOut >>

\* Mutant: the seconds are added to the date as milliseconds.
BlacklistMillis(c) ==
    LET j == call[c].access IN
    /\ call[c].pc = "blacklist"
    /\ IF blacklist[j] = None /\ ParseExpiry(setting) # None
       THEN /\ blacklist' = [blacklist EXCEPT ![j] = now + (ParseExpiry(setting) \div 1000)]
            /\ loggedOut' = loggedOut \cup {j}
       ELSE UNCHANGED << blacklist, loggedOut >>
    /\ Ends(c)
    /\ UNCHANGED << active, expires, refresh, closed >>

(* The entry is to last as long as a token issued now.  Its id is unique in *)
(* the table and its date has to be one: else the save fails.               *)
Blacklist(c) ==
    LET j == call[c].access IN
    /\ call[c].pc = "blacklist"
    /\ IF blacklist[j] = None /\ ParseExpiry(setting) # None
       THEN /\ blacklist' = [blacklist EXCEPT ![j] = now + ParseExpiry(setting)]
            /\ loggedOut' = loggedOut \cup {j}
       ELSE UNCHANGED << blacklist, loggedOut >>
    /\ Ends(c)
    /\ UNCHANGED << active, expires, refresh, closed >>

\* cleanupExpiredBlacklist: one delete of the entries whose time is past.
Cleanup ==
    LET past == {j \in Access : blacklist[j] # None /\ blacklist[j] < now} IN
    /\ past # {}
    /\ blacklist' = [j \in Access |-> IF j \in past THEN None ELSE blacklist[j]]
    /\ UNCHANGED << now, active, expires, refresh, call, history >>

\* An administrator or an LDAP synchronisation changes the account.
SetActive ==
    /\ active' = ~active
    /\ UNCHANGED << now, tokens, call, history >>

Tick ==
    /\ \E t \in Moments : t > now /\ now' = t
    /\ UNCHANGED << active, tokens, call, history >>

-----------------------------------------------------------------------------
CallStep(c) ==
    /\ \/ Login(c) \/ SaveLogin(c) \/ DeleteExpired(c) \/ IssuePair(c)
       \/ FindRefresh(c) \/ RejectExpired(c) \/ SaveUsed(c) \/ IssueRefreshed(c)
       \/ FindLogout(c) \/ SaveRevoked(c) \/ RevokeAll(c) \/ Blacklist(c)
    /\ UNCHANGED now

Next ==
    /\ (\E c \in Call : CallStep(c)) \/ Cleanup \/ SetActive \/ Tick
    /\ UNCHANGED setting

Spec == Init /\ [][Next]_vars

-----------------------------------------------------------------------------
(* What is promised. *)

TypeOK ==
    /\ setting \in Settings
    /\ now \in Nat
    /\ active \in BOOLEAN
    /\ expires \in [Access -> {None} \cup Nat]
    /\ blacklist \in [Access -> {None} \cup Nat]
    /\ refresh \in [Refresh -> [stored : BOOLEAN, issued : BOOLEAN,
                                revoked : BOOLEAN, expires : Nat]]
    /\ call \in [Call -> [pc : {"idle", "login", "loggedIn", "signing", "used",
                                "expired", "refreshed", "revoke", "blacklist"},
                          access : Access \cup {None}, refresh : Refresh \cup {None}]]
    /\ loggedOut \subseteq Access
    /\ closed \subseteq Refresh

(* The settings parseExpiry gives at least the life the token has: a number *)
(* with one of its four letters, or a bare number of milliseconds.          *)
Covered(s) == s.unit \in {"", "s", "m", "h", "d"}

(* With a covered setting, an access token whose logout was answered is     *)
(* refused from then on: it is on the blacklist for as long as it has not   *)
(* expired, whatever the cleanup deletes and however many logouts of the    *)
(* same token overlap.                                                      *)
LoggedOutIsRefused == Covered(setting) => \A j \in loggedOut : ~Accepted(j)

(* A refresh token revoked while no refresh was using it yields no access   *)
(* token any more.                                                          *)
ClosedIssuesNothing ==
    \A c \in Call : call[c].pc \in {"used", "refreshed"} => call[c].refresh \notin closed
=============================================================================

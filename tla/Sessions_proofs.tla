---------------------------- MODULE Sessions_proofs ----------------------------
(***************************************************************************)
(* Proofs about access and refresh tokens, for any tokens, settings, times *)
(* and number of calls at the same time: type correctness, that an         *)
(* answered logout is final where the two readings of the setting agree,   *)
(* and that a revoked refresh token stays unusable.                        *)
(***************************************************************************)
EXTENDS Sessions, TLAPS

USE DEF tokens, history

TokenRow == [stored : BOOLEAN, issued : BOOLEAN, revoked : BOOLEAN, expires : Nat]

CallRecord == [pc : {"idle", "login", "loggedIn", "signing", "used", "expired",
                     "refreshed", "revoke", "blacklist"},
               access : Access \cup {None}, refresh : Refresh \cup {None}]

\* The steps at which a call holds a refresh token it found.
Holding == {"used", "expired", "refreshed", "revoke"}

\* A call knows the tokens its next step works on.
Placed(r) ==
    /\ r.pc \in Holding => r.refresh \in Refresh
    /\ r.pc \in {"revoke", "blacklist"} => r.access \in Access

Typed ==
    /\ TypeOK
    /\ \A c \in Call : Placed(call[c])

\* A token is not logged out before it is issued.
OnlyIssued ==
    \A c \in Call : call[c].pc \in {"revoke", "blacklist"} => expires[call[c].access] # None

\* No token lives longer than the library reads in the setting.
LivesAsSet == \A j \in Access : expires[j] # None => expires[j] <= now + TokenLife(setting)

\* With a covered setting an entry of the blacklist outlives its token.
EntryOutlives ==
    Covered(setting) =>
        \A j \in Access : blacklist[j] # None =>
            expires[j] # None /\ expires[j] <= blacklist[j]

\* A logged out token is then on the blacklist or has expired.
LoggedOutListed ==
    Covered(setting) =>
        \A j \in loggedOut : expires[j] # None /\ (blacklist[j] # None \/ expires[j] < now)

\* A token that is stored, or that a call holds, was issued.
HeldIssued ==
    /\ \A f \in Refresh : refresh[f].stored => refresh[f].issued
    /\ \A c \in Call : call[c].pc \in Holding => refresh[call[c].refresh].issued

\* A closed refresh token is not found again, nor issued again.
ClosedNotOpen == \A f \in closed : refresh[f].issued /\ ~Open(f)

IInv ==
    /\ Typed
    /\ OnlyIssued
    /\ LivesAsSet
    /\ EntryOutlives
    /\ LoggedOutListed
    /\ HeldIssued
    /\ ClosedNotOpen
    /\ ClosedIssuesNothing

-----------------------------------------------------------------------------
LEMMA TypedExpanded ==
    Typed <=> /\ setting \in Settings /\ now \in Nat /\ active \in BOOLEAN
              /\ expires \in [Access -> {None} \cup Nat]
              /\ blacklist \in [Access -> {None} \cup Nat]
              /\ refresh \in [Refresh -> TokenRow]
              /\ call \in [Call -> CallRecord]
              /\ loggedOut \subseteq Access
              /\ closed \subseteq Refresh
              /\ \A c \in Call : Placed(call[c])
BY DEF Typed, TypeOK, TokenRow, CallRecord

LEMMA IdleTyped == NoRow \in TokenRow /\ Idle \in CallRecord /\ Placed(Idle)
BY DEF NoRow, TokenRow, Idle, CallRecord, Placed, Holding

\* A call takes a step to another typed record.
LEMMA CallsTyped ==
    ASSUME Typed, NEW c \in Call, NEW r \in CallRecord, Placed(r), Goes(c, r)
    PROVE  call' \in [Call -> CallRecord] /\ \A d \in Call : Placed(call'[d])
<1>1. call \in [Call -> CallRecord] /\ \A d \in Call : Placed(call[d])
  BY TypedExpanded
<1>2. call' = [call EXCEPT ![c] = r]
  BY DEF Goes
<1>3. \A d \in Call : call'[d] = IF d = c THEN r ELSE call[d]
  BY <1>1, <1>2
<1> QED BY <1>1, <1>2, <1>3

\* What the two readings of a setting are, and how they compare.
LEMMA Readings ==
    ASSUME NEW s \in Settings
    PROVE  /\ TokenLife(s) \in Nat
           /\ ParseExpiry(s) \in {None} \cup Nat
           /\ Covered(s) /\ ParseExpiry(s) # None => TokenLife(s) <= ParseExpiry(s)
<1>0. s \in Setting
  BY SettingsAssumption
<1>1. s.value \in Nat /\ s.unit \in Unit
  BY <1>0 DEF Setting
<1>2. CASE s.unit = ""
  <2>1. TokenLife(s) = s.value \div 1000
    BY <1>2 DEF TokenLife
  <2>2. ParseExpiry(s) = IF s.value < 10 THEN None ELSE (s.value \div 10) * 60
    BY <1>2 DEF ParseExpiry
  <2>3. ASSUME NEW n \in Nat
        PROVE  n \div 1000 \in Nat /\ n \div 10 \in Nat /\ n \div 1000 <= n \div 10
    OBVIOUS
  <2> QED BY <1>1, <2>1, <2>2, <2>3, NoneAssumption
<1>3. CASE s.unit # ""
  <2>1. s.unit \in {"s", "m", "h", "d", "w", "minutes", "day"}
    BY <1>1, <1>3 DEF Unit
  <2>2. TokenLife(s) = s.value * Seconds[s.unit]
    BY <1>3 DEF TokenLife
  <2>3. ParseExpiry(s) = s.value * Multiplier(LastLetter[s.unit])
    BY <1>3 DEF ParseExpiry
  <2>4. Seconds[s.unit] \in Nat /\ Multiplier(LastLetter[s.unit]) \in Nat
    BY <2>1 DEF Seconds, Multiplier, LastLetter
  <2>5. Covered(s) => Multiplier(LastLetter[s.unit]) = Seconds[s.unit]
    <3>1. Covered(s) => s.unit \in {"s", "m", "h", "d"}
      BY <1>3 DEF Covered
    <3>2. \A u \in {"s", "m", "h", "d"} : LastLetter[u] = u
      BY DEF LastLetter
    <3>3. \A u \in {"s", "m", "h", "d"} : Multiplier(u) = Seconds[u]
      BY DEF Multiplier
    <3> QED BY <3>1, <3>2, <3>3
  <2>6. ASSUME NEW m \in Nat, NEW n \in Nat PROVE m * n \in Nat
    OBVIOUS
  <2> QED BY <1>1, <2>2, <2>3, <2>4, <2>5, <2>6
<1> QED BY <1>2, <1>3

LEMMA InitTyped == Init => Typed
<1> SUFFICES ASSUME Init PROVE Typed
  OBVIOUS
<1>1. expires \in [Access -> {None} \cup Nat]
      /\ blacklist \in [Access -> {None} \cup Nat]
  BY DEF Init
<1>2. refresh \in [Refresh -> TokenRow] /\ call \in [Call -> CallRecord]
  BY IdleTyped DEF Init
<1>3. \A c \in Call : Placed(call[c])
  BY IdleTyped DEF Init
<1> QED BY <1>1, <1>2, <1>3, TypedExpanded DEF Init

LEMMA StepTyped ==
    ASSUME Typed, [Next]_vars PROVE Typed'
<1> USE TimeAssumption, NoneAssumption
<1>0. /\ setting \in Settings /\ now \in Nat /\ active \in BOOLEAN
      /\ expires \in [Access -> {None} \cup Nat]
      /\ blacklist \in [Access -> {None} \cup Nat]
      /\ refresh \in [Refresh -> TokenRow]
      /\ call \in [Call -> CallRecord]
      /\ loggedOut \subseteq Access
      /\ closed \subseteq Refresh
      /\ TokenLife(setting) \in Nat /\ ParseExpiry(setting) \in {None} \cup Nat
      /\ \A c \in Call : Placed(call[c])
  BY TypedExpanded, Readings
<1>r. setting' = setting /\ now' \in Nat
  BY <1>0 DEF Next, CallStep, Cleanup, SetActive, Tick, vars
<1>a. ASSUME  /\ active' \in BOOLEAN
               /\ expires' \in [Access -> {None} \cup Nat]
               /\ blacklist' \in [Access -> {None} \cup Nat]
               /\ refresh' \in [Refresh -> TokenRow]
               /\ call' \in [Call -> CallRecord]
               /\ loggedOut' \subseteq Access
               /\ closed' \subseteq Refresh
               /\ \A c \in Call : Placed(call'[c])
      PROVE    Typed'
  BY <1>0, <1>a, <1>r DEF Typed, TypeOK, TokenRow, CallRecord
<1>b. Idle \in CallRecord /\ Placed(Idle) /\ NoRow \in TokenRow
  BY IdleTyped
<1>1. ASSUME NEW c \in Call, CallStep(c) PROVE Typed'
  <2> USE DEF Ends
  <2>0. call[c] \in CallRecord /\ Placed(call[c])
    BY <1>0
  <2>1. CASE Login(c)
    <3>1. [Idle EXCEPT !.pc = "login"] \in CallRecord /\ Placed([Idle EXCEPT !.pc = "login"])
      BY <1>b DEF CallRecord, Placed, Holding
    <3> QED BY <1>0, <2>1, <3>1, CallsTyped, <1>a DEF Login
  <2>2. CASE SaveLogin(c)
    <3>1. [Idle EXCEPT !.pc = "loggedIn"] \in CallRecord
          /\ Placed([Idle EXCEPT !.pc = "loggedIn"])
      BY <1>b DEF CallRecord, Placed, Holding
    <3> QED BY <1>0, <2>2, <3>1, CallsTyped, <1>a DEF SaveLogin
  <2>3. CASE DeleteExpired(c)
    <3>1. [Idle EXCEPT !.pc = "signing"] \in CallRecord
          /\ Placed([Idle EXCEPT !.pc = "signing"])
      BY <1>b DEF CallRecord, Placed, Holding
    <3>2. refresh' \in [Refresh -> TokenRow]
      BY <1>0, <2>3 DEF DeleteExpired, TokenRow
    <3> QED BY <1>0, <2>3, <3>1, <3>2, CallsTyped, <1>a DEF DeleteExpired
  <2>4. CASE IssuePair(c)
    <3>1. expires' \in [Access -> {None} \cup Nat]
      BY <1>0, <2>4 DEF IssuePair, Issue
    <3>2. refresh' \in [Refresh -> TokenRow]
      <4>1. PICK f \in Refresh : refresh' = Inserted(f, now + RefreshTTL)
        BY <2>4 DEF IssuePair
      <4>2. [stored |-> TRUE, issued |-> TRUE, revoked |-> FALSE,
             expires |-> now + RefreshTTL] \in TokenRow
        BY <1>0 DEF TokenRow
      <4> QED BY <1>0, <4>1, <4>2 DEF Inserted
    <3> QED BY <1>0, <1>b, <2>4, <3>1, <3>2, CallsTyped, <1>a DEF IssuePair
  <2>5. CASE FindRefresh(c)
    <3>1. PICK f \in Refresh :
            Goes(c, [Idle EXCEPT !.pc = IF Expired(f) THEN "expired" ELSE "used",
                                 !.refresh = f])
      BY <2>5 DEF FindRefresh
    <3> DEFINE r == [Idle EXCEPT !.pc = IF Expired(f) THEN "expired" ELSE "used",
                                 !.refresh = f]
    <3>2. r \in CallRecord /\ Placed(r)
      BY <1>0, <1>b DEF CallRecord, Placed, Holding
    <3>3. Goes(c, r)
      BY <3>1
    <3> HIDE DEF r
    <3> QED BY <1>0, <2>5, <3>2, <3>3, CallsTyped, <1>a DEF FindRefresh
  <2>6. CASE RejectExpired(c)
    <3>1. refresh' \in [Refresh -> TokenRow]
      BY <1>0, <2>0, <2>6 DEF RejectExpired, TokenRow
    <3> QED BY <1>0, <1>b, <2>6, <3>1, CallsTyped, <1>a DEF RejectExpired
  <2>7. CASE SaveUsed(c)
    <3> DEFINE f == call[c].refresh
               r == [Idle EXCEPT !.pc = "refreshed", !.refresh = f]
    <3>1. f \in Refresh
      BY <2>0, <2>7 DEF SaveUsed, Placed, Holding
    <3>2. r \in CallRecord /\ Placed(r)
      BY <1>b, <3>1 DEF CallRecord, Placed, Holding
    <3>3. refresh' \in [Refresh -> TokenRow]
      BY <1>0, <2>7, <3>1 DEF SaveUsed, TokenRow
    <3> QED BY <1>0, <2>7, <3>2, <3>3, CallsTyped, <1>a DEF SaveUsed
  <2>8. CASE IssueRefreshed(c)
    <3>1. expires' \in [Access -> {None} \cup Nat]
      BY <1>0, <2>8 DEF IssueRefreshed, Issue
    <3> QED BY <1>0, <1>b, <2>8, <3>1, CallsTyped, <1>a DEF IssueRefreshed
  <2>9. CASE FindLogout(c)
    <3>1. PICK j \in Access, f \in Refresh :
            IF Open(f)
            THEN Goes(c, [pc |-> "revoke", access |-> j, refresh |-> f])
            ELSE Goes(c, [Idle EXCEPT !.pc = "blacklist", !.access = j])
      BY <2>9 DEF FindLogout
    <3> DEFINE r == [pc |-> "revoke", access |-> j, refresh |-> f]
               s == [Idle EXCEPT !.pc = "blacklist", !.access = j]
    <3>2. r \in CallRecord /\ Placed(r)
      BY <1>0 DEF CallRecord, Placed, Holding
    <3>3. s \in CallRecord /\ Placed(s)
      BY <1>b DEF CallRecord, Placed, Holding
    <3>4. Goes(c, r) \/ Goes(c, s)
      BY <3>1
    <3> HIDE DEF r, s
    <3> QED BY <1>0, <2>9, <3>2, <3>3, <3>4, CallsTyped, <1>a DEF FindLogout
  <2>10. CASE SaveRevoked(c)
    <3> DEFINE r == [Idle EXCEPT !.pc = "blacklist", !.access = call[c].access]
    <3>1. call[c].refresh \in Refresh /\ call[c].access \in Access
      BY <2>0, <2>10 DEF SaveRevoked, Placed, Holding
    <3>2. r \in CallRecord /\ Placed(r)
      BY <1>b, <3>1 DEF CallRecord, Placed, Holding
    <3>3. refresh' \in [Refresh -> TokenRow]
      BY <1>0, <2>10, <3>1 DEF SaveRevoked, TokenRow
    <3>4. closed' \subseteq Refresh
      BY <1>0, <2>10, <3>1 DEF SaveRevoked, Revokes
    <3> QED BY <1>0, <2>10, <3>2, <3>3, <3>4, CallsTyped, <1>a DEF SaveRevoked
  <2>11. CASE RevokeAll(c)
    <3>1. PICK j \in Access : Goes(c, [Idle EXCEPT !.pc = "blacklist", !.access = j])
      BY <2>11 DEF RevokeAll
    <3> DEFINE r == [Idle EXCEPT !.pc = "blacklist", !.access = j]
    <3>2. r \in CallRecord /\ Placed(r)
      BY <1>b DEF CallRecord, Placed, Holding
    <3>3. refresh' \in [Refresh -> TokenRow]
      BY <1>0, <2>11 DEF RevokeAll, TokenRow
    <3>4. closed' \subseteq Refresh
      BY <1>0, <2>11 DEF RevokeAll, Revokes
    <3> QED BY <1>0, <2>11, <3>1, <3>2, <3>3, <3>4, CallsTyped, <1>a DEF RevokeAll
  <2>12. CASE Blacklist(c)
    <3>1. call[c].access \in Access
      BY <2>0, <2>12 DEF Blacklist, Placed, Holding
    <3>2. blacklist' \in [Access -> {None} \cup Nat] /\ loggedOut' \subseteq Access
      BY <1>0, <2>12, <3>1 DEF Blacklist
    <3> QED BY <1>0, <1>b, <2>12, <3>2, CallsTyped, <1>a DEF Blacklist
  <2> QED BY <1>1, <2>1, <2>2, <2>3, <2>4, <2>5, <2>6, <2>7, <2>8, <2>9, <2>10, <2>11, <2>12
         DEF CallStep
<1>2. CASE Cleanup
  <2>1. blacklist' \in [Access -> {None} \cup Nat]
    BY <1>0, <1>2 DEF Cleanup
  <2> QED BY <1>0, <1>2, <2>1, <1>a DEF Cleanup
<1>3. CASE SetActive
  BY <1>0, <1>3, <1>a DEF SetActive
<1>4. CASE Tick
  BY <1>0, <1>4, <1>a DEF Tick
<1>5. CASE UNCHANGED vars
  BY <1>0, <1>5, <1>a DEF vars
<1> QED BY <1>1, <1>2, <1>3, <1>4, <1>5 DEF Next

-----------------------------------------------------------------------------
\* Where a call's tokens come from: it found them, or its last step had them.
LEMMA CallStepShape ==
    ASSUME Typed, NEW c \in Call, CallStep(c)
    PROVE  /\ \A d \in Call \ {c} : call'[d] = call[d]
           /\ call'[c].pc \in {"revoke", "blacklist"} =>
                \/ Accepted(call'[c].access)
                \/ call[c].pc = "revoke" /\ call'[c].access = call[c].access
           /\ call'[c].pc \in Holding =>
                \/ Open(call'[c].refresh)
                \/ call[c].pc = "used" /\ call'[c].refresh = call[c].refresh
<1> DEFINE Shape(r) ==
      /\ r.pc \in {"revoke", "blacklist"} =>
           \/ Accepted(r.access)
           \/ call[c].pc = "revoke" /\ r.access = call[c].access
      /\ r.pc \in Holding =>
           \/ Open(r.refresh)
           \/ call[c].pc = "used" /\ r.refresh = call[c].refresh
<1>1. ASSUME NEW r, Goes(c, r), Shape(r)
      PROVE  (\A d \in Call \ {c} : call'[d] = call[d]) /\ Shape(call'[c])
  <2>1. call' = [call EXCEPT ![c] = r]
    BY <1>1 DEF Goes
  <2>2. call \in [Call -> CallRecord]
    BY TypedExpanded
  <2>3. call'[c] = r /\ \A d \in Call \ {c} : call'[d] = call[d]
    BY <2>1, <2>2
  <2> QED BY <1>1, <2>3
<1>2. PICK r : Goes(c, r) /\ Shape(r)
  <2> USE DEF Holding
  <2>0. Idle \in CallRecord /\ Idle.pc = "idle"
    BY IdleTyped DEF Idle
  <2>1. CASE Login(c)
    BY <2>0, <2>1 DEF Login, CallRecord
  <2>2. CASE SaveLogin(c)
    BY <2>0, <2>2 DEF SaveLogin, CallRecord
  <2>3. CASE DeleteExpired(c)
    BY <2>0, <2>3 DEF DeleteExpired, CallRecord
  <2>4. CASE IssuePair(c)
    BY <2>0, <2>4 DEF IssuePair, Ends
  <2>5. CASE FindRefresh(c)
    <3>1. PICK f \in Refresh :
            /\ Open(f)
            /\ Goes(c, [Idle EXCEPT !.pc = IF Expired(f) THEN "expired" ELSE "used",
                                    !.refresh = f])
      BY <2>5 DEF FindRefresh
    <3> DEFINE s == [Idle EXCEPT !.pc = IF Expired(f) THEN "expired" ELSE "used",
                                 !.refresh = f]
    <3>2. s.pc \in {"expired", "used"} /\ s.refresh = f
      BY <2>0 DEF CallRecord
    <3>3. Goes(c, s)
      BY <3>1
    <3> HIDE DEF s
    <3> QED BY <3>1, <3>2, <3>3
  <2>6. CASE RejectExpired(c)
    BY <2>0, <2>6 DEF RejectExpired, Ends
  <2>7. CASE SaveUsed(c)
    <3> DEFINE s == [Idle EXCEPT !.pc = "refreshed", !.refresh = call[c].refresh]
    <3>1. s.pc = "refreshed" /\ s.refresh = call[c].refresh
      BY <2>0 DEF CallRecord
    <3>2. call[c].pc = "used" /\ Goes(c, s)
      BY <2>7 DEF SaveUsed
    <3> HIDE DEF s
    <3> QED BY <3>1, <3>2
  <2>8. CASE IssueRefreshed(c)
    BY <2>0, <2>8 DEF IssueRefreshed, Ends
  <2>9. CASE FindLogout(c)
    <3>1. PICK j \in Access, f \in Refresh :
            /\ Accepted(j)
            /\ IF Open(f)
               THEN Goes(c, [pc |-> "revoke", access |-> j, refresh |-> f])
               ELSE Goes(c, [Idle EXCEPT !.pc = "blacklist", !.access = j])
      BY <2>9 DEF FindLogout
    <3> DEFINE s == [pc |-> "revoke", access |-> j, refresh |-> f]
               t == [Idle EXCEPT !.pc = "blacklist", !.access = j]
    <3>2. s.pc = "revoke" /\ s.access = j /\ s.refresh = f /\ t.pc = "blacklist" /\ t.access = j
      BY <2>0 DEF CallRecord
    <3>3. (Open(f) /\ Goes(c, s)) \/ Goes(c, t)
      BY <3>1
    <3> HIDE DEF s, t
    <3> QED BY <3>1, <3>2, <3>3
  <2>10. CASE SaveRevoked(c)
    <3> DEFINE s == [Idle EXCEPT !.pc = "blacklist", !.access = call[c].access]
    <3>1. s.pc = "blacklist" /\ s.access = call[c].access
      BY <2>0 DEF CallRecord
    <3>2. call[c].pc = "revoke" /\ Goes(c, s)
      BY <2>10 DEF SaveRevoked
    <3> HIDE DEF s
    <3> QED BY <3>1, <3>2
  <2>11. CASE RevokeAll(c)
    <3>1. PICK j \in Access :
            Accepted(j) /\ Goes(c, [Idle EXCEPT !.pc = "blacklist", !.access = j])
      BY <2>11 DEF RevokeAll
    <3> DEFINE s == [Idle EXCEPT !.pc = "blacklist", !.access = j]
    <3>2. s.pc = "blacklist" /\ s.access = j
      BY <2>0 DEF CallRecord
    <3>3. Goes(c, s)
      BY <3>1
    <3> HIDE DEF s
    <3> QED BY <3>1, <3>2, <3>3
  <2>12. CASE Blacklist(c)
    BY <2>0, <2>12 DEF Blacklist, Ends
  <2> QED BY <2>1, <2>2, <2>3, <2>4, <2>5, <2>6, <2>7, <2>8, <2>9, <2>10, <2>11, <2>12
         DEF CallStep
<1> QED BY <1>1, <1>2


\* What a step may do to an access token and its entry; time only goes on.
LEMMA TimesStep ==
    ASSUME Typed, [Next]_vars, NEW j \in Access
    PROVE  /\ setting' = setting /\ now' \in Nat /\ now <= now'
           /\ \/ /\ expires'[j] = expires[j] /\ blacklist'[j] = blacklist[j]
                 /\ j \in loggedOut' => j \in loggedOut
              \/ /\ expires[j] = None /\ expires'[j] = now + TokenLife(setting)
                 /\ blacklist'[j] = blacklist[j] /\ loggedOut' = loggedOut
              \/ /\ \E c \in Call : call[c].pc = "blacklist" /\ call[c].access = j
                 /\ ParseExpiry(setting) # None
                 /\ expires'[j] = expires[j] /\ blacklist'[j] = now + ParseExpiry(setting)
              \/ /\ blacklist[j] # None /\ blacklist[j] < now /\ blacklist'[j] = None
                 /\ expires'[j] = expires[j] /\ loggedOut' = loggedOut
<1>0. /\ expires \in [Access -> {None} \cup Nat]
      /\ blacklist \in [Access -> {None} \cup Nat]
      /\ now \in Nat
  BY TypedExpanded
<1>r. setting' = setting /\ now' \in Nat /\ now <= now'
  BY <1>0, TimeAssumption DEF Next, CallStep, Cleanup, SetActive, Tick, vars
<1>1. ASSUME NEW c \in Call, IssuePair(c) \/ IssueRefreshed(c)
      PROVE  /\ blacklist'[j] = blacklist[j] /\ loggedOut' = loggedOut
             /\ \/ expires'[j] = expires[j]
                \/ expires[j] = None /\ expires'[j] = now + TokenLife(setting)
  <2>1. PICK k \in Access : Issue(k)
    BY <1>1 DEF IssuePair, IssueRefreshed
  <2>2. blacklist' = blacklist /\ loggedOut' = loggedOut
    BY <1>1 DEF IssuePair, IssueRefreshed
  <2> QED BY <1>0, <2>1, <2>2 DEF Issue
<1>2. ASSUME NEW c \in Call, Blacklist(c)
      PROVE  \/ /\ expires'[j] = expires[j] /\ blacklist'[j] = blacklist[j]
                /\ j \in loggedOut' => j \in loggedOut
             \/ /\ call[c].pc = "blacklist" /\ call[c].access = j
                /\ ParseExpiry(setting) # None
                /\ expires'[j] = expires[j] /\ blacklist'[j] = now + ParseExpiry(setting)
  BY <1>0, <1>2 DEF Blacklist
<1>3. ASSUME NEW c \in Call, CallStep(c),
             ~(IssuePair(c) \/ IssueRefreshed(c)), ~Blacklist(c)
      PROVE  UNCHANGED << expires, blacklist, loggedOut >>
  BY <1>3 DEF CallStep, Login, SaveLogin, DeleteExpired, FindRefresh, RejectExpired, SaveUsed,
              FindLogout, SaveRevoked, RevokeAll
<1>4. CASE Cleanup
  BY <1>0, <1>r, <1>4 DEF Cleanup
<1>5. CASE SetActive \/ Tick \/ UNCHANGED vars
  BY <1>r, <1>5 DEF SetActive, Tick, vars
<1>6. CASE \E c \in Call : CallStep(c)
  BY <1>r, <1>1, <1>2, <1>3, <1>6
<1> QED BY <1>4, <1>5, <1>6 DEF Next

LEMMA OnlyIssuedStep ==
    ASSUME Typed, OnlyIssued, [Next]_vars PROVE OnlyIssued'
<1>0. /\ expires \in [Access -> {None} \cup Nat]
      /\ call \in [Call -> CallRecord] /\ \A c \in Call : Placed(call[c])
      /\ now \in Nat /\ setting \in Settings
  BY TypedExpanded
<1>1. \A j \in Access : expires[j] # None => expires'[j] # None
  BY <1>0, TimesStep
<1>2. ASSUME NEW c \in Call, call'[c].pc \in {"revoke", "blacklist"}
      PROVE  call'[c].access \in Access /\ expires[call'[c].access] # None
  <2>1. Typed'
    BY StepTyped
  <2>2. call'[c].access \in Access
    BY <1>2, <2>1, TypedExpanded DEF Typed, Placed
  <2>3. CASE CallStep(c)
    <3>1. call[c].pc = "revoke" => expires[call[c].access] # None
      BY DEF OnlyIssued
    <3> QED BY <1>2, <2>2, <2>3, <3>1, CallStepShape DEF Accepted
  <2>4. CASE call'[c] = call[c]
    BY <1>2, <2>2, <2>4 DEF OnlyIssued
  <2>5. CallStep(c) \/ call'[c] = call[c]
    BY CallStepShape DEF Next, Cleanup, SetActive, Tick, vars
  <2> QED BY <2>2, <2>3, <2>4, <2>5
<1> QED BY <1>1, <1>2 DEF OnlyIssued

LEMMA LivesAsSetStep ==
    ASSUME Typed, LivesAsSet, [Next]_vars PROVE LivesAsSet'
<1>0. /\ expires \in [Access -> {None} \cup Nat]
      /\ now \in Nat /\ setting \in Settings
  BY TypedExpanded
<1>1. TokenLife(setting) \in Nat
  BY <1>0, Readings
<1> SUFFICES ASSUME NEW j \in Access, expires'[j] # None
             PROVE  expires'[j] <= now' + TokenLife(setting')
  BY DEF LivesAsSet
<1>2. setting' = setting /\ now' \in Nat /\ now <= now'
  BY TimesStep
<1>3. expires'[j] = expires[j] \/ expires'[j] = now + TokenLife(setting)
  BY TimesStep
<1>4. expires'[j] \in Nat /\ expires'[j] <= now + TokenLife(setting)
  BY <1>0, <1>1, <1>3 DEF LivesAsSet
<1> QED BY <1>0, <1>1, <1>2, <1>4

LEMMA EntryOutlivesStep ==
    ASSUME Typed, OnlyIssued, LivesAsSet, EntryOutlives, [Next]_vars PROVE EntryOutlives'
<1>0. /\ expires \in [Access -> {None} \cup Nat]
      /\ blacklist \in [Access -> {None} \cup Nat]
      /\ now \in Nat /\ setting \in Settings
  BY TypedExpanded
<1> SUFFICES ASSUME Covered(setting'), NEW j \in Access, blacklist'[j] # None
             PROVE  expires'[j] # None /\ expires'[j] <= blacklist'[j]
  BY DEF EntryOutlives
<1>a. Covered(setting)
  <2>1. setting' = setting
    BY TimesStep
  <2> QED BY <2>1
<1>1. blacklist[j] # None => expires[j] # None /\ expires[j] <= blacklist[j]
  BY <1>a DEF EntryOutlives
<1>2. CASE expires'[j] = expires[j] /\ blacklist'[j] = blacklist[j]
  BY <1>1, <1>2
<1>3. CASE expires[j] = None /\ blacklist'[j] = blacklist[j]
  BY <1>1, <1>3
<1>4. CASE /\ \E c \in Call : call[c].pc = "blacklist" /\ call[c].access = j
           /\ ParseExpiry(setting) # None
           /\ expires'[j] = expires[j] /\ blacklist'[j] = now + ParseExpiry(setting)
  <2>1. expires[j] # None
    BY <1>4 DEF OnlyIssued
  <2>2. expires[j] \in Nat /\ expires[j] <= now + TokenLife(setting)
    BY <1>0, <2>1 DEF LivesAsSet
  <2>3. /\ TokenLife(setting) \in Nat /\ ParseExpiry(setting) \in Nat
        /\ TokenLife(setting) <= ParseExpiry(setting)
    BY <1>0, <1>a, <1>4, Readings
  <2> QED BY <1>0, <1>4, <2>1, <2>2, <2>3
<1> QED BY <1>2, <1>3, <1>4, TimesStep

LEMMA LoggedOutListedStep ==
    ASSUME Typed, OnlyIssued, EntryOutlives, LoggedOutListed, [Next]_vars
    PROVE  LoggedOutListed'
<1>0. /\ expires \in [Access -> {None} \cup Nat]
      /\ blacklist \in [Access -> {None} \cup Nat]
      /\ loggedOut \subseteq Access
      /\ now \in Nat /\ setting \in Settings
  BY TypedExpanded
<1> SUFFICES ASSUME Covered(setting'), NEW j \in loggedOut'
             PROVE  expires'[j] # None /\ (blacklist'[j] # None \/ expires'[j] < now')
  BY DEF LoggedOutListed
<1>a. j \in Access
  BY StepTyped DEF Typed, TypeOK
<1>b. setting' = setting /\ now' \in Nat /\ now <= now'
  BY <1>a, TimesStep
<1>c. Covered(setting)
  BY <1>b
<1>1. j \in loggedOut => expires[j] # None /\ (blacklist[j] # None \/ expires[j] < now)
  BY <1>c DEF LoggedOutListed
<1>2. CASE expires'[j] = expires[j] /\ blacklist'[j] = blacklist[j] /\ j \in loggedOut
  BY <1>0, <1>a, <1>b, <1>1, <1>2
<1>3. CASE expires[j] = None /\ j \in loggedOut
  BY <1>1, <1>3
<1>4. CASE /\ \E c \in Call : call[c].pc = "blacklist" /\ call[c].access = j
           /\ ParseExpiry(setting) # None
           /\ expires'[j] = expires[j] /\ blacklist'[j] = now + ParseExpiry(setting)
  <2>1. ParseExpiry(setting) \in Nat
    BY <1>0, <1>4, Readings
  <2> QED BY <1>0, <1>4, <2>1, NoneAssumption DEF OnlyIssued
<1>5. CASE /\ blacklist[j] # None /\ blacklist[j] < now /\ blacklist'[j] = None
           /\ expires'[j] = expires[j]
  <2>1. expires[j] # None /\ expires[j] <= blacklist[j]
    BY <1>5, <1>a, <1>c DEF EntryOutlives
  <2> QED BY <1>0, <1>5, <1>a, <1>b, <2>1
<1> QED BY <1>2, <1>3, <1>4, <1>5, <1>a, TimesStep

\* What a step may do to the row of a refresh token.
LEMMA RowStep ==
    ASSUME Typed, HeldIssued, [Next]_vars, NEW f \in Refresh
    PROVE  /\ refresh[f].issued => refresh'[f].issued
           /\ refresh'[f].stored => refresh'[f].issued
           /\ refresh[f].issued /\ ~Open(f) /\ Open(f)' =>
                \E c \in Call : call[c].pc = "used" /\ call[c].refresh = f
<1>0. /\ refresh \in [Refresh -> TokenRow] /\ call \in [Call -> CallRecord]
      /\ \A c \in Call : Placed(call[c])
  BY TypedExpanded
<1>a. refresh[f] \in TokenRow /\ (refresh[f].stored => refresh[f].issued)
  BY <1>0 DEF HeldIssued
<1> USE DEF Open, TokenRow
<1>1. ASSUME NEW c \in Call, IssuePair(c)
      PROVE  \/ refresh'[f] = refresh[f]
             \/ ~refresh[f].issued /\ refresh'[f].issued
  <2>1. PICK g \in Refresh :
          /\ ~refresh[g].issued
          /\ refresh' = Inserted(g, now + RefreshTTL)
    BY <1>1 DEF IssuePair
  <2> QED BY <1>0, <2>1 DEF Inserted
<1>2. ASSUME NEW c \in Call, DeleteExpired(c) \/ RejectExpired(c) \/ RevokeAll(c)
      PROVE  /\ refresh'[f].issued = refresh[f].issued
             /\ refresh'[f].stored => refresh[f].stored
             /\ refresh[f].revoked => refresh'[f].revoked
  <2>1. CASE DeleteExpired(c)
    BY <1>0, <2>1 DEF DeleteExpired
  <2>2. CASE RejectExpired(c)
    BY <1>0, <2>2 DEF RejectExpired
  <2>3. CASE RevokeAll(c)
    BY <1>0, <2>3 DEF RevokeAll
  <2> QED BY <1>2, <2>1, <2>2, <2>3
<1>3. ASSUME NEW c \in Call, SaveUsed(c)
      PROVE  \/ refresh'[f] = refresh[f]
             \/ /\ call[c].pc = "used" /\ call[c].refresh = f
                /\ refresh[f].issued /\ refresh'[f].issued
  <2>1. call[c].refresh \in Refresh /\ refresh[call[c].refresh].issued
    BY <1>0, <1>3 DEF SaveUsed, Placed, Holding, HeldIssued
  <2> QED BY <1>0, <1>3, <2>1 DEF SaveUsed
<1>4. ASSUME NEW c \in Call, SaveRevoked(c)
      PROVE  \/ refresh'[f] = refresh[f]
             \/ refresh[f].issued /\ refresh'[f].issued /\ refresh'[f].revoked
  <2>1. call[c].refresh \in Refresh /\ refresh[call[c].refresh].issued
    BY <1>0, <1>4 DEF SaveRevoked, Placed, Holding, HeldIssued
  <2> QED BY <1>0, <1>4, <2>1 DEF SaveRevoked
<1>5. ASSUME NEW c \in Call, CallStep(c),
             ~IssuePair(c), ~(DeleteExpired(c) \/ RejectExpired(c) \/ RevokeAll(c)),
             ~SaveUsed(c), ~SaveRevoked(c)
      PROVE  refresh' = refresh
  BY <1>5 DEF CallStep, Login, SaveLogin, FindRefresh, IssueRefreshed, FindLogout, Blacklist
<1>7. CASE Cleanup \/ SetActive \/ Tick \/ UNCHANGED vars
  BY <1>7, <1>a DEF Cleanup, SetActive, Tick, vars
<1>8. ASSUME NEW c \in Call, CallStep(c)
      PROVE  /\ refresh[f].issued => refresh'[f].issued
             /\ refresh'[f].stored => refresh'[f].issued
             /\ refresh[f].issued /\ ~Open(f) /\ Open(f)' =>
                  call[c].pc = "used" /\ call[c].refresh = f
  BY <1>a, <1>1, <1>2, <1>3, <1>4, <1>5, <1>8
<1> QED BY <1>a, <1>7, <1>8 DEF Next

LEMMA HeldIssuedStep ==
    ASSUME Typed, HeldIssued, [Next]_vars PROVE HeldIssued'
<1>0. call \in [Call -> CallRecord] /\ \A c \in Call : Placed(call[c])
  BY TypedExpanded
<1>1. ASSUME NEW c \in Call, call'[c].pc \in Holding
      PROVE  call'[c].refresh \in Refresh /\ refresh[call'[c].refresh].issued
  <2>1. call'[c].refresh \in Refresh
    BY <1>1, StepTyped DEF Typed, Placed
  <2>2. CASE CallStep(c)
    BY <1>1, <2>1, <2>2, CallStepShape DEF HeldIssued, Open, Holding
  <2>3. CASE call'[c] = call[c]
    BY <1>1, <2>1, <2>3 DEF HeldIssued
  <2>4. CallStep(c) \/ call'[c] = call[c]
    BY CallStepShape DEF Next, Cleanup, SetActive, Tick, vars
  <2> QED BY <2>1, <2>2, <2>3, <2>4
<1> QED BY <1>1, RowStep DEF HeldIssued

\* What a step adds to the closed tokens is revoked and issued; no call has
\* it in use before the step, and the step gives it to none.
LEMMA ClosedStep ==
    ASSUME Typed, HeldIssued, [Next]_vars, NEW f \in closed', f \notin closed
    PROVE  /\ f \in Refresh /\ Unused(f) /\ refresh'[f].issued /\ ~Open(f)'
           /\ \A d \in Call : call'[d].pc \in {"used", "refreshed"} => call'[d] = call[d]
<1>0. /\ refresh \in [Refresh -> TokenRow] /\ call \in [Call -> CallRecord]
      /\ \A c \in Call : Placed(call[c])
  BY TypedExpanded
<1>1. PICK c \in Call : SaveRevoked(c) \/ RevokeAll(c)
  BY DEF Next, CallStep, Login, SaveLogin, DeleteExpired, IssuePair, FindRefresh, RejectExpired,
         SaveUsed, IssueRefreshed, FindLogout, Blacklist, Cleanup, SetActive, Tick, vars
<1>a. call'[c].pc = "blacklist" /\ \A d \in Call \ {c} : call'[d] = call[d]
  <2>1. Idle \in CallRecord
    BY IdleTyped
  <2>2. PICK j : Goes(c, [Idle EXCEPT !.pc = "blacklist", !.access = j])
    BY <1>1 DEF SaveRevoked, RevokeAll
  <2> DEFINE r == [Idle EXCEPT !.pc = "blacklist", !.access = j]
  <2>3. r.pc = "blacklist"
    BY <2>1 DEF CallRecord
  <2>4. call' = [call EXCEPT ![c] = r]
    BY <2>2 DEF Goes
  <2> HIDE DEF r
  <2> QED BY <1>0, <2>3, <2>4
<1>b. \A d \in Call : call'[d].pc \in {"used", "refreshed"} => call'[d] = call[d]
  BY <1>a
<1>2. CASE SaveRevoked(c)
  <2>1. f = call[c].refresh /\ Unused(f)
    BY <1>2 DEF SaveRevoked, Revokes
  <2>2. f \in Refresh /\ refresh[f].issued
    BY <1>0, <1>2, <2>1 DEF SaveRevoked, Placed, Holding, HeldIssued
  <2>3. refresh'[f].revoked
    BY <1>0, <1>2, <2>1, <2>2 DEF SaveRevoked, TokenRow
  <2>4. ~Open(f)'
    BY <2>3 DEF Open
  <2>5. refresh'[f].issued
    BY <2>2, RowStep
  <2> QED BY <1>b, <2>1, <2>2, <2>4, <2>5
<1>3. CASE RevokeAll(c)
  <2>1. f \in Refresh /\ refresh[f].stored /\ Unused(f)
    BY <1>3 DEF RevokeAll, Revokes
  <2>2. refresh'[f].revoked
    BY <1>0, <1>3, <2>1 DEF RevokeAll, TokenRow
  <2>3. ~Open(f)'
    BY <2>2 DEF Open
  <2>4. refresh'[f].issued
    BY <2>1, RowStep DEF HeldIssued
  <2> QED BY <1>b, <2>1, <2>3, <2>4
<1> QED BY <1>1, <1>2, <1>3

LEMMA ClosedNotOpenStep ==
    ASSUME Typed, HeldIssued, ClosedNotOpen, ClosedIssuesNothing, [Next]_vars
    PROVE  ClosedNotOpen'
<1> SUFFICES ASSUME NEW f \in closed' PROVE refresh'[f].issued /\ ~Open(f)'
  BY DEF ClosedNotOpen
<1>1. f \in Refresh
  BY StepTyped DEF Typed, TypeOK
<1>2. CASE f \in closed
  <2>1. \A c \in Call : call[c].pc = "used" => call[c].refresh # f
    BY <1>2 DEF ClosedIssuesNothing
  <2> QED BY <1>1, <1>2, <2>1, RowStep DEF ClosedNotOpen
<1>3. CASE f \notin closed
  BY <1>3, ClosedStep
<1> QED BY <1>2, <1>3

LEMMA ClosedIssuesNothingStep ==
    ASSUME Typed, HeldIssued, ClosedNotOpen, ClosedIssuesNothing, [Next]_vars
    PROVE  ClosedIssuesNothing'
<1> SUFFICES ASSUME NEW c \in Call, call'[c].pc \in {"used", "refreshed"},
                    call'[c].refresh \in closed'
             PROVE  FALSE
  BY DEF ClosedIssuesNothing
<1> DEFINE f == call'[c].refresh
<1>1. \/ call[c].pc \in {"used", "refreshed"} /\ call[c].refresh = f
      \/ CallStep(c) /\ Open(f)
  BY CallStepShape DEF Next, Cleanup, SetActive, Tick, vars, Holding
<1>2. CASE f \in closed
  BY <1>1, <1>2 DEF ClosedNotOpen, ClosedIssuesNothing
<1>3. CASE f \notin closed
  <2>1. Unused(f)
    BY <1>3, ClosedStep
  <2>2. call'[c] = call[c]
    BY <1>3, ClosedStep
  <2> QED BY <2>1, <2>2 DEF Unused
<1> QED BY <1>2, <1>3

-----------------------------------------------------------------------------
(* The invariant, and what follows from it. *)

THEOREM InitInv == Init => IInv
<1> SUFFICES ASSUME Init PROVE IInv
  OBVIOUS
<1>1. Typed
  BY InitTyped
<1>2. \A c \in Call : call[c].pc = "idle"
  BY DEF Init, Idle
<1>3. OnlyIssued /\ ClosedIssuesNothing
  BY <1>2 DEF OnlyIssued, ClosedIssuesNothing
<1>4. LivesAsSet /\ EntryOutlives /\ LoggedOutListed /\ ClosedNotOpen
  BY DEF Init, LivesAsSet, EntryOutlives, LoggedOutListed, ClosedNotOpen
<1>5. HeldIssued
  BY <1>2 DEF Init, HeldIssued, Holding, NoRow
<1> QED BY <1>1, <1>3, <1>4, <1>5 DEF IInv

THEOREM StepInv == IInv /\ [Next]_vars => IInv'
BY StepTyped, OnlyIssuedStep, LivesAsSetStep, EntryOutlivesStep, LoggedOutListedStep, HeldIssuedStep,
   ClosedNotOpenStep, ClosedIssuesNothingStep DEF IInv

THEOREM Invariance == Spec => []IInv
BY InitInv, StepInv, PTL DEF Spec

(* In every behaviour the rows, tokens and calls have the shape the code    *)
(* gives them (refresh-token and token-blacklist entities, auth.service.ts).*)
THEOREM SessionsTyped == Spec => []TypeOK
<1>1. IInv => TypeOK
  BY DEF IInv, Typed
<1> QED BY <1>1, Invariance, PTL

(* Where JWT_EXPIRES_IN has one of the four letters of parseExpiry or none, *)
(* an access token whose logout was answered (logout, logoutAll) is refused *)
(* by the guard of every route in every later state, although the cleanup   *)
(* deletes entries: an entry outlives the token it is about.                *)
THEOREM LogoutIsFinal == Spec => []LoggedOutIsRefused
<1>1. IInv => LoggedOutIsRefused
  <2> SUFFICES ASSUME IInv, Covered(setting), NEW j \in loggedOut, Accepted(j) PROVE FALSE
    BY DEF LoggedOutIsRefused
  <2>1. expires[j] # None /\ (blacklist[j] # None \/ expires[j] < now)
    BY DEF IInv, LoggedOutListed
  <2>2. now \in Nat /\ expires[j] \in Nat
    BY <2>1 DEF IInv, Typed, TypeOK
  <2> QED BY <2>1, <2>2 DEF Accepted
<1> QED BY <1>1, Invariance, PTL

(* A refresh token that logout or logoutAll revoked while no refresh was    *)
(* using it is never found, and never answered with an access token, again, *)
(* whatever rows overlapping calls save back.                               *)
THEOREM RevokedStaysClosed == Spec => []ClosedIssuesNothing
<1>1. IInv => ClosedIssuesNothing
  BY DEF IInv
<1> QED BY <1>1, Invariance, PTL
=============================================================================

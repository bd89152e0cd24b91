----------------------------- MODULE LdapSync_proofs -----------------------------
(***************************************************************************)
(* Proofs about LDAP synchronisation, for any configurations, identities,  *)
(* usernames, number of syncs and administrators: type correctness, that   *)
(* no configuration stays locked, that sweeps spare who is in the          *)
(* directory, and that an imported row has its user.                       *)
(***************************************************************************)
EXTENDS LdapSync, FiniteSetTheorems, TLAPS

\* The steps at which a sync works on one entry of the directory.
OnEntry == {"route", "match", "load", "save", "create", "find", "stage", "insert", "refetch"}

\* A user's row carries no identity or one with the row's username.
OwnName(row, n) == row.guid = None \/ NameOf[row.guid] = n

\* An identity of that username was not in the answer of the directory.
Gone(n, found) == \E h \in Guid : NameOf[h] = n /\ h \notin DOMAIN found

\* What a sync has filled in, by the step it is at; names are those of users.
Fitted(run, names) ==
    /\ run.pc # "idle" => run.config \in Config
    /\ run.todo \subseteq DOMAIN run.found
    /\ run.work.verdict \in {"NEW", "UPDATED", "DISABLED"}
    /\ run.pc \in OnEntry => run.work.guid \in DOMAIN run.found
    /\ run.pc \in {"load", "save", "deactivate"} => run.work.user \in names
    /\ run.pc \in {"save", "deactivate"} => OwnName(run.work.row, run.work.user)

\* A sweep begins after all entries, and goes over those that were not there.
Sweeps(run, names) ==
    /\ run.pc \notin OnEntry \cup {"deactivate"} => run.work = NoWork
    /\ run.pc \in {"remove", "disable", "each", "deactivate"} => run.todo = {}
    /\ run.pc = "disable" => run.removed \subseteq Guid \ DOMAIN run.found
    /\ run.pc \in {"each", "deactivate"} =>
          run.removed \subseteq names /\ \A n \in run.removed : Gone(n, run.found)
    /\ run.pc = "deactivate" => Gone(run.work.user, run.found)

Sound(run, names) == run \in Run /\ Fitted(run, names) /\ Sweeps(run, names)

\* What an administrator's request has filled in, by the step it is at.
Asks(request, names) ==
    /\ request \in AdminRequest
    /\ request.pc \in {"config", "cancel"} => request.config \in Config
    /\ request.pc \in {"createImported", "saveImported", "mark"} =>
          request.guid \in DOMAIN request.rows
    /\ request.pc = "mark" => NameOf[request.guid] \in names

\* The steps after which a sync removes the flag of its configuration.
Underway == SyncPc \ {"idle", "config", "log", "plan"}

TablesInv ==
    /\ configs \in Partial(Config, ConfigRow)
    /\ active \subseteq Config /\ batch \subseteq Config
    /\ older \subseteq Sync \X Sync /\ orphans \in [Config -> Nat]
    /\ directory \in [Guid -> Data \cup {None, Nameless}]
    /\ events \in Nat
UsersInv ==
    /\ users \in Partial(Name, User)
    /\ \A n \in DOMAIN users : OwnName(users[n], n)
StagedInv == staged \in Partial(Guid, Staged) /\ ImportedHasUser
SyncsInv ==
    /\ syncs \in [Sync -> Run]
    /\ \A s \in Sync : Sound(syncs[s], DOMAIN users)
AdminsInv ==
    /\ admins \in [Admin -> AdminRequest]
    /\ \A a \in Admin : Asks(admins[a], DOMAIN users)
FlagsInv == \A c \in active : \E s \in Sync : syncs[s].config = c /\ syncs[s].pc \in Underway

IInv == TablesInv /\ UsersInv /\ StagedInv /\ SyncsInv /\ AdminsInv /\ FlagsInv

-----------------------------------------------------------------------------
(* Tables are functions on the rows there are. *)

LEMMA PartialIs ==
    ASSUME NEW S, NEW T, NEW f
    PROVE  f \in Partial(S, T) <=> DOMAIN f \subseteq S /\ f \in [DOMAIN f -> T]
BY DEF Partial

LEMMA PutIs ==
    ASSUME NEW f, NEW x, NEW v
    PROVE  /\ DOMAIN Put(f, x, v) = DOMAIN f \cup {x}
           /\ \A y \in DOMAIN f \cup {x} : Put(f, x, v)[y] = IF y = x THEN v ELSE f[y]
BY DEF Put

LEMMA PutPartial ==
    ASSUME NEW S, NEW T, NEW f \in Partial(S, T), NEW x \in S, NEW v \in T
    PROVE  Put(f, x, v) \in Partial(S, T)
<1>1. DOMAIN f \subseteq S /\ \A y \in DOMAIN f : f[y] \in T
  BY PartialIs
<1>2. Put(f, x, v) \in [DOMAIN f \cup {x} -> T]
  BY <1>1 DEF Put
<1> QED BY <1>1, <1>2, PutIs, PartialIs

LEMMA WithoutPartial ==
    ASSUME NEW S, NEW T, NEW f \in Partial(S, T), NEW X
    PROVE  /\ Without(f, X) \in Partial(S, T)
           /\ DOMAIN Without(f, X) = DOMAIN f \ X
           /\ \A y \in DOMAIN f \ X : Without(f, X)[y] = f[y]
<1>1. DOMAIN f \subseteq S /\ \A y \in DOMAIN f : f[y] \in T
  BY PartialIs
<1>2. /\ DOMAIN Without(f, X) = DOMAIN f \ X
      /\ \A y \in DOMAIN f \ X : Without(f, X)[y] = f[y]
  BY DEF Without
<1>3. Without(f, X) \in [DOMAIN f \ X -> T]
  BY <1>1 DEF Without
<1> QED BY <1>1, <1>2, <1>3, PartialIs

LEMMA ExceptPartial ==
    ASSUME NEW S, NEW T, NEW f \in Partial(S, T), NEW x \in DOMAIN f, NEW v \in T
    PROVE  /\ [f EXCEPT ![x] = v] \in Partial(S, T)
           /\ DOMAIN [f EXCEPT ![x] = v] = DOMAIN f
           /\ \A y \in DOMAIN f : [f EXCEPT ![x] = v][y] = IF y = x THEN v ELSE f[y]
<1>1. DOMAIN f \subseteq S /\ f \in [DOMAIN f -> T]
  BY PartialIs
<1>2. [f EXCEPT ![x] = v] \in [DOMAIN f -> T] /\ DOMAIN [f EXCEPT ![x] = v] = DOMAIN f
  BY <1>1
<1>3. \A y \in DOMAIN f : [f EXCEPT ![x] = v][y] = IF y = x THEN v ELSE f[y]
  BY <1>1
<1> QED BY <1>1, <1>2, <1>3, PartialIs

LEMMA NothingPartial ==
    ASSUME NEW S, NEW T
    PROVE  Nothing \in Partial(S, T) /\ DOMAIN Nothing = {}
BY PartialIs DEF Nothing

-----------------------------------------------------------------------------
(* The records of syncs. *)

LEMMA Constants ==
    /\ NoUser \in User /\ NoWork \in Work
    /\ NoWork.guid = None /\ NoWork.user = None /\ NoWork.row = NoUser /\ NoWork.verdict = "NEW"
    /\ NoConfig \in ConfigRow /\ Read(NoConfig) \in [mode : Mode, removes : BOOLEAN, autoSync : BOOLEAN]
    /\ \A row \in ConfigRow : Read(row) \in [mode : Mode, removes : BOOLEAN, autoSync : BOOLEAN]
    /\ \A g \in Guid : NameOf[g] \in Name /\ NameOf[g] # None /\ g # None
    /\ \A c \in Config : c # None
    /\ \A s \in Sync : s # None
BY NameAssumption, NoneAssumption DEF NoUser, NoWork, NoConfig, Read, ConfigRow, User, Work, Mode,
   StagedStatus

LEMMA IdleSound ==
    /\ IdleSync \in Run /\ IdleSync.pc = "idle" /\ IdleSync.status = "over"
    /\ \A names : Sound(IdleSync, names)
    /\ IdleAdmin \in AdminRequest /\ IdleAdmin.pc = "idle"
    /\ \A names : Asks(IdleAdmin, names)
<1>1. Nothing \in Partial(Guid, Data) /\ Nothing \in Partial(Guid, Staged) /\ DOMAIN Nothing = {}
  BY NothingPartial
<1>2. IdleSync \in Run
  BY <1>1, Constants DEF IdleSync, Run, SyncPc
<1>3. /\ IdleSync.pc = "idle" /\ IdleSync.status = "over" /\ IdleSync.todo = {}
      /\ IdleSync.found = Nothing /\ IdleSync.work = NoWork
  BY DEF IdleSync
<1>4. \A names : Sound(IdleSync, names)
  BY <1>1, <1>2, <1>3, Constants DEF Sound, Fitted, Sweeps, OnEntry
<1>5. IdleAdmin \in AdminRequest /\ IdleAdmin.pc = "idle"
  BY <1>1, Constants DEF IdleAdmin, AdminRequest
<1>6. \A names : Asks(IdleAdmin, names)
  BY <1>5 DEF Asks
<1> QED BY <1>2, <1>3, <1>4, <1>5, <1>6

\* The user table only grows.
LEMMA SoundMore ==
    ASSUME NEW run, NEW names, NEW more, names \subseteq more, Sound(run, names)
    PROVE  Sound(run, more)
BY DEF Sound, Fitted, Sweeps

LEMMA AsksMore ==
    ASSUME NEW request, NEW names, NEW more, names \subseteq more, Asks(request, names)
    PROVE  Asks(request, more)
BY DEF Asks

\* NextEntry: the entry is done with.
LEMMA NextSound ==
    ASSUME NEW names, NEW run, Sound(run, names), run.pc # "idle", NEW errors \in BOOLEAN
    PROVE  LET r == [run EXCEPT !.pc = "next", !.work = NoWork, !.errors = @ \/ errors]
           IN  Sound(r, names) /\ r.config = run.config /\ r.pc = "next"
<1> DEFINE r == [run EXCEPT !.pc = "next", !.work = NoWork, !.errors = @ \/ errors]
<1>1. run \in Run /\ run.errors \in BOOLEAN
  BY DEF Sound, Run
<1>2. r \in Run
  BY <1>1, Constants DEF Run, SyncPc
<1>3. /\ r.pc = "next" /\ r.work = NoWork /\ r.config = run.config /\ r.todo = run.todo
      /\ r.found = run.found
  BY <1>1 DEF Run
<1> HIDE DEF r
<1>4. Sound(r, names)
  BY <1>2, <1>3, Constants DEF Sound, Fitted, Sweeps, OnEntry
<1> QED BY <1>3, <1>4 DEF r

\* Finished, and what follows a cancellation or a failure.
LEMMA FinishedSound ==
    ASSUME NEW names, NEW run, Sound(run, names), run.pc # "idle",
           NEW pc \in {"finish", "release", "fail"}, NEW r, r \in Run,
           r.pc = pc, r.config = run.config, r.found = Nothing, r.work = NoWork, r.todo = {}
    PROVE  Sound(r, names)
BY NothingPartial, Constants DEF Sound, Fitted, Sweeps, OnEntry

LEMMA FinishedIs ==
    ASSUME NEW run \in Run, NEW pc \in SyncPc
    PROVE  /\ LET r == Finished(run)
              IN  /\ r \in Run /\ r.pc = "finish" /\ r.config = run.config /\ r.found = Nothing
                  /\ r.work = NoWork /\ r.todo = run.todo
           /\ LET r == [Finished(run) EXCEPT !.pc = pc, !.todo = {}]
              IN  /\ r \in Run /\ r.pc = pc /\ r.config = run.config /\ r.found = Nothing
                  /\ r.work = NoWork /\ r.todo = {}
<1> DEFINE f == Finished(run)
           r == [f EXCEPT !.pc = pc, !.todo = {}]
<1>1. f \in Run
  BY NothingPartial, Constants DEF Finished, Run, SyncPc
<1>2. /\ f.pc = "finish" /\ f.config = run.config /\ f.found = Nothing
      /\ f.work = NoWork /\ f.todo = run.todo
  BY DEF Finished, Run
<1> HIDE DEF f
<1>3. r \in Run
  BY <1>1 DEF Run
<1>4. r.pc = pc /\ r.config = f.config /\ r.found = f.found /\ r.work = f.work /\ r.todo = {}
  BY <1>1 DEF Run
<1> QED BY <1>1, <1>2, <1>3, <1>4 DEF f

-----------------------------------------------------------------------------
(* What one step of one sync does to the invariant. *)

LEMMA BecomeSound ==
    ASSUME SyncsInv, DOMAIN users \subseteq DOMAIN users', NEW s \in Sync, NEW r,
           Become(s, r), Sound(r, DOMAIN users')
    PROVE  /\ SyncsInv' /\ syncs'[s] = r
           /\ \A o \in Sync \ {s} : syncs'[o] = syncs[o]
<1>1. r \in Run
  BY DEF Sound
<1>2. syncs' \in [Sync -> Run] /\ syncs'[s] = r /\ \A o \in Sync \ {s} : syncs'[o] = syncs[o]
  BY <1>1 DEF SyncsInv, Become
<1>3. ASSUME NEW o \in Sync PROVE Sound(syncs'[o], DOMAIN users')
  <2>1. CASE o = s
    BY <1>2, <2>1
  <2>2. CASE o # s
    BY <1>2, <2>2, SoundMore DEF SyncsInv
  <2> QED BY <2>1, <2>2
<1> QED BY <1>2, <1>3 DEF SyncsInv

\* The flags when nothing but s moves.
LEMMA FlagsStay ==
    ASSUME FlagsInv, NEW s \in Sync, \A o \in Sync \ {s} : syncs'[o] = syncs[o],
           active' \subseteq active,
           \/ syncs[s].pc \notin Underway
           \/ syncs'[s].config = syncs[s].config /\ syncs'[s].pc \in Underway
           \/ syncs[s].config \notin active'
    PROVE  FlagsInv'
<1> SUFFICES ASSUME NEW c \in active'
             PROVE  \E o \in Sync : syncs'[o].config = c /\ syncs'[o].pc \in Underway
  BY DEF FlagsInv, Underway
<1>1. PICK o \in Sync : syncs[o].config = c /\ syncs[o].pc \in Underway
  BY DEF FlagsInv
<1> QED BY <1>1

LEMMA AdminsStay ==
    ASSUME AdminsInv, UNCHANGED admins, DOMAIN users \subseteq DOMAIN users'
    PROVE  AdminsInv'
BY AsksMore DEF AdminsInv

\* performSync: one sync moves on and keeps its flag.
LEMMA Perform ==
    ASSUME IInv, NEW s \in Sync, NEW r, Become(s, r), Sound(r, DOMAIN users'),
           r.config = syncs[s].config, r.pc \in Underway,
           UNCHANGED ldapOnly, UsersInv', StagedInv', DOMAIN users \subseteq DOMAIN users'
    PROVE  IInv'
<1>1. SyncsInv' /\ syncs'[s] = r /\ \A o \in Sync \ {s} : syncs'[o] = syncs[o]
  BY BecomeSound DEF IInv
<1>2. FlagsInv'
  <2>1. active' = active
    BY DEF ldapOnly
  <2> QED BY <1>1, <2>1, FlagsStay DEF IInv
<1>3. TablesInv'
  BY DEF IInv, TablesInv, ldapOnly
<1>4. AdminsInv'
  BY AdminsStay DEF IInv, ldapOnly
<1> QED BY <1>1, <1>2, <1>3, <1>4 DEF IInv

\* Neither users nor staged rows change.
LEMMA PerformReading ==
    ASSUME IInv, NEW s \in Sync, NEW r, Become(s, r), Sound(r, DOMAIN users),
           r.config = syncs[s].config, r.pc \in Underway, UNCHANGED <<users, staged, ldapOnly>>
    PROVE  IInv'
<1>1. UsersInv' /\ StagedInv' /\ DOMAIN users' = DOMAIN users
  BY DEF IInv, UsersInv, StagedInv, ImportedHasUser
<1> QED BY <1>1, Perform

\* The entry at hand ends with NextEntry.
LEMMA PerformNext ==
    ASSUME IInv, NEW s \in Sync, NEW errors \in BOOLEAN, NextEntry(s, errors),
           syncs[s].pc # "idle", UNCHANGED ldapOnly, UsersInv', StagedInv',
           DOMAIN users \subseteq DOMAIN users'
    PROVE  IInv'
<1> DEFINE r == [syncs[s] EXCEPT !.pc = "next", !.work = NoWork, !.errors = @ \/ errors]
<1>1. Sound(syncs[s], DOMAIN users')
  BY SoundMore DEF IInv, SyncsInv
<1>2. Sound(r, DOMAIN users') /\ r.config = syncs[s].config /\ r.pc = "next"
  BY <1>1, NextSound
<1>3. Become(s, r)
  BY DEF NextEntry
<1> HIDE DEF r
<1>4. r.pc \in Underway
  BY <1>2 DEF Underway, SyncPc
<1> QED BY <1>2, <1>3, <1>4, Perform

LEMMA SyncSound ==
    ASSUME IInv, NEW s \in Sync
    PROVE  Sound(syncs[s], DOMAIN users) /\ syncs[s] \in Run
BY DEF IInv, SyncsInv, Sound

LEMMA FetchInv ==
    ASSUME IInv, NEW s \in Sync, Fetch(s)
    PROVE  IInv'
<1> DEFINE f == [g \in Mapped |-> directory[g]]
           run == syncs[s]
           r == [run EXCEPT !.pc = "next", !.todo = Mapped, !.found = f]
<1>1. /\ Mapped \subseteq Guid
      /\ f \in Partial(Guid, Data) /\ DOMAIN f = Mapped
  <2>1. \A g \in Mapped : g \in Guid /\ directory[g] \in Data
    BY DEF IInv, TablesInv, Mapped
  <2> QED BY <2>1, PartialIs
<1>2. Become(s, r) /\ run.pc = "fetch"
  BY DEF Fetch
<1> HIDE DEF f
<1>3. Sound(run, DOMAIN users) /\ run \in Run
  BY SyncSound
<1>4. r \in Run
  BY <1>1, <1>3 DEF Run, SyncPc
<1>5. /\ r.pc = "next" /\ r.todo = Mapped /\ r.found = f /\ r.work = run.work /\ r.config = run.config
  BY <1>3 DEF Run
<1> HIDE DEF r
<1>6. Sound(r, DOMAIN users)
  BY <1>1, <1>2, <1>3, <1>4, <1>5 DEF Sound, Fitted, Sweeps, OnEntry
<1> QED BY <1>2, <1>5, <1>6, PerformReading DEF Fetch, Underway, SyncPc

LEMMA TakeEntryInv ==
    ASSUME IInv, NEW s \in Sync, NEW g \in Guid, TakeEntry(s, g)
    PROVE  IInv'
<1> DEFINE run == syncs[s]
           w == [NoWork EXCEPT !.guid = g]
           p == IF run.setting.mode = "new-only" THEN "route" ELSE "match"
           r == [run EXCEPT !.todo = @ \ {g}, !.work = w, !.pc = p]
<1>1. Sound(run, DOMAIN users) /\ run \in Run
  BY SyncSound
<1>2. w \in Work /\ w.guid = g /\ w.verdict = "NEW" /\ w.user = None
  BY Constants DEF Work
<1>3. p \in {"route", "match"}
  OBVIOUS
<1>4. Become(s, r) /\ run.pc = "next" /\ g \in run.todo
  BY DEF TakeEntry
<1> HIDE DEF w, p
<1>5. r \in Run
  BY <1>1, <1>2, <1>3 DEF Run, SyncPc
<1>6. /\ r.pc = p /\ r.todo = run.todo \ {g} /\ r.found = run.found /\ r.work = w
      /\ r.config = run.config
  BY <1>1 DEF Run
<1> HIDE DEF r
<1>7. Sound(r, DOMAIN users)
  BY <1>1, <1>2, <1>3, <1>4, <1>5, <1>6 DEF Sound, Fitted, Sweeps, OnEntry
<1> QED BY <1>3, <1>4, <1>6, <1>7, PerformReading DEF TakeEntry, Underway, SyncPc

LEMMA SeesCancelInv ==
    ASSUME IInv, NEW s \in Sync, SeesCancel(s)
    PROVE  IInv'
<1> DEFINE r == [Finished(syncs[s]) EXCEPT !.pc = "release", !.todo = {}]
<1>1. Sound(syncs[s], DOMAIN users) /\ syncs[s] \in Run
  BY SyncSound
<1>2. Become(s, r) /\ syncs[s].pc = "next"
  BY DEF SeesCancel
<1>3. /\ r \in Run /\ r.pc = "release" /\ r.config = syncs[s].config /\ r.found = Nothing
      /\ r.work = NoWork /\ r.todo = {}
  <2>1. "release" \in SyncPc
    BY DEF SyncPc
  <2> QED BY <1>1, <2>1, FinishedIs
<1> HIDE DEF r
<1>4. Sound(r, DOMAIN users)
  BY <1>1, <1>2, <1>3, FinishedSound
<1> QED BY <1>2, <1>3, <1>4, PerformReading DEF SeesCancel, Underway, SyncPc

\* The user of an entry's username, if there is one.
LEMMA MatchIs ==
    ASSUME NEW g \in Guid
    PROVE  /\ Match(g) \in Name \cup {None}
           /\ Match(g) # None => Match(g) \in DOMAIN users
BY Constants DEF Match

LEMMA RouteInv ==
    ASSUME IInv, NEW s \in Sync, Route(s)
    PROVE  IInv'
<1> DEFINE run == syncs[s]
           m == Match(run.work.guid)
           r == [run EXCEPT !.pc = "match", !.work.user = m]
<1>1. Sound(run, DOMAIN users) /\ run \in Run
  BY SyncSound
<1>2. Become(s, r) /\ run.pc = "route"
  BY DEF Route
<1>3. run.work.guid \in Guid /\ run.work \in Work
  BY <1>1, <1>2, PartialIs DEF Sound, Fitted, OnEntry, Run
<1>4. m \in Name \cup {None}
  BY <1>3, MatchIs
<1> HIDE DEF m
<1>5. [run.work EXCEPT !.user = m] \in Work
  BY <1>3, <1>4 DEF Work
<1>6. r \in Run
  BY <1>1, <1>5 DEF Run, SyncPc
<1>7. /\ r.pc = "match" /\ r.todo = run.todo /\ r.found = run.found
      /\ r.work.guid = run.work.guid /\ r.work.verdict = run.work.verdict
      /\ r.config = run.config
  BY <1>1, <1>3 DEF Run, Work
<1> HIDE DEF r
<1>8. Sound(r, DOMAIN users)
  BY <1>1, <1>2, <1>6, <1>7 DEF Sound, Fitted, Sweeps, OnEntry
<1> QED BY <1>2, <1>7, <1>8, PerformReading DEF Route, Underway, SyncPc

\* The entry at hand, by the tables it was read from.
LEMMA EntryTyped ==
    ASSUME IInv, NEW s \in Sync, syncs[s].pc \in OnEntry
    PROVE  /\ syncs[s].work \in Work /\ syncs[s].work.guid \in Guid
           /\ syncs[s].work.guid \in DOMAIN syncs[s].found
           /\ syncs[s].found[syncs[s].work.guid] \in Data
BY SyncSound, PartialIs DEF Sound, Fitted, Run

\* The rows that handlers load.
LEMMA RowTyped ==
    ASSUME IInv, NEW n \in DOMAIN users
    PROVE  n \in Name /\ users[n] \in User /\ OwnName(users[n], n)
BY PartialIs DEF IInv, UsersInv

LEMMA MatchUserInv ==
    ASSUME IInv, NEW s \in Sync, MatchUser(s)
    PROVE  IInv'
<1> DEFINE run == syncs[s]
           g == run.work.guid
           user == Match(g)
           data == run.found[g]
           kept == IF Direct([run EXCEPT !.work.user = user]) /\ user # None
                   THEN users[user] ELSE run.work.row
           verdict == IF user # None /\ MailDiffers(users[user], data) THEN "UPDATED" ELSE "NEW"
           p == IF ~Direct(run) THEN "find" ELSE IF user # None THEN "load" ELSE "create"
           r == [run EXCEPT !.work.user = user, !.work.row = kept, !.work.verdict = verdict, !.pc = p]
<1>1. Sound(run, DOMAIN users) /\ run \in Run
  BY SyncSound
<1>2. run.pc = "match" /\ (NextEntry(s, FALSE) \/ Become(s, r))
  BY DEF MatchUser
<1>3. run.work.guid \in Guid /\ run.work \in Work
  BY <1>1, <1>2, PartialIs DEF Sound, Fitted, OnEntry, Run
<1>4. CASE NextEntry(s, FALSE)
  <2>1. UsersInv' /\ StagedInv' /\ DOMAIN users' = DOMAIN users
    BY DEF IInv, UsersInv, StagedInv, ImportedHasUser, MatchUser
  <2> QED BY <1>2, <1>4, <2>1, PerformNext DEF MatchUser
<1>5. CASE Become(s, r)
  <2>1. user \in Name \cup {None} /\ (user # None => user \in DOMAIN users)
    BY <1>3, MatchIs
  <2>2. verdict \in {"NEW", "UPDATED"} /\ p \in {"find", "load", "create"}
        /\ (p = "load" => user # None)
    OBVIOUS
  <2>3. kept \in User
    BY <1>3, <2>1, RowTyped DEF Work
  <2> HIDE DEF user, kept, verdict, p
  <2>4. [[[run.work EXCEPT !.user = user] EXCEPT !.row = kept] EXCEPT !.verdict = verdict] \in Work
    BY <1>3, <2>1, <2>2, <2>3 DEF Work, StagedStatus
  <2>5. r \in Run
    BY <1>1, <2>2, <2>4 DEF Run, SyncPc
  <2>6. /\ r.pc = p /\ r.todo = run.todo /\ r.found = run.found
        /\ r.work.guid = run.work.guid /\ r.work.verdict = verdict /\ r.work.user = user
        /\ r.config = run.config
    BY <1>1, <1>3 DEF Run, Work
  <2> HIDE DEF r
  <2>7. Sound(r, DOMAIN users)
    BY <1>1, <1>2, <2>1, <2>2, <2>5, <2>6 DEF Sound, Fitted, Sweeps, OnEntry
  <2> QED BY <1>5, <2>2, <2>6, <2>7, PerformReading DEF MatchUser, Underway, SyncPc
<1> QED BY <1>2, <1>4, <1>5

\* Merging keeps to what can be copied of an entry.
LEMMA MergeTyped ==
    ASSUME NEW old \in Data \cup {None}, NEW new \in Data
    PROVE  Merge(old, new) \in Data
<1>1. CASE old = None
  BY <1>1 DEF Merge
<1>2. CASE old # None
  <2>1. PICK m \in Mail, kept \in SUBSET Attribute : new = [mail |-> m, attrs |-> kept]
    BY DEF Data
  <2>2. old.attrs \subseteq Attribute
    BY <1>2 DEF Data
  <2>3. Merge(old, new) = [mail |-> m, attrs |-> kept \cup old.attrs]
    BY <1>2, <2>1 DEF Merge
  <2> QED BY <2>2, <2>3 DEF Data
<1> QED BY <1>1, <1>2

LEMMA LoadUserInv ==
    ASSUME IInv, NEW s \in Sync, LoadUser(s)
    PROVE  IInv'
<1> DEFINE run == syncs[s]
           n == run.work.user
           data == Merge(run.work.row.data, run.found[run.work.guid])
           row == [users[n] EXCEPT !.data = data, !.active = TRUE]
           r == [run EXCEPT !.pc = "save", !.work.row = row]
<1>1. Sound(run, DOMAIN users) /\ run \in Run
  BY SyncSound
<1>2. Become(s, r) /\ run.pc = "load"
  BY DEF LoadUser
<1>3. n \in DOMAIN users /\ run.work \in Work
  BY <1>1, <1>2 DEF Sound, Fitted, Run
<1>4. row \in User /\ OwnName(row, n)
  <2>1. users[n] \in User /\ OwnName(users[n], n)
    BY <1>3, RowTyped
  <2>2. run.found[run.work.guid] \in Data
    BY <1>2, EntryTyped DEF OnEntry
  <2>3. data \in Data
    BY <1>3, <2>2, MergeTyped DEF Work, User
  <2> HIDE DEF data
  <2>4. row \in User /\ row.guid = users[n].guid
    BY <2>1, <2>3 DEF User
  <2> QED BY <2>1, <2>4 DEF OwnName
<1> HIDE DEF row
<1>5. [run.work EXCEPT !.row = row] \in Work
  BY <1>3, <1>4 DEF Work
<1>6. r \in Run
  BY <1>1, <1>5 DEF Run, SyncPc
<1>7. /\ r.pc = "save" /\ r.todo = run.todo /\ r.found = run.found
      /\ r.work.guid = run.work.guid /\ r.work.verdict = run.work.verdict
      /\ r.work.user = n /\ r.work.row = row /\ r.config = run.config
  BY <1>1, <1>3 DEF Run, Work
<1> HIDE DEF r
<1>8. Sound(r, DOMAIN users)
  BY <1>1, <1>2, <1>3, <1>4, <1>6, <1>7 DEF Sound, Fitted, Sweeps, OnEntry
<1> QED BY <1>2, <1>7, <1>8, PerformReading DEF LoadUser, Underway, SyncPc

\* A row saved under its name: the new row carries no other name's identity.
LEMMA UserSaved ==
    ASSUME UsersInv, NEW n \in Name, NEW row \in User, OwnName(row, n),
           \/ users' = Put(users, n, row)
           \/ n \in DOMAIN users /\ users' = [users EXCEPT ![n] = row]
    PROVE  UsersInv' /\ DOMAIN users' = DOMAIN users \cup {n}
<1>1. users \in Partial(Name, User)
  BY DEF UsersInv
<1>2. /\ users' \in Partial(Name, User) /\ DOMAIN users' = DOMAIN users \cup {n}
      /\ \A m \in DOMAIN users' : users'[m] = IF m = n THEN row ELSE users[m]
  <2>1. CASE users' = Put(users, n, row)
    <3> DEFINE f == Put(users, n, row)
    <3>1. /\ f \in Partial(Name, User) /\ DOMAIN f = DOMAIN users \cup {n}
          /\ \A m \in DOMAIN users \cup {n} : f[m] = IF m = n THEN row ELSE users[m]
      <4>1. f \in Partial(Name, User)
        BY <1>1, PutPartial
      <4> QED BY <4>1 DEF Put
    <3> HIDE DEF f
    <3>2. users' = f
      BY <2>1 DEF f
    <3> QED BY <3>1, <3>2
  <2>2. CASE n \in DOMAIN users /\ users' = [users EXCEPT ![n] = row]
    <3> DEFINE f == [users EXCEPT ![n] = row]
    <3>1. /\ f \in Partial(Name, User) /\ DOMAIN f = DOMAIN users
          /\ \A m \in DOMAIN users : f[m] = IF m = n THEN row ELSE users[m]
      BY <1>1, <2>2, ExceptPartial
    <3> HIDE DEF f
    <3>2. users' = f
      BY <2>2 DEF f
    <3> QED BY <2>2, <3>1, <3>2
  <2> QED BY <2>1, <2>2
<1>3. \A m \in DOMAIN users' : OwnName(users'[m], m)
  BY <1>2 DEF UsersInv
<1> QED BY <1>2, <1>3 DEF UsersInv

LEMMA NewUserTyped ==
    ASSUME NEW g \in Guid, NEW data \in Data, NEW imported \in BOOLEAN
    PROVE  NewUser(g, data, imported) \in User /\ OwnName(NewUser(g, data, imported), NameOf[g])
BY DEF NewUser, User, OwnName

LEMMA StagedStays ==
    ASSUME StagedInv, UNCHANGED staged, DOMAIN users \subseteq DOMAIN users'
    PROVE  StagedInv'
BY DEF StagedInv, ImportedHasUser

LEMMA SaveUserInv ==
    ASSUME IInv, NEW s \in Sync, SaveUser(s)
    PROVE  IInv'
<1> DEFINE work == syncs[s].work
           n == work.user
           row == work.row
<1>1. syncs[s].pc = "save" /\ users' = [users EXCEPT ![n] = row]
  BY DEF SaveUser
<1>2. work \in Work /\ n \in DOMAIN users /\ OwnName(row, n)
  BY <1>1, EntryTyped, SyncSound DEF OnEntry, Sound, Fitted
<1>3. n \in Name
  BY <1>2, RowTyped
<1>4. row \in User
  BY <1>2 DEF Work
<1> HIDE DEF row
<1>5. UsersInv' /\ DOMAIN users' = DOMAIN users \cup {n}
  BY <1>1, <1>2, <1>3, <1>4, UserSaved DEF IInv
<1>6. StagedInv'
  BY <1>5, StagedStays DEF IInv, SaveUser
<1> QED BY <1>1, <1>5, <1>6, PerformNext DEF SaveUser

LEMMA CreateUserInv ==
    ASSUME IInv, NEW s \in Sync, CreateUser(s)
    PROVE  IInv'
<1> DEFINE g == syncs[s].work.guid
           row == NewUser(g, syncs[s].found[g], FALSE)
<1>1. syncs[s].pc = "create"
  BY DEF CreateUser
<1>2. g \in Guid /\ syncs[s].found[g] \in Data
  BY <1>1, EntryTyped DEF OnEntry
<1>3. row \in User /\ OwnName(row, NameOf[g]) /\ NameOf[g] \in Name
  BY <1>2, NewUserTyped, Constants
<1>4. CASE NameOf[g] \in DOMAIN users
  <2>1. UNCHANGED users /\ NextEntry(s, TRUE)
    BY <1>4 DEF CreateUser
  <2>2. UsersInv' /\ StagedInv' /\ DOMAIN users' = DOMAIN users
    BY <2>1 DEF IInv, UsersInv, StagedInv, ImportedHasUser, CreateUser
  <2> QED BY <1>1, <2>1, <2>2, PerformNext DEF CreateUser
<1>5. CASE NameOf[g] \notin DOMAIN users
  <2>1. users' = Put(users, NameOf[g], row) /\ NextEntry(s, FALSE)
    BY <1>5 DEF CreateUser
  <2> HIDE DEF row
  <2>2. UsersInv' /\ DOMAIN users' = DOMAIN users \cup {NameOf[g]}
    BY <1>3, <2>1, UserSaved DEF IInv
  <2>3. StagedInv'
    BY <2>2, StagedStays DEF IInv, CreateUser
  <2> QED BY <1>1, <2>1, <2>2, <2>3, PerformNext DEF CreateUser
<1> QED BY <1>4, <1>5

\* A step that only moves s to another step of the same entry.
LEMMA GotoEntry ==
    ASSUME IInv, NEW s \in Sync, syncs[s].pc \in OnEntry,
           NEW pc \in {"find", "stage", "insert", "refetch"}, NEW verdict \in {"NEW", "UPDATED", "DISABLED"},
           Become(s, [syncs[s] EXCEPT !.pc = pc, !.work.verdict = verdict]),
           UNCHANGED <<users, staged, ldapOnly>>
    PROVE  IInv'
<1> DEFINE run == syncs[s]
           r == [run EXCEPT !.pc = pc, !.work.verdict = verdict]
<1>1. Sound(run, DOMAIN users) /\ run \in Run
  BY SyncSound
<1>2. run.work \in Work
  BY EntryTyped
<1>3. [run.work EXCEPT !.verdict = verdict] \in Work
  BY <1>2 DEF Work, StagedStatus
<1>4. r \in Run
  BY <1>1, <1>3 DEF Run, SyncPc
<1>5. /\ r.pc = pc /\ r.todo = run.todo /\ r.found = run.found
      /\ r.work.guid = run.work.guid /\ r.work.verdict = verdict /\ r.config = run.config
  BY <1>1, <1>2 DEF Run, Work
<1>6. Become(s, r)
  OBVIOUS
<1> HIDE DEF r
<1>7. Sound(r, DOMAIN users)
  BY <1>1, <1>4, <1>5 DEF Sound, Fitted, Sweeps, OnEntry
<1> QED BY <1>5, <1>6, <1>7, PerformReading DEF Underway, SyncPc

\* The status a staged row gets is one that waits, or stays disabled.
LEMMA StatusAfterIs ==
    ASSUME NEW status \in StagedStatus, NEW verdict \in {"NEW", "UPDATED", "DISABLED"}
    PROVE  StatusAfter(status, verdict) \in {"NEW", "UPDATED", "DISABLED"}
BY DEF StatusAfter, StagedStatus

LEMMA StagedTyped ==
    ASSUME IInv, NEW g \in DOMAIN staged
    PROVE  g \in Guid /\ staged[g] \in Staged
BY PartialIs DEF IInv, StagedInv

\* Goto leaves the record but its step.
LEMMA GotoIs ==
    ASSUME IInv, NEW s \in Sync, syncs[s].pc \in OnEntry, NEW pc, Goto(s, pc)
    PROVE  Become(s, [syncs[s] EXCEPT !.pc = pc, !.work.verdict = syncs[s].work.verdict])
<1>1. syncs[s] \in Run /\ syncs[s].work \in Work
  BY SyncSound, EntryTyped
<1>2. [syncs[s].work EXCEPT !.verdict = syncs[s].work.verdict] = syncs[s].work
  BY <1>1 DEF Work
<1>3. [syncs[s] EXCEPT !.pc = pc, !.work.verdict = syncs[s].work.verdict] = [syncs[s] EXCEPT !.pc = pc]
  BY <1>1, <1>2 DEF Run
<1> QED BY <1>3 DEF Goto

LEMMA FindStagedInv ==
    ASSUME IInv, NEW s \in Sync, FindStaged(s)
    PROVE  IInv'
<1> DEFINE work == syncs[s].work
           verdict == StatusAfter(staged[work.guid].status, work.verdict)
<1>1. syncs[s].pc = "find" /\ work.verdict \in {"NEW", "UPDATED", "DISABLED"} /\ work \in Work
  BY SyncSound, EntryTyped DEF FindStaged, Sound, Fitted, OnEntry
<1>2. syncs[s].pc \in OnEntry
  BY <1>1 DEF OnEntry
<1>3. CASE work.guid \in DOMAIN staged
  <2>1. staged[work.guid].status \in StagedStatus
    BY <1>3, StagedTyped DEF Staged
  <2>2. verdict \in {"NEW", "UPDATED", "DISABLED"}
    BY <1>1, <2>1, StatusAfterIs
  <2>3. Become(s, [syncs[s] EXCEPT !.pc = "stage", !.work.verdict = verdict])
    <3>1. syncs[s] \in Run
      BY SyncSound
    <3>2. [syncs[s] EXCEPT !.pc = "stage", !.work.verdict = StatusAfter(staged[work.guid].status, @)]
          = [syncs[s] EXCEPT !.pc = "stage", !.work.verdict = verdict]
      BY <3>1 DEF Run
    <3> QED BY <1>3, <3>2 DEF FindStaged
  <2> HIDE DEF verdict
  <2> QED BY <1>2, <2>2, <2>3, GotoEntry DEF FindStaged
<1>4. CASE work.guid \notin DOMAIN staged
  <2>1. Goto(s, "insert")
    BY <1>4 DEF FindStaged
  <2> QED BY <1>1, <1>2, <2>1, GotoIs, GotoEntry DEF FindStaged
<1> QED BY <1>3, <1>4

LEMMA StagedRowTyped ==
    ASSUME IInv, NEW s \in Sync, syncs[s].pc \in OnEntry
    PROVE  StagedRow(s) \in Staged /\ StagedRow(s).status \in {"NEW", "UPDATED", "DISABLED"}
<1> DEFINE work == syncs[s].work
           user == IF work.user # None THEN work.user
                   ELSE IF work.guid \in DOMAIN staged THEN staged[work.guid].user ELSE None
<1>1. /\ work \in Work /\ syncs[s].found[work.guid] \in Data
      /\ work.verdict \in {"NEW", "UPDATED", "DISABLED"} /\ syncs[s].config \in Config
  BY EntryTyped, SyncSound DEF Sound, Fitted, OnEntry
<1>2. user \in Name \cup {None}
  BY <1>1, StagedTyped DEF Work, Staged
<1> HIDE DEF user
<1>3. StagedRow(s) = [status |-> work.verdict, data |-> syncs[s].found[work.guid],
                      config |-> syncs[s].config, user |-> user]
  BY DEF StagedRow, user
<1> QED BY <1>1, <1>2, <1>3 DEF Staged, StagedStatus

\* A staged row is written: with a status that waits, or with its user.
LEMMA StagedSaved ==
    ASSUME IInv, NEW g \in Guid, NEW row \in Staged,
           row.status = "IMPORTED" => row.user = NameOf[g] /\ NameOf[g] \in DOMAIN users,
           \/ staged' = Put(staged, g, row)
           \/ g \in DOMAIN staged /\ staged' = [staged EXCEPT ![g] = row],
           DOMAIN users' = DOMAIN users
    PROVE  StagedInv'
<1>1. staged \in Partial(Guid, Staged) /\ ImportedHasUser
  BY DEF IInv, StagedInv
<1>2. /\ staged' \in Partial(Guid, Staged) /\ DOMAIN staged' = DOMAIN staged \cup {g}
      /\ \A h \in DOMAIN staged' : staged'[h] = IF h = g THEN row ELSE staged[h]
  <2>1. CASE staged' = Put(staged, g, row)
    <3> DEFINE f == Put(staged, g, row)
    <3>1. /\ f \in Partial(Guid, Staged) /\ DOMAIN f = DOMAIN staged \cup {g}
          /\ \A h \in DOMAIN staged \cup {g} : f[h] = IF h = g THEN row ELSE staged[h]
      <4>1. f \in Partial(Guid, Staged)
        BY <1>1, PutPartial
      <4> QED BY <4>1 DEF Put
    <3> HIDE DEF f
    <3>2. staged' = f
      BY <2>1 DEF f
    <3> QED BY <3>1, <3>2
  <2>2. CASE g \in DOMAIN staged /\ staged' = [staged EXCEPT ![g] = row]
    <3> DEFINE f == [staged EXCEPT ![g] = row]
    <3>1. /\ f \in Partial(Guid, Staged) /\ DOMAIN f = DOMAIN staged
          /\ \A h \in DOMAIN staged : f[h] = IF h = g THEN row ELSE staged[h]
      BY <1>1, <2>2, ExceptPartial
    <3> HIDE DEF f
    <3>2. staged' = f
      BY <2>2 DEF f
    <3> QED BY <2>2, <3>1, <3>2
  <2> QED BY <2>1, <2>2
<1>3. ImportedHasUser'
  BY <1>1, <1>2 DEF ImportedHasUser
<1> QED BY <1>2, <1>3 DEF StagedInv

\* Nothing but the step of s changed.
LEMMA TablesStay ==
    ASSUME IInv, UNCHANGED <<users, staged>>
    PROVE  UsersInv' /\ StagedInv' /\ DOMAIN users' = DOMAIN users
BY DEF IInv, UsersInv, StagedInv, ImportedHasUser

LEMMA StageInv ==
    ASSUME IInv, NEW s \in Sync, Stage(s)
    PROVE  IInv'
<1> DEFINE g == syncs[s].work.guid
<1>1. syncs[s].pc \in {"stage", "insert"} /\ syncs[s].pc \in OnEntry /\ syncs[s].pc # "idle"
      /\ UNCHANGED <<users, ldapOnly>>
  BY DEF Stage, OnEntry
<1>2. g \in Guid
  BY <1>1, EntryTyped
<1>3. CASE LogGone(s)
  BY <1>1, <1>3, TablesStay, PerformNext DEF Stage
<1>4. CASE ~LogGone(s) /\ syncs[s].pc = "insert" /\ g \in DOMAIN staged
  <2>1. Goto(s, "refetch") /\ UNCHANGED staged
    BY <1>4 DEF Stage
  <2>2. syncs[s].work.verdict \in {"NEW", "UPDATED", "DISABLED"}
    BY SyncSound DEF Sound, Fitted
  <2> QED BY <1>1, <2>1, <2>2, GotoIs, GotoEntry
<1>5. CASE ~LogGone(s) /\ ~(syncs[s].pc = "insert" /\ g \in DOMAIN staged)
  <2>1. staged' = Put(staged, g, StagedRow(s)) /\ NextEntry(s, FALSE)
    BY <1>5 DEF Stage
  <2>2. StagedRow(s) \in Staged /\ StagedRow(s).status # "IMPORTED"
    BY <1>1, StagedRowTyped
  <2>3. DOMAIN users' = DOMAIN users /\ UsersInv'
    BY <1>1 DEF IInv, UsersInv
  <2>4. StagedInv'
    BY <1>2, <2>1, <2>2, <2>3, StagedSaved
  <2> QED BY <1>1, <2>1, <2>3, <2>4, PerformNext
<1> QED BY <1>3, <1>4, <1>5

LEMMA RefetchInv ==
    ASSUME IInv, NEW s \in Sync, Refetch(s)
    PROVE  IInv'
<1>1. syncs[s].pc \in OnEntry /\ syncs[s].pc # "idle" /\ UNCHANGED <<users, staged, ldapOnly>>
      /\ (Goto(s, "stage") \/ NextEntry(s, TRUE))
  BY DEF Refetch, OnEntry
<1>2. syncs[s].work.verdict \in {"NEW", "UPDATED", "DISABLED"}
  BY SyncSound DEF Sound, Fitted
<1>3. CASE Goto(s, "stage")
  BY <1>1, <1>2, <1>3, GotoIs, GotoEntry
<1>4. CASE NextEntry(s, TRUE)
  BY <1>1, <1>4, TablesStay, PerformNext
<1> QED BY <1>1, <1>3, <1>4

\* A sync ends the entries and the users, or fails.
LEMMA FinishedInv ==
    ASSUME IInv, NEW s \in Sync, syncs[s].pc # "idle",
           \/ Become(s, Finished(syncs[s])) /\ syncs[s].todo = {}
           \/ Become(s, [Finished(syncs[s]) EXCEPT !.pc = "fail", !.todo = {}]),
           UNCHANGED ldapOnly, UsersInv', StagedInv', DOMAIN users' = DOMAIN users
    PROVE  IInv'
<1>1. Sound(syncs[s], DOMAIN users) /\ syncs[s] \in Run
  BY SyncSound
<1>2. CASE Become(s, Finished(syncs[s])) /\ syncs[s].todo = {}
  <2> DEFINE r == Finished(syncs[s])
  <2>1. "finish" \in SyncPc
    BY DEF SyncPc
  <2>2. /\ r \in Run /\ r.pc = "finish" /\ r.config = syncs[s].config /\ r.found = Nothing
        /\ r.work = NoWork /\ r.todo = {}
    BY <1>1, <1>2, <2>1, FinishedIs
  <2>3. Become(s, r)
    BY <1>2
  <2> HIDE DEF r
  <2>4. Sound(r, DOMAIN users)
    BY <1>1, <2>2, FinishedSound
  <2> QED BY <2>2, <2>3, <2>4, Perform DEF Underway, SyncPc
<1>3. CASE Become(s, [Finished(syncs[s]) EXCEPT !.pc = "fail", !.todo = {}])
  <2> DEFINE r == [Finished(syncs[s]) EXCEPT !.pc = "fail", !.todo = {}]
  <2>1. "fail" \in SyncPc
    BY DEF SyncPc
  <2>2. /\ r \in Run /\ r.pc = "fail" /\ r.config = syncs[s].config /\ r.found = Nothing
        /\ r.work = NoWork /\ r.todo = {}
    BY <1>1, <2>1, FinishedIs
  <2>3. Become(s, r)
    BY <1>3
  <2> HIDE DEF r
  <2>4. Sound(r, DOMAIN users)
    BY <1>1, <2>2, FinishedSound
  <2> QED BY <2>2, <2>3, <2>4, Perform DEF Underway, SyncPc
<1> QED BY <1>2, <1>3

LEMMA AllTakenInv ==
    ASSUME IInv, NEW s \in Sync, AllTaken(s)
    PROVE  IInv'
<1>1. /\ syncs[s].pc = "next" /\ syncs[s].todo = {} /\ UNCHANGED <<users, staged, ldapOnly>>
      /\ Goto(s, "remove") \/ Become(s, Finished(syncs[s]))
  BY DEF AllTaken
<1>2. CASE Become(s, Finished(syncs[s]))
  BY <1>1, <1>2, TablesStay, FinishedInv
<1>3. CASE Goto(s, "remove")
  <2> DEFINE r == [syncs[s] EXCEPT !.pc = "remove"]
  <2>1. Sound(syncs[s], DOMAIN users) /\ syncs[s] \in Run
    BY SyncSound
  <2>2. r \in Run
    BY <2>1 DEF Run, SyncPc
  <2>3. /\ r.pc = "remove" /\ r.config = syncs[s].config /\ r.found = syncs[s].found
        /\ r.work = syncs[s].work /\ r.todo = {}
    BY <1>1, <2>1 DEF Run
  <2>4. Become(s, r)
    BY <1>3 DEF Goto
  <2> HIDE DEF r
  <2>5. Sound(r, DOMAIN users)
    BY <1>1, <2>1, <2>2, <2>3, Constants DEF Sound, Fitted, Sweeps, OnEntry
  <2> QED BY <1>1, <2>3, <2>4, <2>5, PerformReading DEF Underway, SyncPc
<1> QED BY <1>1, <1>2, <1>3

\* Users on the list were not in the answer, by their identities.
LEMMA RemovedIs ==
    ASSUME IInv, NEW s \in Sync, syncs[s].todo = {}, NEW n \in Removed(s)
    PROVE  /\ n \in DOMAIN users /\ n \in Name
           /\ users[n].guid \in Guid \ DOMAIN syncs[s].found
           /\ Gone(n, syncs[s].found)
<1>1. n \in DOMAIN users /\ users[n].guid # None /\ users[n].guid \notin DOMAIN syncs[s].found
  BY DEF Removed, Seen
<1>2. n \in Name /\ users[n].guid \in Guid /\ NameOf[users[n].guid] = n
  BY <1>1, RowTyped DEF User, OwnName
<1> QED BY <1>1, <1>2 DEF Gone

LEMMA ListRemovedInv ==
    ASSUME IInv, NEW s \in Sync, ListRemoved(s)
    PROVE  IInv'
<1> DEFINE run == syncs[s]
<1>1. Sound(run, DOMAIN users) /\ run \in Run /\ run.pc = "remove"
      /\ UNCHANGED <<users, staged, ldapOnly>>
  BY SyncSound DEF ListRemoved
<1>2. run.todo = {} /\ run.work = NoWork
  BY <1>1 DEF Sound, Sweeps, OnEntry
<1>3. CASE Become(s, Finished(run))
  BY <1>1, <1>2, <1>3, TablesStay, FinishedInv
<1>4. CASE Become(s, [run EXCEPT !.pc = "each", !.removed = Removed(s)])
  <2> DEFINE S == Removed(s)
             r == [run EXCEPT !.pc = "each", !.removed = S]
  <2>1. \A n \in S : n \in DOMAIN users /\ n \in Name /\ Gone(n, run.found)
    BY <1>2, RemovedIs
  <2> HIDE DEF S
  <2>2. r \in Run
    BY <1>1, <2>1 DEF Run, SyncPc
  <2>3. /\ r.pc = "each" /\ r.config = run.config /\ r.found = run.found
        /\ r.work = run.work /\ r.todo = run.todo /\ r.removed = S
    BY <1>1 DEF Run
  <2>4. Become(s, r)
    BY <1>4 DEF S
  <2> HIDE DEF r
  <2>5. Sound(r, DOMAIN users)
    BY <1>1, <1>2, <2>1, <2>2, <2>3 DEF Sound, Fitted, Sweeps, OnEntry
  <2> QED BY <1>1, <2>3, <2>4, <2>5, PerformReading DEF Underway, SyncPc
<1>5. CASE Become(s, [run EXCEPT !.pc = "disable", !.removed = {users[n].guid : n \in Removed(s)}])
  <2> DEFINE S == {users[n].guid : n \in Removed(s)}
             r == [run EXCEPT !.pc = "disable", !.removed = S]
  <2>1. S \subseteq Guid \ DOMAIN run.found
    BY <1>2, RemovedIs
  <2> HIDE DEF S
  <2>2. r \in Run
    BY <1>1, <2>1 DEF Run, SyncPc
  <2>3. /\ r.pc = "disable" /\ r.config = run.config /\ r.found = run.found
        /\ r.work = run.work /\ r.todo = run.todo /\ r.removed = S
    BY <1>1 DEF Run
  <2>4. Become(s, r)
    BY <1>5 DEF S
  <2> HIDE DEF r
  <2>5. Sound(r, DOMAIN users)
    BY <1>1, <1>2, <2>1, <2>2, <2>3 DEF Sound, Fitted, Sweeps, OnEntry
  <2> QED BY <1>1, <2>3, <2>4, <2>5, PerformReading DEF Underway, SyncPc
<1> QED BY <1>3, <1>4, <1>5 DEF ListRemoved

LEMMA MarkAsDisabledInv ==
    ASSUME IInv, NEW s \in Sync, MarkAsDisabled(s)
    PROVE  IInv'
<1>1. /\ syncs[s].pc = "disable" /\ Become(s, Finished(syncs[s])) /\ UNCHANGED <<users, ldapOnly>>
      /\ syncs[s].todo = {} /\ syncs[s].config \in Config
  BY SyncSound DEF MarkAsDisabled, Sound, Sweeps, Fitted
<1>2. UsersInv' /\ DOMAIN users' = DOMAIN users
  BY <1>1 DEF IInv, UsersInv
<1>3. StagedInv'
  <2>1. CASE UNCHANGED staged
    BY <1>2, <2>1, StagedStays DEF IInv
  <2>2. CASE ~UNCHANGED staged
    <3> DEFINE Marked(g) == g \in syncs[s].removed /\ staged[g].status \in Importable
               Row(g) == IF Marked(g)
                         THEN [staged[g] EXCEPT !.status = "DISABLED", !.config = syncs[s].config]
                         ELSE staged[g]
    <3>1. staged' = [g \in DOMAIN staged |-> Row(g)]
      BY <2>2 DEF MarkAsDisabled
    <3>2. \A g \in DOMAIN staged :
              /\ g \in Guid /\ Row(g) \in Staged
              /\ Row(g).status = "IMPORTED" => Row(g) = staged[g]
      <4> SUFFICES ASSUME NEW g \in DOMAIN staged
                   PROVE  /\ g \in Guid /\ Row(g) \in Staged
                          /\ Row(g).status = "IMPORTED" => Row(g) = staged[g]
        OBVIOUS
      <4>1. g \in Guid /\ staged[g] \in Staged
        BY StagedTyped
      <4>2. CASE Marked(g)
        <5> DEFINE r == [staged[g] EXCEPT !.status = "DISABLED", !.config = syncs[s].config]
        <5>1. r \in Staged /\ r.status = "DISABLED"
          BY <1>1, <4>1 DEF Staged, StagedStatus
        <5> QED BY <4>1, <4>2, <5>1
      <4>3. CASE ~Marked(g)
        BY <4>1, <4>3
      <4> QED BY <4>2, <4>3
    <3> HIDE DEF Row
    <3>3. staged' \in Partial(Guid, Staged) /\ DOMAIN staged' = DOMAIN staged
      BY <3>1, <3>2, PartialIs
    <3>4. ImportedHasUser'
      BY <1>2, <3>1, <3>2 DEF IInv, StagedInv, ImportedHasUser
    <3> QED BY <3>3, <3>4 DEF StagedInv
  <2> QED BY <2>1, <2>2
<1> QED BY <1>1, <1>2, <1>3, FinishedInv

LEMMA LoadRemovedInv ==
    ASSUME IInv, NEW s \in Sync, LoadRemoved(s)
    PROVE  IInv'
<1> DEFINE run == syncs[s]
<1>1. Sound(run, DOMAIN users) /\ run \in Run /\ run.pc = "each"
      /\ UNCHANGED <<users, staged, ldapOnly>>
  BY SyncSound DEF LoadRemoved
<1>2. /\ run.todo = {} /\ run.work = NoWork
      /\ \A n \in run.removed : n \in DOMAIN users /\ Gone(n, run.found)
  BY <1>1 DEF Sound, Sweeps, OnEntry
<1>3. CASE Become(s, Finished(run))
  BY <1>1, <1>2, <1>3, TablesStay, FinishedInv
<1>4. ASSUME NEW n \in run.removed,
             Become(s, [run EXCEPT !.pc = "deactivate", !.removed = @ \ {n},
                                   !.work.user = n, !.work.row = users[n]])
      PROVE  IInv'
  <2> DEFINE row == users[n]
             r == [run EXCEPT !.pc = "deactivate", !.removed = @ \ {n},
                              !.work.user = n, !.work.row = row]
  <2>1. n \in Name /\ row \in User /\ OwnName(row, n)
    BY <1>2, RowTyped
  <2>2. Become(s, r)
    BY <1>4
  <2> HIDE DEF row
  <2>3. [[run.work EXCEPT !.user = n] EXCEPT !.row = row] \in Work
    BY <1>2, <2>1, Constants DEF Work
  <2>4. r \in Run
    BY <1>1, <2>3 DEF Run, SyncPc
  <2>5. /\ r.pc = "deactivate" /\ r.config = run.config /\ r.found = run.found
        /\ r.work.user = n /\ r.work.row = row /\ r.work.verdict = run.work.verdict
        /\ r.todo = run.todo /\ r.removed = run.removed \ {n}
    BY <1>1 DEF Run, Work
  <2> HIDE DEF r
  <2>6. Sound(r, DOMAIN users)
    BY <1>1, <1>2, <2>1, <2>4, <2>5, Constants DEF Sound, Fitted, Sweeps, OnEntry
  <2> QED BY <1>1, <2>2, <2>5, <2>6, PerformReading DEF Underway, SyncPc
<1> QED BY <1>3, <1>4 DEF LoadRemoved

LEMMA DeactivateInv ==
    ASSUME IInv, NEW s \in Sync, Deactivate(s)
    PROVE  IInv'
<1> DEFINE run == syncs[s]
           n == run.work.user
           row == [run.work.row EXCEPT !.active = FALSE]
           r == [run EXCEPT !.pc = "each", !.work = NoWork]
<1>1. /\ Sound(run, DOMAIN users) /\ run \in Run /\ run.pc = "deactivate"
      /\ users' = [users EXCEPT ![n] = row] /\ Become(s, r) /\ UNCHANGED <<staged, ldapOnly>>
  BY SyncSound DEF Deactivate
<1>2. /\ n \in DOMAIN users /\ OwnName(run.work.row, n) /\ run.work.row \in User
  BY <1>1 DEF Sound, Fitted, Run, Work
<1>3. n \in Name
  BY <1>2, RowTyped
<1>4. row \in User /\ row.guid = run.work.row.guid
  BY <1>2 DEF User
<1> HIDE DEF row
<1>5. OwnName(row, n)
  BY <1>2, <1>4 DEF OwnName
<1>6. UsersInv' /\ DOMAIN users' = DOMAIN users
  BY <1>1, <1>2, <1>3, <1>4, <1>5, UserSaved DEF IInv
<1>7. StagedInv'
  BY <1>1, <1>6, StagedStays DEF IInv
<1>8. r \in Run
  BY <1>1, Constants DEF Run, SyncPc
<1>9. /\ r.pc = "each" /\ r.config = run.config /\ r.found = run.found
      /\ r.work = NoWork /\ r.todo = run.todo /\ r.removed = run.removed
  BY <1>1 DEF Run
<1>10. Become(s, r)
  BY <1>1
<1> HIDE DEF r
<1>11. Sound(r, DOMAIN users)
  BY <1>1, <1>8, <1>9, Constants DEF Sound, Fitted, Sweeps, OnEntry
<1> QED BY <1>1, <1>6, <1>7, <1>9, <1>10, <1>11, Perform DEF Underway, SyncPc

-----------------------------------------------------------------------------
(* The beginning and the end of a sync. *)

LEMMA MoveSound ==
    ASSUME NEW names, NEW run, Sound(run, names),
           run.pc \in {"config", "log", "finish", "fail", "release"},
           NEW r \in Run, r.pc \in {"log", "fetch", "fail", "release", "plan"},
           r.config = run.config, r.found = run.found, r.work = run.work, r.todo = run.todo
    PROVE  Sound(r, names)
BY Constants DEF Sound, Fitted, Sweeps, OnEntry

LEMMA GotoTyped ==
    ASSUME NEW run \in Run, NEW pc \in SyncPc
    PROVE  LET r == [run EXCEPT !.pc = pc]
           IN  /\ r \in Run /\ r.pc = pc /\ r.config = run.config /\ r.found = run.found
               /\ r.work = run.work /\ r.todo = run.todo
BY DEF Run

\* One sync moves; what it does to the tables and the flags is shown apart.
LEMMA Moves ==
    ASSUME IInv, NEW s \in Sync, NEW r, Become(s, r), Sound(r, DOMAIN users),
           UNCHANGED <<users, staged, admins>>, TablesInv', active' \subseteq active,
           \/ syncs[s].pc \notin Underway
           \/ r.config = syncs[s].config /\ r.pc \in Underway
           \/ syncs[s].config \notin active'
    PROVE  IInv'
<1>1. UsersInv' /\ StagedInv' /\ DOMAIN users' = DOMAIN users
  BY TablesStay
<1>2. SyncsInv' /\ syncs'[s] = r /\ \A o \in Sync \ {s} : syncs'[o] = syncs[o]
  BY <1>1, BecomeSound DEF IInv
<1>3. FlagsInv'
  BY <1>2, FlagsStay DEF IInv
<1>4. AdminsInv'
  BY <1>1, AdminsStay DEF IInv
<1> QED BY <1>1, <1>2, <1>3, <1>4 DEF IInv

LEMMA LoadConfigInv ==
    ASSUME IInv, NEW s \in Sync, LoadConfig(s)
    PROVE  IInv'
<1> DEFINE run == syncs[s]
           c == run.config
<1>1. /\ Sound(run, DOMAIN users) /\ run \in Run /\ run.pc = "config"
      /\ UNCHANGED <<users, staged, admins>> /\ active' = active
  BY SyncSound DEF LoadConfig
<1>2. TablesInv'
  BY DEF IInv, TablesInv, LoadConfig
<1>3. run.pc \notin Underway
  BY <1>1 DEF Underway
<1>4. CASE Become(s, IdleSync)
  BY <1>1, <1>2, <1>3, <1>4, IdleSound, Moves
<1>5. CASE c \in DOMAIN configs /\ Become(s, [run EXCEPT !.pc = "log", !.setting = Read(configs[c])])
  <2> DEFINE setting == Read(configs[c])
             r == [run EXCEPT !.pc = "log", !.setting = setting]
  <2>1. setting \in [mode : Mode, removes : BOOLEAN, autoSync : BOOLEAN]
    BY <1>5, PartialIs, Constants DEF IInv, TablesInv
  <2>2. Become(s, r)
    BY <1>5
  <2> HIDE DEF setting
  <2>3. r \in Run
    BY <1>1, <2>1 DEF Run, SyncPc
  <2>4. /\ r.pc = "log" /\ r.config = run.config /\ r.found = run.found
        /\ r.work = run.work /\ r.todo = run.todo
    BY <1>1 DEF Run
  <2> HIDE DEF r
  <2>5. Sound(r, DOMAIN users)
    BY <1>1, <2>3, <2>4, MoveSound
  <2> QED BY <1>1, <1>2, <1>3, <2>2, <2>5, Moves
<1> QED BY <1>4, <1>5 DEF LoadConfig

LEMMA OpenLogInv ==
    ASSUME IInv, NEW s \in Sync, OpenLog(s)
    PROVE  IInv'
<1> DEFINE run == syncs[s]
           c == run.config
           r == [run EXCEPT !.pc = "fetch", !.status = "in_progress"]
<1>1. /\ Sound(run, DOMAIN users) /\ run \in Run /\ run.pc = "log"
      /\ UNCHANGED <<configs, batch, orphans, directory, users, staged, admins, events>>
  BY SyncSound DEF OpenLog
<1>2. run.pc \notin Underway
  BY <1>1 DEF Underway
<1>3. CASE Become(s, IdleSync) /\ UNCHANGED <<active, older>>
  <2>1. TablesInv'
    BY <1>1, <1>3 DEF IInv, TablesInv
  <2> QED BY <1>1, <1>2, <1>3, <2>1, IdleSound, Moves
<1>4. CASE /\ Become(s, r) /\ active' = active \cup {c}
           /\ older' = older \cup {<<o, s>> : o \in InProgress}
  <2>1. c \in Config
    BY <1>1 DEF Sound, Fitted
  <2>2. TablesInv'
    <3>1. older' \subseteq Sync \X Sync
      BY <1>4 DEF IInv, TablesInv, InProgress
    <3>2. active' \subseteq Config
      BY <1>4, <2>1 DEF IInv, TablesInv
    <3> QED BY <1>1, <3>1, <3>2 DEF IInv, TablesInv
  <2>3. r \in Run
    BY <1>1 DEF Run, SyncPc
  <2>4. /\ r.pc = "fetch" /\ r.config = run.config /\ r.found = run.found
        /\ r.work = run.work /\ r.todo = run.todo
    BY <1>1 DEF Run
  <2>5. Become(s, r)
    BY <1>4
  <2> HIDE DEF r
  <2>6. Sound(r, DOMAIN users)
    BY <1>1, <2>3, <2>4, MoveSound
  <2>7. UsersInv' /\ StagedInv' /\ DOMAIN users' = DOMAIN users
    BY <1>1, TablesStay
  <2>8. SyncsInv' /\ syncs'[s] = r /\ \A o \in Sync \ {s} : syncs'[o] = syncs[o]
    BY <2>5, <2>6, <2>7, BecomeSound DEF IInv
  <2>9. FlagsInv'
    <3>1. syncs'[s].config = c /\ syncs'[s].pc \in Underway
      BY <2>4, <2>8 DEF Underway, SyncPc
    <3>2. \A d \in active : \E o \in Sync : syncs'[o].config = d /\ syncs'[o].pc \in Underway
      BY <1>2, <2>8 DEF IInv, FlagsInv
    <3> QED BY <1>4, <3>1, <3>2 DEF FlagsInv
  <2>10. AdminsInv'
    BY <1>1, <2>7, AdminsStay DEF IInv
  <2> QED BY <2>2, <2>7, <2>8, <2>9, <2>10 DEF IInv
<1> QED BY <1>3, <1>4 DEF OpenLog

LEMMA UnorderedIs ==
    ASSUME IInv, NEW s
    PROVE  Unordered(s) \subseteq Sync \X Sync
BY DEF Unordered, IInv, TablesInv

LEMMA FinishLogInv ==
    ASSUME IInv, NEW s \in Sync, FinishLog(s)
    PROVE  IInv'
<1> DEFINE run == syncs[s]
           status == IF run.errors THEN "failed" ELSE "completed"
           p == [run EXCEPT !.pc = "release", !.status = status]
           q == [run EXCEPT !.pc = "fail"]
<1>1. /\ Sound(run, DOMAIN users) /\ run \in Run /\ run.pc = "finish"
      /\ UNCHANGED <<configs, active, batch, orphans, directory, users, staged, admins, events>>
      /\ older' = older \/ older' = Unordered(s)
      /\ Become(s, p) \/ Become(s, q)
  BY SyncSound DEF FinishLog, Goto
<1>2. TablesInv'
  BY <1>1, UnorderedIs DEF IInv, TablesInv
<1>3. p \in Run /\ q \in Run
  BY <1>1 DEF Run, SyncPc
<1>4. /\ p.pc = "release" /\ p.config = run.config /\ p.found = run.found
      /\ p.work = run.work /\ p.todo = run.todo
      /\ q.pc = "fail" /\ q.config = run.config /\ q.found = run.found
      /\ q.work = run.work /\ q.todo = run.todo
  BY <1>1 DEF Run
<1> HIDE DEF p, q
<1>5. Sound(p, DOMAIN users) /\ Sound(q, DOMAIN users)
  BY <1>1, <1>3, <1>4, MoveSound
<1>6. p.pc \in Underway /\ q.pc \in Underway
  BY <1>4 DEF Underway, SyncPc
<1> QED BY <1>1, <1>2, <1>4, <1>5, <1>6, Moves

LEMMA FailLogInv ==
    ASSUME IInv, NEW s \in Sync, FailLog(s)
    PROVE  IInv'
<1> DEFINE run == syncs[s]
           r == [run EXCEPT !.pc = "release", !.status = "failed"]
<1>1. /\ Sound(run, DOMAIN users) /\ run \in Run /\ run.pc = "fail"
      /\ UNCHANGED <<configs, batch, orphans, directory, users, staged, admins, events>>
      /\ older' = Unordered(s)
      /\ \/ Become(s, IdleSync) /\ active' = active \ {run.config}
         \/ Become(s, r) /\ UNCHANGED active
  BY SyncSound DEF FailLog
<1>2. TablesInv' /\ active' \subseteq active
  BY <1>1, UnorderedIs DEF IInv, TablesInv
<1>3. r \in Run
  BY <1>1 DEF Run, SyncPc
<1>4. /\ r.pc = "release" /\ r.config = run.config /\ r.found = run.found
      /\ r.work = run.work /\ r.todo = run.todo
  BY <1>1 DEF Run
<1> HIDE DEF r
<1>5. Sound(r, DOMAIN users)
  BY <1>1, <1>3, <1>4, MoveSound
<1>6. r.pc \in Underway
  BY <1>4 DEF Underway, SyncPc
<1>7. CASE Become(s, IdleSync) /\ active' = active \ {run.config}
  BY <1>1, <1>2, <1>7, IdleSound, Moves
<1>8. CASE Become(s, r) /\ UNCHANGED active
  BY <1>1, <1>2, <1>4, <1>5, <1>6, <1>8, Moves
<1> QED BY <1>1, <1>7, <1>8

LEMMA ReleaseInv ==
    ASSUME IInv, NEW s \in Sync, Release(s)
    PROVE  IInv'
<1> DEFINE run == syncs[s]
           r == [run EXCEPT !.pc = "plan"]
<1>1. /\ Sound(run, DOMAIN users) /\ run \in Run /\ run.pc = "release"
      /\ UNCHANGED <<configs, batch, older, orphans, directory, users, staged, admins, events>>
      /\ active' = active \ {run.config}
      /\ Become(s, IdleSync) \/ Become(s, r)
  BY SyncSound DEF Release, Goto
<1>2. TablesInv' /\ active' \subseteq active /\ run.config \notin active'
  BY <1>1 DEF IInv, TablesInv
<1>3. r \in Run
  BY <1>1 DEF Run, SyncPc
<1>4. /\ r.pc = "plan" /\ r.config = run.config /\ r.found = run.found
      /\ r.work = run.work /\ r.todo = run.todo
  BY <1>1 DEF Run
<1> HIDE DEF r
<1>5. Sound(r, DOMAIN users)
  BY <1>1, <1>3, <1>4, MoveSound
<1> QED BY <1>1, <1>2, <1>5, IdleSound, Moves

\* A row of the configurations is changed or written.
LEMMA ConfigsTyped ==
    ASSUME IInv, NEW c \in DOMAIN configs
    PROVE  c \in Config /\ configs[c] \in ConfigRow
BY PartialIs DEF IInv, TablesInv

LEMMA NextChanged ==
    ASSUME IInv, NEW c \in DOMAIN configs, NEW next \in {"unset", "later", "due"}
    PROVE  [configs EXCEPT ![c].next = next] \in Partial(Config, ConfigRow)
<1> DEFINE row == [configs[c] EXCEPT !.next = next]
<1>1. row \in ConfigRow
  BY ConfigsTyped DEF ConfigRow
<1>2. [configs EXCEPT ![c] = row] \in Partial(Config, ConfigRow)
  BY <1>1, ExceptPartial DEF IInv, TablesInv
<1> QED BY <1>2

LEMMA PlanInv ==
    ASSUME IInv, NEW s \in Sync, Plan(s)
    PROVE  IInv'
<1>1. /\ syncs[s].pc = "plan" /\ Become(s, IdleSync)
      /\ UNCHANGED <<active, batch, older, orphans, directory, users, staged, admins, events>>
  BY DEF Plan
<1>2. configs' \in Partial(Config, ConfigRow)
  BY NextChanged DEF Plan, IInv, TablesInv
<1>3. TablesInv'
  BY <1>1, <1>2 DEF IInv, TablesInv
<1> QED BY <1>1, <1>3, IdleSound, Moves DEF Underway

-----------------------------------------------------------------------------
(* Faults of syncs, and their starts. *)

\* A step that counts an event and moves a sync that stays under way.
LEMMA EventTables ==
    ASSUME IInv, Event,
           UNCHANGED <<configs, active, batch, older, orphans, directory>>
    PROVE  TablesInv'
<1>1. events' \in Nat
  BY DEF Event, IInv, TablesInv
<1> QED BY <1>1 DEF IInv, TablesInv

LEMMA EntryFailsInv ==
    ASSUME IInv, NEW s \in Sync, EntryFails(s)
    PROVE  IInv'
<1> DEFINE r == [syncs[s] EXCEPT !.pc = "next", !.work = NoWork, !.errors = @ \/ TRUE]
<1>1. /\ syncs[s].pc # "idle" /\ Become(s, r) /\ Event
      /\ UNCHANGED <<configs, active, batch, older, orphans, directory, users, staged, admins>>
  BY DEF EntryFails, NextEntry
<1>2. TablesInv'
  BY <1>1, EventTables
<1>3. Sound(syncs[s], DOMAIN users)
  BY SyncSound
<1>4. Sound(r, DOMAIN users) /\ r.config = syncs[s].config /\ r.pc = "next"
  BY <1>1, <1>3, NextSound
<1> HIDE DEF r
<1>5. r.pc \in Underway
  BY <1>4 DEF Underway, SyncPc
<1> QED BY <1>1, <1>2, <1>4, <1>5, Moves

LEMMA SyncFailsInv ==
    ASSUME IInv, NEW s \in Sync, SyncFails(s)
    PROVE  IInv'
<1> DEFINE run == syncs[s]
           p == [Finished(run) EXCEPT !.pc = "fail", !.todo = {}]
           q == Finished(run)
<1>1. /\ Event /\ UNCHANGED <<users, staged, admins>> /\ UNCHANGED active
      /\ UNCHANGED <<configs, active, batch, older, orphans, directory>>
      /\ \/ run.pc \in {"fetch", "next", "finish"} /\ Become(s, p)
         \/ run.pc \in {"remove", "disable", "each", "deactivate"} /\ Become(s, q)
         \/ run.pc \in {"config", "log"} /\ Become(s, IdleSync)
  BY DEF SyncFails
<1>2. TablesInv'
  BY <1>1, EventTables
<1>3. Sound(run, DOMAIN users) /\ run \in Run
  BY SyncSound
<1>4. CASE run.pc \in {"config", "log"} /\ Become(s, IdleSync)
  BY <1>1, <1>2, <1>4, IdleSound, Moves DEF Underway
<1>5. CASE run.pc \in {"fetch", "next", "finish"} /\ Become(s, p)
  <2>1. "fail" \in SyncPc
    BY DEF SyncPc
  <2>2. /\ p \in Run /\ p.pc = "fail" /\ p.config = run.config /\ p.found = Nothing
        /\ p.work = NoWork /\ p.todo = {}
    BY <1>3, <2>1, FinishedIs
  <2>3. Become(s, p) /\ run.pc # "idle"
    BY <1>5
  <2> HIDE DEF p
  <2>4. Sound(p, DOMAIN users)
    BY <1>3, <2>2, <2>3, FinishedSound
  <2>5. p.pc \in Underway
    BY <2>2 DEF Underway, SyncPc
  <2> QED BY <1>1, <1>2, <2>2, <2>3, <2>4, <2>5, Moves
<1>6. CASE run.pc \in {"remove", "disable", "each", "deactivate"} /\ Become(s, q)
  <2>1. "finish" \in SyncPc
    BY DEF SyncPc
  <2>2. run.todo = {}
    BY <1>3, <1>6 DEF Sound, Sweeps
  <2>3. /\ q \in Run /\ q.pc = "finish" /\ q.config = run.config /\ q.found = Nothing
        /\ q.work = NoWork /\ q.todo = {}
    BY <1>3, <2>1, <2>2, FinishedIs
  <2>4. Become(s, q) /\ run.pc # "idle"
    BY <1>6
  <2> HIDE DEF q
  <2>5. Sound(q, DOMAIN users)
    BY <1>3, <2>3, <2>4, FinishedSound
  <2>6. q.pc \in Underway
    BY <2>3 DEF Underway, SyncPc
  <2> QED BY <1>1, <1>2, <2>3, <2>4, <2>5, <2>6, Moves
<1> QED BY <1>1, <1>4, <1>5, <1>6

\* The logs that stay in progress are counted, and there are finitely many.
LEMMA OrphanedTyped ==
    ASSUME IInv, NEW S \in SUBSET Sync, Orphaned(S)
    PROVE  orphans' \in [Config -> Nat]
<1> DEFINE Open(c) == {s \in S \cap InProgress : syncs[s].config = c}
<1>1. ASSUME NEW c \in Config PROVE Cardinality(Open(c)) \in Nat
  <2>1. Open(c) \in SUBSET Sync
    BY DEF InProgress
  <2>2. IsFiniteSet(Open(c))
    BY <2>1, SyncAssumption, FS_Subset
  <2> QED BY <2>2, FS_CardinalityType
<1> HIDE DEF Open
<1>2. orphans' = [c \in Config |-> orphans[c] + Cardinality(Open(c))]
  BY DEF Orphaned, Open
<1>3. orphans \in [Config -> Nat]
  BY DEF IInv, TablesInv
<1> QED BY <1>1, <1>2, <1>3

LEMMA PromiseRejectsInv ==
    ASSUME IInv, NEW s \in Sync, PromiseRejects(s)
    PROVE  IInv'
<1>1. /\ Event /\ Orphaned({s}) /\ older' = Unordered(s) /\ Become(s, IdleSync)
      /\ active' = active \ {syncs[s].config}
      /\ UNCHANGED <<configs, batch, directory, users, staged, admins>>
  BY DEF PromiseRejects
<1>2. orphans' \in [Config -> Nat] /\ events' \in Nat
  <2>1. {s} \in SUBSET Sync
    OBVIOUS
  <2> QED BY <1>1, <2>1, OrphanedTyped DEF Event, IInv, TablesInv
<1>3. TablesInv' /\ active' \subseteq active
  BY <1>1, <1>2, UnorderedIs DEF IInv, TablesInv
<1> QED BY <1>1, <1>3, IdleSound, Moves

LEMMA BeginSound ==
    ASSUME NEW names, NEW c \in Config, NEW dry \in BOOLEAN, NEW full \in BOOLEAN
    PROVE  Sound([IdleSync EXCEPT !.pc = "config", !.config = c, !.dry = dry, !.full = full], names)
<1> DEFINE r == [IdleSync EXCEPT !.pc = "config", !.config = c, !.dry = dry, !.full = full]
<1>1. IdleSync \in Run
  BY IdleSound
<1>2. r \in Run
  BY <1>1 DEF Run, SyncPc
<1>3. r.pc = "config" /\ r.config = c /\ r.todo = IdleSync.todo /\ r.work = IdleSync.work
  BY <1>1 DEF Run
<1>4. IdleSync.todo = {} /\ IdleSync.work = NoWork
  BY DEF IdleSync
<1> HIDE DEF r
<1>5. Sound(r, names)
  BY <1>2, <1>3, <1>4, Constants DEF Sound, Fitted, Sweeps, OnEntry
<1> QED BY <1>5 DEF r

LEMMA BeginInv ==
    ASSUME IInv, NEW s \in Sync, NEW c \in Config, NEW option \in [dry : BOOLEAN, full : BOOLEAN],
           Free(s), Begin(s, c, option), UNCHANGED <<users, staged, admins>>, TablesInv'
    PROVE  IInv'
<1> DEFINE r == [IdleSync EXCEPT !.pc = "config", !.config = c,
                                 !.dry = option.dry, !.full = option.full]
<1>1. Become(s, r) /\ UNCHANGED active
  BY DEF Begin
<1>2. syncs[s].pc \notin Underway
  BY DEF Free, Unused, Underway
<1>3. option.dry \in BOOLEAN /\ option.full \in BOOLEAN
  OBVIOUS
<1>4. Sound(r, DOMAIN users)
  BY <1>3, BeginSound
<1> HIDE DEF r
<1> QED BY <1>1, <1>2, <1>4, Moves

LEMMA StartSyncInv ==
    ASSUME IInv, NEW s \in Sync, NEW c \in Config, NEW option \in Options, StartSync(s, c, option)
    PROVE  IInv'
<1>1. TablesInv' /\ UNCHANGED <<users, staged, admins>>
  BY DEF IInv, TablesInv, StartSync, Begin
<1> QED BY <1>1, OptionsAssumption, BeginInv DEF StartSync

\* Nothing but the tables changes.
LEMMA OnlyTables ==
    ASSUME IInv, UNCHANGED <<active, syncs, users, staged, admins>>, TablesInv'
    PROVE  IInv'
<1>1. UsersInv' /\ StagedInv' /\ AdminsInv'
  BY DEF IInv, UsersInv, StagedInv, ImportedHasUser, AdminsInv
<1>2. SyncsInv' /\ FlagsInv'
  BY DEF IInv, SyncsInv, FlagsInv
<1> QED BY <1>1, <1>2 DEF IInv

LEMMA CronInv ==
    ASSUME IInv, Cron
    PROVE  IInv'
<1>1. CASE FindDue
  <2>1. TablesInv' /\ UNCHANGED <<active, syncs, users, staged, admins>>
    BY <1>1 DEF FindDue, IInv, TablesInv
  <2> QED BY <2>1, OnlyTables
<1>2. ASSUME NEW s \in Sync, NEW c \in Config, StartDue(s, c) PROVE IInv'
  <2>1. /\ TablesInv' /\ UNCHANGED <<users, staged, admins>>
        /\ \/ Free(s) /\ Begin(s, c, Scheduled)
           \/ UNCHANGED <<active, syncs>>
    BY <1>2 DEF StartDue, Begin, IInv, TablesInv
  <2>2. Scheduled \in [dry : BOOLEAN, full : BOOLEAN]
    BY DEF Scheduled
  <2>3. CASE Free(s) /\ Begin(s, c, Scheduled)
    BY <2>1, <2>2, <2>3, BeginInv
  <2>4. CASE UNCHANGED <<active, syncs>>
    BY <2>1, <2>4, OnlyTables
  <2> QED BY <2>1, <2>3, <2>4
<1> QED BY <1>1, <1>2 DEF Cron

-----------------------------------------------------------------------------
(* Configurations and the directory. *)

LEMMA CreateConfigInv ==
    ASSUME IInv, NEW c \in Config, NEW setting \in Settings, NEW given \in BOOLEAN,
           CreateConfig(c, setting, given)
    PROVE  IInv'
<1> DEFINE next == IF given /\ setting.autoSync THEN "later" ELSE "unset"
           row == [enabled |-> setting.enabled, autoSync |-> setting.autoSync,
                   mode |-> setting.mode, removes |-> setting.removes, next |-> next]
<1>1. setting \in Setting
  BY SettingsAssumption
<1>2. row \in ConfigRow
  BY <1>1 DEF Setting, ConfigRow
<1>3. /\ configs' = Put(configs, c, row)
      /\ UNCHANGED <<active, batch, syncs, older, orphans, directory, users, staged, admins, events>>
  BY DEF CreateConfig
<1> HIDE DEF row
<1>4. configs' \in Partial(Config, ConfigRow)
  BY <1>2, <1>3, PutPartial DEF IInv, TablesInv
<1>5. TablesInv'
  BY <1>3, <1>4 DEF IInv, TablesInv
<1> QED BY <1>3, <1>5, OnlyTables

LEMMA TimePassesInv ==
    ASSUME IInv, NEW c \in Config, TimePasses(c)
    PROVE  IInv'
<1>1. configs' \in Partial(Config, ConfigRow)
  BY NextChanged DEF TimePasses
<1>2. TablesInv'
  BY <1>1 DEF IInv, TablesInv, TimePasses
<1> QED BY <1>2, OnlyTables DEF TimePasses

LEMMA DirectoryChangesInv ==
    ASSUME IInv, NEW g \in Guid, NEW data \in Data \cup {None, Nameless}, DirectoryChanges(g, data)
    PROVE  IInv'
<1>1. directory' \in [Guid -> Data \cup {None, Nameless}] /\ events' \in Nat
  BY DEF DirectoryChanges, Event, IInv, TablesInv
<1>2. TablesInv'
  BY <1>1 DEF IInv, TablesInv, DirectoryChanges
<1> QED BY <1>2, OnlyTables DEF DirectoryChanges

\* A log's status is nothing the invariant depends on.
LEMMA StatusSound ==
    ASSUME NEW names, NEW run, Sound(run, names),
           NEW status \in {"over", "in_progress", "completed", "failed", "cancelled"}
    PROVE  LET r == [run EXCEPT !.status = status]
           IN  Sound(r, names) /\ r \in Run /\ r.config = run.config /\ r.pc = run.pc
<1> DEFINE r == [run EXCEPT !.status = status]
<1>1. run \in Run
  BY DEF Sound
<1>2. r \in Run
  BY <1>1 DEF Run
<1>3. /\ r.config = run.config /\ r.pc = run.pc /\ r.todo = run.todo /\ r.found = run.found
      /\ r.work = run.work /\ r.removed = run.removed
  BY <1>1 DEF Run
<1> HIDE DEF r
<1>4. Sound(r, names)
  BY <1>2, <1>3 DEF Sound, Fitted, Sweeps
<1> QED BY <1>2, <1>3, <1>4 DEF r

LEMMA DeleteConfigInv ==
    ASSUME IInv, NEW c \in Config, DeleteConfig(c)
    PROVE  IInv'
<1> DEFINE Row(s) == IF syncs[s].config = c THEN [syncs[s] EXCEPT !.status = "over"] ELSE syncs[s]
           gone == {g \in DOMAIN staged : staged[g].config = c}
<1>1. /\ configs' = Without(configs, {c}) /\ staged' = Without(staged, gone)
      /\ syncs' = [s \in Sync |-> Row(s)] /\ orphans' = [orphans EXCEPT ![c] = 0]
      /\ older' \subseteq older /\ Event /\ UNCHANGED <<active, batch, directory, users, admins>>
  BY DEF DeleteConfig
<1>2. TablesInv'
  <2>1. configs' \in Partial(Config, ConfigRow)
    BY <1>1, WithoutPartial DEF IInv, TablesInv
  <2>2. orphans' \in [Config -> Nat] /\ events' \in Nat
    BY <1>1 DEF IInv, TablesInv, Event
  <2> QED BY <1>1, <2>1, <2>2 DEF IInv, TablesInv
<1>3. ASSUME NEW s \in Sync
      PROVE  Row(s) \in Run /\ Sound(Row(s), DOMAIN users) /\ Row(s).config = syncs[s].config
             /\ Row(s).pc = syncs[s].pc
  BY SyncSound, StatusSound
<1> HIDE DEF Row, gone
<1>4. SyncsInv' /\ FlagsInv'
  <2>1. syncs' \in [Sync -> Run] /\ \A s \in Sync : syncs'[s] = Row(s)
    BY <1>1, <1>3
  <2>2. SyncsInv'
    BY <1>1, <1>3, <2>1 DEF SyncsInv
  <2>3. FlagsInv'
    BY <1>1, <1>3, <2>1 DEF IInv, FlagsInv
  <2> QED BY <2>2, <2>3
<1>5. StagedInv'
  <2>1. /\ staged' \in Partial(Guid, Staged) /\ DOMAIN staged' = DOMAIN staged \ gone
        /\ \A g \in DOMAIN staged \ gone : staged'[g] = staged[g]
    BY <1>1, WithoutPartial DEF IInv, StagedInv
  <2> QED BY <1>1, <2>1 DEF IInv, StagedInv, ImportedHasUser
<1>6. UsersInv' /\ AdminsInv'
  BY <1>1 DEF IInv, UsersInv, AdminsInv
<1> QED BY <1>2, <1>4, <1>5, <1>6 DEF IInv

-----------------------------------------------------------------------------
(* Administrators' requests. *)

LEMMA RequestTyped ==
    ASSUME IInv, NEW a \in Admin
    PROVE  admins[a] \in AdminRequest /\ Asks(admins[a], DOMAIN users)
BY DEF IInv, AdminsInv

\* One request goes on; tables and flags are shown apart.
LEMMA AdminMoves ==
    ASSUME IInv, NEW a \in Admin, NEW r, admins' = [admins EXCEPT ![a] = r],
           Asks(r, DOMAIN users'), DOMAIN users \subseteq DOMAIN users',
           UNCHANGED syncs, active' \subseteq active, TablesInv', UsersInv', StagedInv'
    PROVE  IInv'
<1>1. AdminsInv'
  <2>1. r \in AdminRequest
    BY DEF Asks
  <2>2. /\ admins' \in [Admin -> AdminRequest] /\ admins'[a] = r
        /\ \A b \in Admin \ {a} : admins'[b] = admins[b]
    BY <2>1 DEF IInv, AdminsInv
  <2> QED BY <2>2, AsksMore DEF IInv, AdminsInv
<1>2. SyncsInv' /\ FlagsInv'
  BY SoundMore DEF IInv, SyncsInv, FlagsInv
<1> QED BY <1>1, <1>2 DEF IInv

LEMMA LoadConfigForUpdateInv ==
    ASSUME IInv, NEW a \in Admin, NEW c \in Config, LoadConfigForUpdate(a, c)
    PROVE  IInv'
<1> DEFINE row == configs[c]
           r == [admins[a] EXCEPT !.pc = "config", !.config = c, !.setting = row]
<1>1. /\ c \in DOMAIN configs /\ Event /\ admins' = [admins EXCEPT ![a] = r]
      /\ UNCHANGED <<configs, active, batch, syncs, older, orphans, directory, users, staged>>
  BY DEF LoadConfigForUpdate
<1>2. admins[a] \in AdminRequest /\ row \in ConfigRow
  BY <1>1, RequestTyped, ConfigsTyped
<1> HIDE DEF row
<1>3. r \in AdminRequest /\ r.pc = "config" /\ r.config = c
  BY <1>2 DEF AdminRequest
<1> HIDE DEF r
<1>4. Asks(r, DOMAIN users)
  BY <1>3 DEF Asks
<1>5. TablesInv' /\ UsersInv' /\ StagedInv' /\ DOMAIN users' = DOMAIN users
  BY <1>1, EventTables, TablesStay
<1> QED BY <1>1, <1>4, <1>5, AdminMoves

LEMMA SaveConfigInv ==
    ASSUME IInv, NEW a \in Admin, NEW setting \in Settings, NEW given \in BOOLEAN,
           SaveConfig(a, setting, given)
    PROVE  IInv'
<1> DEFINE c == admins[a].config
           auto == IF given THEN setting.autoSync ELSE admins[a].setting.autoSync
           row == [admins[a].setting EXCEPT !.enabled = setting.enabled, !.mode = setting.mode,
                       !.removes = setting.removes, !.autoSync = auto]
           current == IF c \in DOMAIN configs THEN configs[c].next ELSE "unset"
           next == NextSync(row, current, given)
           saved == [row EXCEPT !.next = next]
<1>1. /\ admins[a].pc = "config" /\ admins' = [admins EXCEPT ![a] = IdleAdmin]
      /\ UNCHANGED <<active, batch, syncs, older, orphans, directory, users, staged, events>>
  BY DEF SaveConfig
<1>2. /\ setting \in Setting /\ admins[a].setting \in ConfigRow /\ c \in Config
  BY <1>1, RequestTyped, SettingsAssumption DEF Asks, AdminRequest
<1>3. configs' = Put(configs, c, saved)
  <2>1. [admins[a].setting EXCEPT !.enabled = setting.enabled, !.mode = setting.mode,
             !.removes = setting.removes, !.autoSync = IF given THEN setting.autoSync ELSE @] = row
    BY <1>2 DEF ConfigRow
  <2> QED BY <2>1 DEF SaveConfig
<1>4. auto \in BOOLEAN /\ current \in {"unset", "later", "due"}
  BY <1>2, ConfigsTyped DEF Setting, ConfigRow
<1> HIDE DEF auto, current
<1>5. row \in ConfigRow
  BY <1>2, <1>4 DEF ConfigRow, Setting
<1> HIDE DEF row
<1>6. next \in {"unset", "later", "due"}
  BY <1>4, <1>5 DEF NextSync, ConfigRow
<1> HIDE DEF next
<1>7. saved \in ConfigRow
  BY <1>5, <1>6 DEF ConfigRow
<1> HIDE DEF saved
<1>8. configs' \in Partial(Config, ConfigRow)
  BY <1>2, <1>3, <1>7, PutPartial DEF IInv, TablesInv
<1>9. TablesInv' /\ UsersInv' /\ StagedInv' /\ DOMAIN users' = DOMAIN users
  BY <1>1, <1>8, TablesStay DEF IInv, TablesInv
<1> QED BY <1>1, <1>9, IdleSound, AdminMoves

LEMMA FindRunningInv ==
    ASSUME IInv, NEW a \in Admin, NEW c \in Config, NEW s \in Sync \cup {None}, FindRunning(a, c, s)
    PROVE  IInv'
<1> DEFINE r == [admins[a] EXCEPT !.pc = "cancel", !.sync = s, !.config = c]
<1>1. /\ Event /\ admins' = [admins EXCEPT ![a] = r]
      /\ UNCHANGED <<configs, active, batch, syncs, older, orphans, directory, users, staged>>
  BY DEF FindRunning
<1>2. admins[a] \in AdminRequest
  BY RequestTyped
<1>3. r \in AdminRequest /\ r.pc = "cancel" /\ r.config = c
  BY <1>2 DEF AdminRequest
<1> HIDE DEF r
<1>4. Asks(r, DOMAIN users)
  BY <1>3 DEF Asks
<1>5. TablesInv' /\ UsersInv' /\ StagedInv' /\ DOMAIN users' = DOMAIN users
  BY <1>1, EventTables, TablesStay
<1> QED BY <1>1, <1>4, <1>5, AdminMoves

LEMMA SaveCancelledInv ==
    ASSUME IInv, NEW a \in Admin, SaveCancelled(a)
    PROVE  IInv'
<1> DEFINE s == admins[a].sync
           c == admins[a].config
           status == IF LogGone(s) THEN syncs[s].status ELSE "cancelled"
           r == [syncs[s] EXCEPT !.status = status]
<1>1. /\ admins[a].pc = "cancel" /\ admins' = [admins EXCEPT ![a] = IdleAdmin]
      /\ UNCHANGED <<configs, batch, directory, users, staged, events>>
      /\ \/ UNCHANGED <<syncs, orphans, older, active>>
         \/ /\ IF s = None THEN UNCHANGED syncs
               ELSE syncs' = [syncs EXCEPT ![s].status = IF LogGone(s) THEN @ ELSE "cancelled"]
            /\ orphans' = [orphans EXCEPT ![c] = IF s = None /\ @ > 0 THEN @ - 1 ELSE @]
            /\ older' = Unordered(s) /\ active' = active \ {c}
  BY DEF SaveCancelled
<1>2. c \in Config /\ s \in Sync \cup {None}
  BY <1>1, RequestTyped DEF Asks, AdminRequest
<1>3. UsersInv' /\ StagedInv' /\ DOMAIN users' = DOMAIN users
  BY <1>1, TablesStay
<1>4. CASE UNCHANGED <<syncs, orphans, older, active>>
  <2>1. TablesInv'
    BY <1>1, <1>4 DEF IInv, TablesInv
  <2> QED BY <1>1, <1>3, <1>4, <2>1, IdleSound, AdminMoves
<1>5. CASE /\ IF s = None THEN UNCHANGED syncs
              ELSE syncs' = [syncs EXCEPT ![s].status = IF LogGone(s) THEN @ ELSE "cancelled"]
           /\ orphans' = [orphans EXCEPT ![c] = IF s = None /\ @ > 0 THEN @ - 1 ELSE @]
           /\ older' = Unordered(s) /\ active' = active \ {c}
  <2>1. orphans' \in [Config -> Nat]
    <3>1. orphans \in [Config -> Nat] /\ orphans[c] \in Nat
      BY <1>2 DEF IInv, TablesInv
    <3> DEFINE n == IF s = None /\ orphans[c] > 0 THEN orphans[c] - 1 ELSE orphans[c]
    <3>2. n \in Nat
      BY <3>1
    <3>3. orphans' = [orphans EXCEPT ![c] = n]
      BY <1>5
    <3> HIDE DEF n
    <3> QED BY <3>1, <3>2, <3>3
  <2>2. older' \subseteq Sync \X Sync /\ active' \subseteq active
    BY <1>5, UnorderedIs
  <2>3. TablesInv'
    BY <1>1, <2>1, <2>2 DEF IInv, TablesInv
  <2>4. CASE s = None
    BY <1>1, <1>3, <1>5, <2>2, <2>3, <2>4, IdleSound, AdminMoves
  <2>5. CASE s # None
    <3>1. s \in Sync /\ Sound(syncs[s], DOMAIN users) /\ syncs[s] \in Run
      BY <1>2, <2>5, SyncSound
    <3>2. syncs' = [syncs EXCEPT ![s] = r]
      BY <1>5, <2>5
    <3>3. status \in {"over", "in_progress", "completed", "failed", "cancelled"}
      BY <3>1 DEF Run
    <3> HIDE DEF status
    <3>4. Sound(r, DOMAIN users) /\ r.config = syncs[s].config /\ r.pc = syncs[s].pc
      BY <3>1, <3>3, StatusSound
    <3> HIDE DEF r
    <3>5. Become(s, r)
      BY <3>2 DEF Become
    <3>6. SyncsInv' /\ syncs'[s] = r /\ \A o \in Sync \ {s} : syncs'[o] = syncs[o]
      BY <1>3, <3>1, <3>4, <3>5, BecomeSound DEF IInv
    <3>7. FlagsInv'
      BY <2>2, <3>1, <3>4, <3>6, FlagsStay DEF IInv
    <3>8. AdminsInv'
      BY <1>1, <1>3, IdleSound DEF IInv, AdminsInv
    <3> QED BY <1>3, <2>3, <3>6, <3>7, <3>8 DEF IInv
  <2> QED BY <2>4, <2>5
<1> QED BY <1>1, <1>4, <1>5

LEMMA LoadStagedInv ==
    ASSUME IInv, NEW a \in Admin, NEW S \in SUBSET DOMAIN staged, NEW pc \in {"import", "reject"},
           LoadStaged(a, S, pc)
    PROVE  IInv'
<1> DEFINE rows == [g \in Waiting(S) |-> staged[g]]
           r == [admins[a] EXCEPT !.pc = pc, !.rows = rows]
<1>1. /\ admins' = [admins EXCEPT ![a] = r]
      /\ UNCHANGED <<configs, active, batch, syncs, older, orphans, directory, users, staged, events>>
  BY DEF LoadStaged
<1>2. rows \in Partial(Guid, Staged)
  <2>1. \A g \in Waiting(S) : g \in Guid /\ staged[g] \in Staged
    BY StagedTyped DEF Waiting
  <2> QED BY <2>1, PartialIs
<1>3. admins[a] \in AdminRequest
  BY RequestTyped
<1> HIDE DEF rows
<1>4. r \in AdminRequest /\ r.pc = pc
  BY <1>2, <1>3 DEF AdminRequest
<1> HIDE DEF r
<1>5. Asks(r, DOMAIN users)
  BY <1>4 DEF Asks
<1>6. TablesInv' /\ UsersInv' /\ StagedInv' /\ DOMAIN users' = DOMAIN users
  BY <1>1, TablesStay DEF IInv, TablesInv
<1> QED BY <1>1, <1>5, <1>6, AdminMoves

\* After a row: the next one, or the end of the request.
LEMMA NextRowAsks ==
    ASSUME IInv, NEW a \in Admin, NEW names
    PROVE  LET rows == Without(admins[a].rows, {admins[a].guid})
           IN  Asks(IF DOMAIN rows = {} THEN IdleAdmin
                    ELSE [IdleAdmin EXCEPT !.pc = "import", !.rows = rows], names)
<1> DEFINE rows == Without(admins[a].rows, {admins[a].guid})
           r == [IdleAdmin EXCEPT !.pc = "import", !.rows = rows]
<1>1. rows \in Partial(Guid, Staged)
  BY RequestTyped, WithoutPartial DEF AdminRequest
<1> HIDE DEF rows
<1>2. r \in AdminRequest /\ r.pc = "import"
  BY <1>1, IdleSound DEF AdminRequest
<1> HIDE DEF r
<1>3. Asks(r, names) /\ Asks(IdleAdmin, names)
  BY <1>2, IdleSound DEF Asks
<1>4. Asks(IF DOMAIN rows = {} THEN IdleAdmin ELSE r, names)
  BY <1>3
<1> QED BY <1>4 DEF rows, r

LEMMA NextRowInv ==
    ASSUME IInv, NEW a \in Admin, NextRow(a, "import"), DOMAIN users \subseteq DOMAIN users',
           UNCHANGED syncs, active' \subseteq active, TablesInv', UsersInv', StagedInv'
    PROVE  IInv'
<1> DEFINE rows == Without(admins[a].rows, {admins[a].guid})
           r == IF DOMAIN rows = {} THEN IdleAdmin ELSE [IdleAdmin EXCEPT !.pc = "import", !.rows = rows]
<1>1. admins' = [admins EXCEPT ![a] = r]
  BY DEF NextRow
<1>2. Asks(r, DOMAIN users')
  BY NextRowAsks
<1> HIDE DEF r
<1> QED BY <1>1, <1>2, AdminMoves

LEMMA MatchImportedInv ==
    ASSUME IInv, NEW a \in Admin, MatchImported(a)
    PROVE  IInv'
<1>1. PICK g \in DOMAIN admins[a].rows :
          admins' = [admins EXCEPT ![a] = [admins[a] EXCEPT !.guid = g,
              !.pc = IF Match(g) = None THEN "createImported" ELSE "saveImported"]]
  BY DEF MatchImported
<1> DEFINE pc == IF Match(g) = None THEN "createImported" ELSE "saveImported"
           r == [admins[a] EXCEPT !.guid = g, !.pc = pc]
<1>2. UNCHANGED <<users, staged, adminOnly>>
  BY DEF MatchImported
<1>3. admins[a] \in AdminRequest /\ g \in Guid
  BY RequestTyped, PartialIs DEF AdminRequest
<1>4. pc \in {"createImported", "saveImported"}
  OBVIOUS
<1>5. admins' = [admins EXCEPT ![a] = r]
  BY <1>1
<1> HIDE DEF pc
<1>6. r \in AdminRequest /\ r.pc = pc /\ r.guid = g /\ r.rows = admins[a].rows
  BY <1>3, <1>4 DEF AdminRequest
<1> HIDE DEF r
<1>7. Asks(r, DOMAIN users)
  BY <1>4, <1>6 DEF Asks
<1>8. TablesInv' /\ UsersInv' /\ StagedInv' /\ DOMAIN users' = DOMAIN users
  BY <1>2, TablesStay DEF IInv, TablesInv, adminOnly
<1> QED BY <1>2, <1>5, <1>7, <1>8, AdminMoves DEF adminOnly

\* The row an import or a rejection works on.
LEMMA ImportedTyped ==
    ASSUME IInv, NEW a \in Admin, NEW g \in DOMAIN admins[a].rows
    PROVE  g \in Guid /\ admins[a].rows[g] \in Staged
BY RequestTyped, PartialIs DEF AdminRequest

LEMMA SaveImportedInv ==
    ASSUME IInv, NEW a \in Admin, SaveImported(a)
    PROVE  IInv'
<1> DEFINE g == admins[a].guid
           user == NewUser(g, admins[a].rows[g].data, TRUE)
           r == [admins[a] EXCEPT !.pc = "mark"]
<1>1. /\ admins[a].pc \in {"createImported", "saveImported"} /\ UNCHANGED <<staged, adminOnly>>
      /\ \/ NextRow(a, "import") /\ UNCHANGED users
         \/ users' = Put(users, NameOf[g], user) /\ admins' = [admins EXCEPT ![a].pc = "mark"]
  BY DEF SaveImported
<1>2. TablesInv'
  BY <1>1 DEF IInv, TablesInv, adminOnly
<1>3. CASE NextRow(a, "import") /\ UNCHANGED users
  BY <1>1, <1>2, <1>3, TablesStay, NextRowInv DEF adminOnly
<1>4. CASE users' = Put(users, NameOf[g], user) /\ admins' = [admins EXCEPT ![a].pc = "mark"]
  <2>1. g \in DOMAIN admins[a].rows /\ admins[a] \in AdminRequest
    BY <1>1, RequestTyped DEF Asks
  <2>2. g \in Guid /\ admins[a].rows[g].data \in Data
    BY <2>1, ImportedTyped DEF Staged
  <2>3. user \in User /\ OwnName(user, NameOf[g]) /\ NameOf[g] \in Name
    BY <2>2, NewUserTyped, Constants
  <2>4. users' = Put(users, NameOf[g], user)
    BY <1>4
  <2> HIDE DEF user
  <2>5. UsersInv' /\ DOMAIN users' = DOMAIN users \cup {NameOf[g]}
    BY <2>3, <2>4, UserSaved DEF IInv
  <2>6. StagedInv'
    BY <1>1, <2>5, StagedStays DEF IInv
  <2>7. r \in AdminRequest /\ r.pc = "mark" /\ r.guid = g /\ r.rows = admins[a].rows
    BY <2>1 DEF AdminRequest
  <2>8. admins' = [admins EXCEPT ![a] = r]
    BY <1>4
  <2> HIDE DEF r
  <2>9. Asks(r, DOMAIN users')
    BY <2>1, <2>5, <2>7 DEF Asks
  <2> QED BY <1>1, <1>2, <2>5, <2>6, <2>8, <2>9, AdminMoves DEF adminOnly
<1> QED BY <1>1, <1>3, <1>4

LEMMA MarkImportedInv ==
    ASSUME IInv, NEW a \in Admin, MarkImported(a)
    PROVE  IInv'
<1> DEFINE g == admins[a].guid
           row == [admins[a].rows[g] EXCEPT !.status = "IMPORTED", !.user = NameOf[g]]
<1>1. /\ admins[a].pc = "mark" /\ NextRow(a, "import") /\ UNCHANGED <<users, adminOnly>>
      /\ IF g \in DOMAIN staged THEN staged' = [staged EXCEPT ![g] = row] ELSE UNCHANGED staged
  BY DEF MarkImported
<1>2. g \in DOMAIN admins[a].rows /\ NameOf[g] \in DOMAIN users
  BY <1>1, RequestTyped DEF Asks
<1>3. g \in Guid /\ admins[a].rows[g] \in Staged /\ NameOf[g] \in Name
  BY <1>2, ImportedTyped, Constants
<1>4. row \in Staged /\ row.user = NameOf[g]
  BY <1>3 DEF Staged, StagedStatus
<1> HIDE DEF row
<1>5. TablesInv' /\ UsersInv' /\ DOMAIN users' = DOMAIN users
  BY <1>1 DEF IInv, TablesInv, UsersInv, adminOnly
<1>6. StagedInv'
  <2>1. CASE g \in DOMAIN staged
    BY <1>1, <1>2, <1>3, <1>4, <1>5, <2>1, StagedSaved
  <2>2. CASE g \notin DOMAIN staged
    BY <1>1, <1>5, <2>2, StagedStays DEF IInv
  <2> QED BY <2>1, <2>2
<1> QED BY <1>1, <1>5, <1>6, NextRowInv DEF adminOnly

LEMMA SaveRejectedInv ==
    ASSUME IInv, NEW a \in Admin, SaveRejected(a)
    PROVE  IInv'
<1>1. PICK g \in DOMAIN admins[a].rows :
          /\ staged' = IF g \in DOMAIN staged
                       THEN [staged EXCEPT ![g] = [admins[a].rows[g] EXCEPT !.status = "REJECTED"]]
                       ELSE staged
          /\ LET rows == Without(admins[a].rows, {g})
             IN  admins' = [admins EXCEPT ![a] = IF DOMAIN rows = {} THEN IdleAdmin
                                                 ELSE [admins[a] EXCEPT !.rows = rows]]
  BY DEF SaveRejected
<1> DEFINE rows == Without(admins[a].rows, {g})
           left == [admins[a] EXCEPT !.rows = rows]
           r == IF DOMAIN rows = {} THEN IdleAdmin ELSE left
           row == [admins[a].rows[g] EXCEPT !.status = "REJECTED"]
<1>2. admins[a].pc = "reject" /\ UNCHANGED <<users, adminOnly>>
  BY DEF SaveRejected
<1>3. g \in Guid /\ admins[a].rows[g] \in Staged
  BY ImportedTyped
<1>4. row \in Staged /\ row.status = "REJECTED"
  BY <1>3 DEF Staged, StagedStatus
<1>5. g \in DOMAIN staged => staged' = [staged EXCEPT ![g] = row]
  BY <1>1
<1> HIDE DEF row
<1>6. TablesInv' /\ UsersInv' /\ DOMAIN users' = DOMAIN users
  BY <1>2 DEF IInv, TablesInv, UsersInv, adminOnly
<1>7. StagedInv'
  <2>1. CASE g \in DOMAIN staged
    BY <1>3, <1>4, <1>5, <1>6, <2>1, StagedSaved
  <2>2. CASE g \notin DOMAIN staged
    BY <1>1, <1>6, <2>2, StagedStays DEF IInv
  <2> QED BY <2>1, <2>2
<1>8. admins' = [admins EXCEPT ![a] = r]
  BY <1>1
<1>9. rows \in Partial(Guid, Staged)
  BY RequestTyped, WithoutPartial DEF AdminRequest
<1> HIDE DEF rows
<1>10. left \in AdminRequest /\ left.pc = "reject"
  BY <1>2, <1>9, RequestTyped DEF AdminRequest
<1> HIDE DEF left
<1>11. Asks(left, DOMAIN users') /\ Asks(IdleAdmin, DOMAIN users')
  BY <1>10, IdleSound DEF Asks
<1>12. Asks(r, DOMAIN users')
  BY <1>11
<1> HIDE DEF r
<1> QED BY <1>2, <1>6, <1>7, <1>8, <1>12, AdminMoves DEF adminOnly

LEMMA AdminFailsInv ==
    ASSUME IInv, NEW a \in Admin, AdminFails(a)
    PROVE  IInv'
<1>1. /\ Event /\ (NextRow(a, "import") \/ admins' = [admins EXCEPT ![a] = IdleAdmin])
      /\ UNCHANGED <<configs, active, batch, syncs, older, orphans, directory, users, staged>>
  BY DEF AdminFails
<1>2. TablesInv' /\ UsersInv' /\ StagedInv' /\ DOMAIN users' = DOMAIN users
  BY <1>1, EventTables, TablesStay
<1> QED BY <1>1, <1>2, NextRowInv, IdleSound, AdminMoves

LEMMA CrashInv ==
    ASSUME IInv, Crash
    PROVE  IInv'
<1>1. /\ active' = {} /\ batch' = {} /\ older' = {} /\ Event /\ Orphaned(Sync)
      /\ syncs' = [s \in Sync |-> IdleSync] /\ admins' = [a \in Admin |-> IdleAdmin]
      /\ UNCHANGED <<configs, directory, users, staged>>
  BY DEF Crash
<1>2. orphans' \in [Config -> Nat] /\ events' \in Nat
  <2>1. Sync \in SUBSET Sync
    OBVIOUS
  <2> QED BY <1>1, <2>1, OrphanedTyped DEF Event, IInv, TablesInv
<1>3. TablesInv' /\ FlagsInv'
  BY <1>1, <1>2 DEF IInv, TablesInv, FlagsInv
<1>4. SyncsInv' /\ AdminsInv'
  BY <1>1, IdleSound DEF SyncsInv, AdminsInv
<1>5. UsersInv' /\ StagedInv'
  BY <1>1, TablesStay
<1> QED BY <1>3, <1>4, <1>5 DEF IInv

-----------------------------------------------------------------------------
(* The invariant. *)

LEMMA InitInv == Init => IInv
<1> SUFFICES ASSUME Init PROVE IInv
  OBVIOUS
<1>1. TablesInv /\ FlagsInv
  BY NothingPartial DEF Init, TablesInv, FlagsInv
<1>2. UsersInv
  BY AccountsAssumption, PartialIs DEF Init, UsersInv, OwnName
<1>3. StagedInv
  BY NothingPartial DEF Init, StagedInv, ImportedHasUser
<1>4. SyncsInv /\ AdminsInv
  BY IdleSound DEF Init, SyncsInv, AdminsInv
<1> QED BY <1>1, <1>2, <1>3, <1>4 DEF IInv

LEMMA SyncStepInv ==
    ASSUME IInv, NEW s \in Sync, SyncStep(s)
    PROVE  IInv'
<1>1. CASE LoadConfig(s) \/ OpenLog(s) \/ Fetch(s) \/ \E g \in Guid : TakeEntry(s, g)
  BY <1>1, LoadConfigInv, OpenLogInv, FetchInv, TakeEntryInv
<1>2. CASE SeesCancel(s) \/ Route(s) \/ MatchUser(s) \/ LoadUser(s) \/ SaveUser(s) \/ CreateUser(s)
  BY <1>2, SeesCancelInv, RouteInv, MatchUserInv, LoadUserInv, SaveUserInv, CreateUserInv
<1>3. CASE FindStaged(s) \/ Stage(s) \/ Refetch(s) \/ AllTaken(s)
  BY <1>3, FindStagedInv, StageInv, RefetchInv, AllTakenInv
<1>4. CASE ListRemoved(s) \/ MarkAsDisabled(s) \/ LoadRemoved(s) \/ Deactivate(s)
  BY <1>4, ListRemovedInv, MarkAsDisabledInv, LoadRemovedInv, DeactivateInv
<1>5. CASE FinishLog(s) \/ FailLog(s) \/ Release(s) \/ Plan(s)
  BY <1>5, FinishLogInv, FailLogInv, ReleaseInv, PlanInv
<1> QED BY <1>1, <1>2, <1>3, <1>4, <1>5 DEF SyncStep

LEMMA AdminStepInv ==
    ASSUME IInv, NEW a \in Admin, AdminStep(a)
    PROVE  IInv'
BY SaveConfigInv, SaveCancelledInv, MatchImportedInv, SaveImportedInv, MarkImportedInv,
   SaveRejectedInv DEF AdminStep

LEMMA NextInv ==
    ASSUME IInv, Next
    PROVE  IInv'
<1>1. ASSUME NEW c \in Config,
             \/ \E setting \in Settings, given \in BOOLEAN : CreateConfig(c, setting, given)
             \/ DeleteConfig(c) \/ TimePasses(c)
             \/ \E a \in Admin : LoadConfigForUpdate(a, c)
             \/ \E s \in Sync, option \in Options : StartSync(s, c, option)
      PROVE  IInv'
  BY <1>1, CreateConfigInv, DeleteConfigInv, TimePassesInv, LoadConfigForUpdateInv, StartSyncInv
<1>2. ASSUME NEW g \in Guid, NEW data \in Data \cup {None, Nameless}, DirectoryChanges(g, data)
      PROVE  IInv'
  BY <1>2, DirectoryChangesInv
<1>3. CASE Cron
  BY <1>3, CronInv
<1>4. ASSUME NEW s \in Sync, SyncStep(s) \/ EntryFails(s) \/ SyncFails(s) \/ PromiseRejects(s)
      PROVE  IInv'
  BY <1>4, SyncStepInv, EntryFailsInv, SyncFailsInv, PromiseRejectsInv
<1>5. ASSUME NEW a \in Admin,
             \/ AdminStep(a) \/ AdminFails(a)
             \/ \E c \in Config, s \in Sync \cup {None} : FindRunning(a, c, s)
             \/ \E S \in SUBSET DOMAIN staged, pc \in {"import", "reject"} : LoadStaged(a, S, pc)
      PROVE  IInv'
  BY <1>5, AdminStepInv, AdminFailsInv, FindRunningInv, LoadStagedInv
<1>6. CASE Crash
  BY <1>6, CrashInv
<1> QED BY <1>1, <1>2, <1>3, <1>4, <1>5, <1>6 DEF Next

LEMMA StepInv == IInv /\ [Next]_vars => IInv'
<1> SUFFICES ASSUME IInv, [Next]_vars PROVE IInv'
  OBVIOUS
<1>1. CASE Next
  BY <1>1, NextInv
<1>2. CASE UNCHANGED vars
  <2>1. TablesInv' /\ UNCHANGED <<active, syncs, users, staged, admins>>
    BY <1>2 DEF vars, IInv, TablesInv
  <2> QED BY <2>1, OnlyTables
<1> QED BY <1>1, <1>2

THEOREM Invariance == Spec => []IInv
BY InitInv, StepInv, PTL DEF Spec

-----------------------------------------------------------------------------
(* Every variable keeps its type: configurations, syncs, users, staged rows *)
(* and requests (ldap.service.ts, ldap-sync.service.ts,                     *)
(* staged-user.service.ts).                                                 *)
THEOREM LdapSyncTyped == Spec => []TypeOK
<1>1. IInv => TypeOK
  BY DEF IInv, TablesInv, UsersInv, StagedInv, SyncsInv, AdminsInv, TypeOK
<1> QED BY <1>1, Invariance, PTL

(* While activeSyncs has the flag of a configuration, a sync of it runs     *)
(* that will remove the flag, whatever failed, was cancelled or overlapped  *)
(* (startSync and cancelSync of ldap.service.ts).                           *)
THEOREM FlagsAreRemoved == Spec => []FlagHasOwner
<1>1. IInv => FlagHasOwner
  BY DEF IInv, FlagsInv, FlagHasOwner, Underway
<1> QED BY <1>1, Invariance, PTL

(* What a sweep takes away: each user it deactivates and each staged row it *)
(* disables has an identity of which the answer had no mapped entry, also   *)
(* when identities share a username (deactivateRemovedUsersDirect and       *)
(* markRemovedUsersAsDisabled of ldap-sync.service.ts).                     *)
SweptIsAbsent ==
    \A s \in Sync :
        /\ syncs[s].pc = "disable" => syncs[s].removed \cap DOMAIN syncs[s].found = {}
        /\ syncs[s].pc \in {"each", "deactivate"} =>
              \A n \in syncs[s].removed : Gone(n, syncs[s].found)
        /\ syncs[s].pc = "deactivate" => Gone(syncs[s].work.user, syncs[s].found)

THEOREM SweepsTakeTheAbsent == Spec => []SweptIsAbsent
<1>1. IInv => SweptIsAbsent
  BY DEF IInv, SyncsInv, Sound, Sweeps, SweptIsAbsent
<1> QED BY <1>1, Invariance, PTL

(* A sweep leaves alone every row and every user of whom the answer had a   *)
(* mapped entry, unless another identity has or had the username, whatever  *)
(* failed or was cancelled before it (performSync of ldap-sync.service.ts). *)
THEOREM SweepsSpareThePresent == Spec => []SweepsOnlyAbsent
<1>1. IInv => SweepsOnlyAbsent
  <2> SUFFICES ASSUME IInv, NEW s \in Sync
               PROVE  /\ syncs[s].pc = "disable" => syncs[s].removed \cap DOMAIN syncs[s].found = {}
                      /\ syncs[s].pc \in {"each", "deactivate"} =>
                            \A g \in DOMAIN syncs[s].found : Unshared(g) =>
                                NameOf[g] \notin syncs[s].removed \cup {syncs[s].work.user}
    BY DEF SweepsOnlyAbsent
  <2> DEFINE run == syncs[s]
  <2>1. Sound(run, DOMAIN users) /\ DOMAIN run.found \subseteq Guid
    BY SyncSound, PartialIs DEF Run
  <2>2. run.pc = "disable" => run.removed \cap DOMAIN run.found = {}
    BY <2>1 DEF Sound, Sweeps
  <2>3. ASSUME NEW g \in DOMAIN run.found, Unshared(g), NEW n, Gone(n, run.found)
        PROVE  NameOf[g] # n
    BY <2>1, <2>3 DEF Unshared, Gone
  <2>4. ASSUME run.pc \in {"each", "deactivate"}, NEW g \in DOMAIN run.found, Unshared(g)
        PROVE  NameOf[g] \notin run.removed \cup {run.work.user}
    <3>1. NameOf[g] \notin run.removed
      BY <2>1, <2>3, <2>4 DEF Sound, Sweeps
    <3>2. CASE run.pc = "each"
      <4>1. run.work.user = None
        BY <2>1, <3>2, Constants DEF Sound, Sweeps, OnEntry
      <4> QED BY <2>1, <3>1, <4>1, Constants
    <3>3. CASE run.pc = "deactivate"
      <4>1. Gone(run.work.user, run.found)
        BY <2>1, <3>3 DEF Sound, Sweeps
      <4> QED BY <2>3, <2>4, <3>1, <4>1
    <3> QED BY <2>4, <3>2, <3>3
  <2> QED BY <2>2, <2>4
<1> QED BY <1>1, Invariance, PTL

(* An imported row names the existing user of its identity, whatever        *)
(* overlapped or stopped importUsers (staged-user.service.ts).              *)
THEOREM ImportsHaveUsers == Spec => []ImportedHasUser
<1>1. IInv => ImportedHasUser
  BY DEF IInv, StagedInv
<1> QED BY <1>1, Invariance, PTL
=============================================================================

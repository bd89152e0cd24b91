------------------------------- MODULE LdapSync -------------------------------
(***************************************************************************)
(* LDAP synchronisation: LdapService starts, schedules and cancels syncs,  *)
(* LdapSyncService.performSync copies the directory into the user table or *)
(* the staging table, and StagedUserService imports or rejects what was    *)
(* staged.                                                                 *)
(*                                                                         *)
(* One Node.js process: an action is one query and the code up to the next *)
(* await.  performSync runs beside the handler that started it, so several *)
(* of them, also of one configuration, and the administrators' requests    *)
(* interleave at every query, and each save writes back the copy it read.  *)
(* UsersService.deleteUser is left out: no user goes while syncs run.      *)
(***************************************************************************)
EXTENDS Naturals, FiniteSets

CONSTANTS
    Config,
    Guid,        \* identities in the directory: entryUUID or the hash of the DN
    Name,        \* usernames, the unique key of the user table
    NameOf,      \* [Guid -> Name]: the username of an entry, when it has one
    Mail,        \* what is overwritten of an entry: mail, display name
    Attribute,   \* what is merged into the metadata of a user
    Nameless,    \* an entry without a username
    Sync,        \* syncs whose log or execution matters at one time
    Admin,       \* administrators' requests in flight at one time
    None,
    Settings,    \* what an administrator can set in a configuration
    Options,     \* the options of a manual sync: [dry, full : BOOLEAN]
    Accounts,    \* the user tables there can be before the first sync
    MaxEvents    \* bound: directory and configuration changes, cancellations and faults

Mode == {"full", "new-only", "disabled"}
Setting == [enabled : BOOLEAN, autoSync : BOOLEAN, mode : Mode, removes : BOOLEAN]

ASSUME NameAssumption == NameOf \in [Guid -> Name]
\* What is copied of an entry.
Data == {[mail |-> m, attrs |-> kept] : m \in Mail, kept \in SUBSET Attribute}

ASSUME NoneAssumption == None \notin Config \cup Guid \cup Name \cup Data \cup Sync
ASSUME NamelessAssumption == Nameless \notin Data \cup {None}
ASSUME SettingsAssumption == Settings \subseteq Setting
ASSUME OptionsAssumption == Options \subseteq [dry : BOOLEAN, full : BOOLEAN]
ASSUME BoundAssumption == MaxEvents \in Nat
ASSUME SyncAssumption == IsFiniteSet(Sync)

VARIABLES
    configs,    \* table ldap_config: a function on the configurations there are
    active,     \* activeSyncs, in memory
    batch,      \* the due configurations handleScheduledSync still has to start
    syncs,      \* performSync in flight, each with the row of its ldap_sync_log
    older,      \* pairs of syncs in progress, the one that started first first
    orphans,    \* how many logs of a configuration say in_progress for ever
    directory,  \* the LDAP server
    users,      \* table user: a function on the usernames there are
    staged,     \* table staged_user: a function on the identities there are
    admins,     \* administrators' requests in flight
    events      \* counts events, up to MaxEvents

vars == <<configs, active, batch, syncs, older, orphans, directory, users, staged, admins,
          events>>

\* The columns of user that a sync reads or writes; imported says that the
\* metadata came from importUser, which adds keys the directory does not have.
User == [guid : Guid \cup {None}, data : Data \cup {None}, source : {"local", "ldap"},
         active : BOOLEAN, imported : BOOLEAN]
NoUser == [guid |-> None, data |-> None, source |-> "local", active |-> FALSE, imported |-> FALSE]

ASSUME AccountsAssumption ==
    \A table \in Accounts :
        /\ DOMAIN table \subseteq Name /\ table \in [DOMAIN table -> User]
        /\ \A n \in DOMAIN table : table[n].guid = None \/ NameOf[table[n].guid] = n

StagedStatus == {"NEW", "UPDATED", "IMPORTED", "DISABLED", "REJECTED"}
Importable == {"NEW", "UPDATED"}
Staged == [status : StagedStatus, data : Data, user : Name \cup {None}, config : Config]

\* nextSyncAt: unset, in the future, or reached.
ConfigRow == [enabled : BOOLEAN, autoSync : BOOLEAN, mode : Mode, removes : BOOLEAN,
            next : {"unset", "later", "due"}]
NoConfig == [enabled |-> FALSE, autoSync |-> FALSE, mode |-> "full", removes |-> FALSE,
             next |-> "unset"]

\* The columns performSync reads.
Read(row) == [mode |-> row.mode, removes |-> row.removes, autoSync |-> row.autoSync]

Nothing == [x \in {} |-> None]
Put(f, x, value) == [y \in DOMAIN f \cup {x} |-> IF y = x THEN value ELSE f[y]]
Without(f, S) == [x \in DOMAIN f \ S |-> f[x]]

\* What performSync holds of the entry it is working on: the matching user, the
\* copy of the row it will save, and the status it computed for staging.
NoWork == [guid |-> None, user |-> None, row |-> NoUser, verdict |-> "NEW"]

\* status is the column of the sync's log; of an ended sync only that it is over
\* is kept, since nothing but the history reads its row again.
IdleSync == [pc |-> "idle", status |-> "over", config |-> None, setting |-> Read(NoConfig),
             dry |-> FALSE, full |-> FALSE, found |-> Nothing, todo |-> {},
             work |-> NoWork, errors |-> FALSE, removed |-> {}]
IdleAdmin == [pc |-> "idle", rows |-> Nothing, guid |-> None, config |-> None,
              setting |-> NoConfig, sync |-> None]

Init ==
    /\ configs = Nothing /\ active = {} /\ batch = {}
    /\ syncs = [s \in Sync |-> IdleSync] /\ older = {}
    /\ orphans = [c \in Config |-> 0]
    /\ directory \in [Guid -> Data \cup {None, Nameless}]
    /\ users \in Accounts /\ staged = Nothing
    /\ admins = [a \in Admin |-> IdleAdmin]
    /\ events = 0

Event == events < MaxEvents /\ events' = events + 1

InProgress == {s \in Sync : syncs[s].status = "in_progress"}

Become(s, run) == syncs' = [syncs EXCEPT ![s] = run]
Goto(s, pc) == Become(s, [syncs[s] EXCEPT !.pc = pc])

\* Executions end whose logs still say in_progress: nothing will change them.
Orphaned(S) ==
    orphans' = [c \in Config |-> orphans[c] + Cardinality({s \in S \cap InProgress : syncs[s].config = c})]

-----------------------------------------------------------------------------
(* Configurations. *)

(* autoSync may be left out of the request: the column's default is true, but *)
(* nextSyncAt is set only when the request says so.                           *)
CreateConfig(c, setting, given) ==
    /\ c \notin DOMAIN configs /\ events = 0
    /\ given \/ setting.autoSync
    /\ configs' = Put(configs, c,
           [enabled |-> setting.enabled, autoSync |-> setting.autoSync, mode |-> setting.mode,
            removes |-> setting.removes,
            next |-> IF given /\ setting.autoSync THEN "later" ELSE "unset"])
    /\ UNCHANGED <<active, batch, syncs, older, orphans, directory, users, staged, admins, events>>

LoadConfigForUpdate(a, c) ==
    /\ admins[a].pc = "idle" /\ c \in DOMAIN configs
    /\ Event
    /\ admins' = [admins EXCEPT ![a] = [@ EXCEPT !.pc = "config", !.config = c,
                                                 !.setting = configs[c]]]
    /\ UNCHANGED <<configs, active, batch, syncs, older, orphans, directory, users, staged>>

(* updateConfig saves the loaded row with the request's fields.  Without a   *)
(* new interval or autoSync it writes the nextSyncAt it loaded, and an       *)
(* undefined nextSyncAt leaves the column alone.  A row deleted meanwhile is *)
(* inserted again.                                                           *)
NextSync(row, current, given) ==
    IF given /\ row.autoSync THEN "later" ELSE IF given THEN current ELSE row.next

SaveConfig(a, setting, given) ==
    LET c == admins[a].config
        row == [admins[a].setting EXCEPT !.enabled = setting.enabled, !.mode = setting.mode,
                    !.removes = setting.removes,
                    !.autoSync = IF given THEN setting.autoSync ELSE @]
        current == IF c \in DOMAIN configs THEN configs[c].next ELSE "unset"
    IN
    /\ admins[a].pc = "config"
    /\ configs' = Put(configs, c, [row EXCEPT !.next = NextSync(row, current, given)])
    /\ admins' = [admins EXCEPT ![a] = IdleAdmin]
    /\ UNCHANGED <<active, batch, syncs, older, orphans, directory, users, staged, events>>

(* The logs of the configuration and what they staged go with it (CASCADE). *)
DeleteConfig(c) ==
    /\ c \in DOMAIN configs
    /\ Event
    /\ configs' = Without(configs, {c})
    /\ staged' = Without(staged, {g \in DOMAIN staged : staged[g].config = c})
    /\ syncs' = [s \in Sync |->
                    IF syncs[s].config = c THEN [syncs[s] EXCEPT !.status = "over"] ELSE syncs[s]]
    /\ orphans' = [orphans EXCEPT ![c] = 0]
    /\ older' = {p \in older : \A s \in {p[1], p[2]} : syncs[s].config # c}
    /\ UNCHANGED <<active, batch, directory, users, admins>>

(* The directory changes: an entry appears, disappears or is edited. *)
DirectoryChanges(g, data) ==
    /\ data # directory[g]
    /\ Event
    /\ directory' = [directory EXCEPT ![g] = data]
    /\ UNCHANGED <<configs, active, batch, syncs, older, orphans, users, staged, admins>>

\* nextSyncAt is reached.
TimePasses(c) ==
    /\ c \in DOMAIN configs /\ configs[c].next = "later"
    /\ configs' = [configs EXCEPT ![c].next = "due"]
    /\ UNCHANGED <<active, batch, syncs, older, orphans, directory, users, staged, admins, events>>

-----------------------------------------------------------------------------
(* startSync and handleScheduledSync. *)

Due(c) == c \in DOMAIN configs /\ configs[c].enabled /\ configs[c].autoSync
              /\ configs[c].next = "due"

\* A slot whose log nobody reads any more.
Unused(s) == syncs[s].pc = "idle" /\ \A a \in Admin : admins[a].sync # s
Free(s) == Unused(s) /\ s = CHOOSE x \in Sync : Unused(x)

\* Mutant: the flag is set with the check, before getConfig can throw.
BeginMarked(s, c, option) ==
    /\ c \notin active
    /\ active' = active \cup {c}
    /\ Become(s, [IdleSync EXCEPT !.pc = "config", !.config = c,
                                  !.dry = option.dry, !.full = option.full])

(* startSync: the check of activeSyncs comes before the first await. *)
Begin(s, c, option) ==
    /\ c \notin active
    /\ Become(s, [IdleSync EXCEPT !.pc = "config", !.config = c,
                                  !.dry = option.dry, !.full = option.full])
    /\ UNCHANGED active

StartSync(s, c, option) ==
    /\ Free(s)
    /\ Begin(s, c, option)
    /\ UNCHANGED <<configs, batch, older, orphans, directory, users, staged, admins, events>>

(* The cron job, every five minutes: long enough for the previous one to be *)
(* over.                                                                    *)
FindDue ==
    /\ batch = {} /\ {c \in Config : Due(c)} # {}
    /\ batch' = {c \in Config : Due(c)}
    /\ UNCHANGED <<configs, active, syncs, older, orphans, directory, users, staged, admins, events>>

Scheduled == [dry |-> FALSE, full |-> FALSE]

\* A sync in progress makes startSync throw; the job goes on with the next one.
\* (It awaits each startSync; here the next may begin before that returns.)
StartDue(s, c) ==
    /\ c \in batch
    /\ batch' = batch \ {c}
    /\ \/ Free(s) /\ Begin(s, c, Scheduled)
       \/ c \in active /\ UNCHANGED <<active, syncs>>
    /\ UNCHANGED <<configs, older, orphans, directory, users, staged, admins, events>>

LoadConfig(s) ==
    LET c == syncs[s].config IN
    /\ syncs[s].pc = "config"
    /\ IF c \in DOMAIN configs /\ configs[c].enabled
         THEN Become(s, [syncs[s] EXCEPT !.pc = "log", !.setting = Read(configs[c])])
         ELSE Become(s, IdleSync)
    /\ UNCHANGED <<configs, active, batch, older, orphans, directory, users, staged, admins, events>>

(* The log is saved, the flag set and performSync started without awaiting it. *)
OpenLog(s) ==
    LET c == syncs[s].config IN
    /\ syncs[s].pc = "log"
    /\ IF c \in DOMAIN configs
         THEN /\ Become(s, [syncs[s] EXCEPT !.pc = "fetch", !.status = "in_progress"])
              /\ active' = active \cup {c}
              /\ older' = older \cup {<<o, s>> : o \in InProgress}
         ELSE Become(s, IdleSync) /\ UNCHANGED <<active, older>>
    /\ UNCHANGED <<configs, batch, orphans, directory, users, staged, admins, events>>

-----------------------------------------------------------------------------
(* performSync. *)

ldapOnly == <<configs, active, batch, older, orphans, directory, admins, events>>

Mapped == {g \in Guid : directory[g] \notin {None, Nameless}}

(* Binds and fetches all entries, as one answer of the server; the mapper    *)
(* gives null for one without a username, which is dropped.                  *)
Fetch(s) ==
    /\ syncs[s].pc = "fetch"
    /\ Become(s, [syncs[s] EXCEPT !.pc = "next", !.todo = Mapped,
                                  !.found = [g \in Mapped |-> directory[g]]])
    /\ UNCHANGED <<users, staged, ldapOnly>>

NextEntry(s, errors) ==
    Become(s, [syncs[s] EXCEPT !.pc = "next", !.work = NoWork, !.errors = @ \/ errors])

\* Done with the entries and the users.
Finished(run) == [run EXCEPT !.pc = "finish", !.found = Nothing, !.work = NoWork,
                                !.removed = {}]

\* The externalIds collected so far.
Seen(s) == DOMAIN syncs[s].found \ syncs[s].todo

(* Before each entry the log is read again. *)
TakeEntry(s, g) ==
    /\ syncs[s].pc = "next" /\ g \in syncs[s].todo
    /\ syncs[s].status # "cancelled"
    /\ Become(s, [syncs[s] EXCEPT !.todo = @ \ {g}, !.work = [NoWork EXCEPT !.guid = g],
                     !.pc = IF syncs[s].setting.mode = "new-only" THEN "route" ELSE "match"])
    /\ UNCHANGED <<users, staged, ldapOnly>>

\* Mutant: break instead of return.
SeesCancelBreak(s) ==
    /\ syncs[s].pc = "next" /\ syncs[s].todo # {}
    /\ syncs[s].status = "cancelled"
    /\ Goto(s, "remove")
    /\ UNCHANGED <<users, staged, ldapOnly>>

(* A cancelled sync returns: nothing is removed and the log stays as it is. *)
SeesCancel(s) ==
    /\ syncs[s].pc = "next" /\ syncs[s].todo # {}
    /\ syncs[s].status = "cancelled"
    /\ Become(s, [Finished(syncs[s]) EXCEPT !.pc = "release", !.todo = {}])
    /\ UNCHANGED <<users, staged, ldapOnly>>

(* listUsers by externalId and, when there is none, by username: an identity *)
(* has one username, which another identity may have had or have too, and a  *)
(* username has one row, so both find the same row.                          *)
Match(g) == IF NameOf[g] \in DOMAIN users THEN NameOf[g] ELSE None

(* stagingMode 'new-only': existing users are synced directly, new ones staged. *)
Direct(run) ==
    \/ run.setting.mode = "disabled"
    \/ run.setting.mode = "new-only" /\ run.work.user # None

Route(s) ==
    /\ syncs[s].pc = "route"
    /\ Become(s, [syncs[s] EXCEPT !.pc = "match", !.work.user = Match(syncs[s].work.guid)])
    /\ UNCHANGED <<users, staged, ldapOnly>>

\* Mutant: isActive is not compared.
DataDiffers(user, data) == user.data # data \/ user.imported

HasUserDataChanged(user, data) == user.data # data \/ ~user.active \/ user.imported

\* createOrUpdate compares mail and display name alone.
MailDiffers(user, data) == user.data = None \/ user.data.mail # data.mail

(* syncUserDirect and stageUser look the user up, count in a dry run, and skip *)
(* a user whose data did not change unless the sync is a full one.             *)
MatchUser(s) ==
    LET run == syncs[s]
        g == run.work.guid
        user == Match(g)
        data == run.found[g]
    IN
    /\ run.pc = "match"
    /\ IF run.dry \/ (user # None /\ ~run.full /\ ~HasUserDataChanged(users[user], data))
         THEN NextEntry(s, FALSE)
         ELSE Become(s, [run EXCEPT
                  !.work.user = user,
                  !.work.row = IF Direct([run EXCEPT !.work.user = user]) /\ user # None
                               THEN users[user] ELSE @,
                  !.work.verdict = IF user # None /\ MailDiffers(users[user], data)
                                   THEN "UPDATED" ELSE "NEW",
                  !.pc = IF ~Direct(run) THEN "find" ELSE IF user # None THEN "load" ELSE "create"])
    /\ UNCHANGED <<users, staged, ldapOnly>>

\* The metadata the user had keeps the attributes the entry has no more.
Merge(old, new) ==
    IF old = None THEN new ELSE [new EXCEPT !.attrs = @ \cup old.attrs]

(* UsersService.updateUser loads the row again and takes the request's fields *)
(* over, whose metadata were merged with those of the match.                  *)
LoadUser(s) ==
    LET work == syncs[s].work IN
    /\ syncs[s].pc = "load"
    /\ Become(s, [syncs[s] EXCEPT !.pc = "save", !.work.row =
           [users[work.user] EXCEPT !.data = Merge(work.row.data, syncs[s].found[work.guid]),
                                    !.active = TRUE]])
    /\ UNCHANGED <<users, staged, ldapOnly>>

SaveUser(s) ==
    LET work == syncs[s].work IN
    /\ syncs[s].pc = "save"
    /\ users' = [users EXCEPT ![work.user] = work.row]
    /\ NextEntry(s, FALSE)
    /\ UNCHANGED <<staged, ldapOnly>>

\* Mutant: authSource is left out.
NewUserUnsourced(g, data, imported) ==
    [guid |-> g, data |-> data, source |-> None, active |-> TRUE, imported |-> imported]

NewUser(g, data, imported) ==
    [guid |-> g, data |-> data, source |-> "ldap", active |-> TRUE, imported |-> imported]

\* The insert fails when the username was taken meanwhile.
CreateUser(s) ==
    LET g == syncs[s].work.guid IN
    /\ syncs[s].pc = "create"
    /\ IF NameOf[g] \in DOMAIN users
         THEN NextEntry(s, TRUE) /\ UNCHANGED users
         ELSE /\ users' = Put(users, NameOf[g], NewUser(g, syncs[s].found[g], FALSE))
              /\ NextEntry(s, FALSE)
    /\ UNCHANGED <<staged, ldapOnly>>

(* StagedUserService.createOrUpdate: an imported or rejected row starts again; *)
(* any other keeps its status unless the data of an existing user changed.     *)
StatusAfter(status, verdict) ==
    IF status \in {"IMPORTED", "REJECTED"} \/ verdict = "UPDATED" THEN verdict ELSE status

FindStaged(s) ==
    LET work == syncs[s].work IN
    /\ syncs[s].pc = "find"
    /\ IF work.guid \in DOMAIN staged
         THEN Become(s, [syncs[s] EXCEPT !.pc = "stage",
                  !.work.verdict = StatusAfter(staged[work.guid].status, @)])
         ELSE Goto(s, "insert")
    /\ UNCHANGED <<users, staged, ldapOnly>>

\* The row of the log went with its configuration.
LogGone(s) == syncs[s].status = "over"

\* userId is written when the entry matched a user.
StagedRow(s) ==
    LET work == syncs[s].work IN
    [status |-> work.verdict, data |-> syncs[s].found[work.guid], config |-> syncs[s].config,
     user |-> IF work.user # None THEN work.user
              ELSE IF work.guid \in DOMAIN staged THEN staged[work.guid].user ELSE None]

(* A row staged by another sync meanwhile refuses the insert (23505): the row is *)
(* read again and saved with the computed status.                                *)
Stage(s) ==
    LET g == syncs[s].work.guid IN
    /\ syncs[s].pc \in {"stage", "insert"}
    /\ IF LogGone(s)
         THEN NextEntry(s, TRUE) /\ UNCHANGED staged
         ELSE IF syncs[s].pc = "insert" /\ g \in DOMAIN staged
         THEN Goto(s, "refetch") /\ UNCHANGED staged
         ELSE staged' = Put(staged, g, StagedRow(s)) /\ NextEntry(s, FALSE)
    /\ UNCHANGED <<users, ldapOnly>>

Refetch(s) ==
    /\ syncs[s].pc = "refetch"
    /\ IF syncs[s].work.guid \in DOMAIN staged THEN Goto(s, "stage") ELSE NextEntry(s, TRUE)
    /\ UNCHANGED <<users, staged, ldapOnly>>

-----------------------------------------------------------------------------
(* The users that were not in the directory, and the end of a sync. *)

AllTaken(s) ==
    /\ syncs[s].pc = "next" /\ syncs[s].todo = {}
    /\ IF syncs[s].setting.removes /\ ~syncs[s].dry THEN Goto(s, "remove")
                                                    ELSE Become(s, Finished(syncs[s]))
    /\ UNCHANGED <<users, staged, ldapOnly>>

(* The active LDAP users, of every configuration, whose identity was not seen. *)
Removed(s) ==
    {n \in DOMAIN users : /\ users[n].source = "ldap" /\ users[n].active
                          /\ users[n].guid # None /\ users[n].guid \notin Seen(s)}

ListRemoved(s) ==
    /\ syncs[s].pc = "remove"
    /\ IF Removed(s) = {} THEN Become(s, Finished(syncs[s]))
       ELSE IF syncs[s].setting.mode = "disabled"
       THEN Become(s, [syncs[s] EXCEPT !.pc = "each", !.removed = Removed(s)])
       ELSE Become(s, [syncs[s] EXCEPT !.pc = "disable",
                                       !.removed = {users[n].guid : n \in Removed(s)}])
    /\ UNCHANGED <<users, staged, ldapOnly>>

(* markAsDisabled: one update of the rows that wait for an administrator. *)
MarkAsDisabled(s) ==
    /\ syncs[s].pc = "disable"
    /\ IF LogGone(s) THEN UNCHANGED staged
       ELSE staged' = [g \in DOMAIN staged |->
                IF g \in syncs[s].removed /\ staged[g].status \in Importable
                THEN [staged[g] EXCEPT !.status = "DISABLED", !.config = syncs[s].config]
                ELSE staged[g]]
    /\ Become(s, Finished(syncs[s]))
    /\ UNCHANGED <<users, ldapOnly>>

(* deactivateRemovedUsersDirect: updateUser for one user after the other. *)
LoadRemoved(s) ==
    /\ syncs[s].pc = "each"
    /\ \/ syncs[s].removed = {} /\ Become(s, Finished(syncs[s]))
       \/ \E n \in syncs[s].removed :
              Become(s, [syncs[s] EXCEPT !.pc = "deactivate", !.removed = @ \ {n},
                                         !.work.user = n, !.work.row = users[n]])
    /\ UNCHANGED <<users, staged, ldapOnly>>

Deactivate(s) ==
    LET work == syncs[s].work IN
    /\ syncs[s].pc = "deactivate"
    /\ users' = [users EXCEPT ![work.user] = [work.row EXCEPT !.active = FALSE]]
    /\ Become(s, [syncs[s] EXCEPT !.pc = "each", !.work = NoWork])
    /\ UNCHANGED <<staged, ldapOnly>>

Unordered(s) == {p \in older : s \notin {p[1], p[2]}}

\* Saving a log without a configuration fails.
Lost(s) == syncs[s].config \notin DOMAIN configs

(* The whole log is saved, also over a cancellation that came too late. *)
FinishLog(s) ==
    /\ syncs[s].pc = "finish"
    /\ IF Lost(s)
         THEN Goto(s, "fail") /\ UNCHANGED older
         ELSE /\ Become(s, [syncs[s] EXCEPT !.pc = "release",
                                !.status = IF syncs[s].errors THEN "failed" ELSE "completed"])
              /\ older' = Unordered(s)
    /\ UNCHANGED <<configs, active, batch, orphans, directory, users, staged, admins, events>>

(* A failing save of the failure rejects the promise. *)
FailLog(s) ==
    LET c == syncs[s].config IN
    /\ syncs[s].pc = "fail"
    /\ IF Lost(s)
         THEN Become(s, IdleSync) /\ active' = active \ {c}
         ELSE Become(s, [syncs[s] EXCEPT !.pc = "release", !.status = "failed"])
              /\ UNCHANGED active
    /\ older' = Unordered(s)
    /\ UNCHANGED <<configs, batch, orphans, directory, users, staged, admins, events>>

(* then(): the flag goes, and after a real run the next sync is planned. *)
Release(s) ==
    /\ syncs[s].pc = "release"
    /\ active' = active \ {syncs[s].config}
    /\ IF syncs[s].dry THEN Become(s, IdleSync) ELSE Goto(s, "plan")
    /\ UNCHANGED <<configs, batch, older, orphans, directory, users, staged, admins, events>>

\* Mutant: the next time is not computed again.
PlanOnce(s) ==
    /\ syncs[s].pc = "plan"
    /\ Become(s, IdleSync)
    /\ UNCHANGED <<configs, active, batch, older, orphans, directory, users, staged, admins, events>>

Plan(s) ==
    LET c == syncs[s].config IN
    /\ syncs[s].pc = "plan"
    /\ configs' = IF c \in DOMAIN configs /\ syncs[s].setting.autoSync
                  THEN [configs EXCEPT ![c].next = "later"] ELSE configs
    /\ Become(s, IdleSync)
    /\ UNCHANGED <<active, batch, older, orphans, directory, users, staged, admins, events>>

-----------------------------------------------------------------------------
(* cancelSync. *)

\* The log that started last: an orphaned one only when nothing runs.
Latest(c, s) ==
    \/ s \in InProgress /\ syncs[s].config = c /\ \A o \in InProgress : <<s, o>> \notin older
    \/ InProgress = {} /\ s = None /\ orphans[c] > 0

FindRunning(a, c, s) ==
    /\ admins[a].pc = "idle" /\ Latest(c, s)
    /\ Event
    /\ admins' = [admins EXCEPT ![a] = [@ EXCEPT !.pc = "cancel", !.sync = s, !.config = c]]
    /\ UNCHANGED <<configs, active, batch, syncs, older, orphans, directory, users, staged>>

(* The loaded log is saved as cancelled, whatever it has become since, and the *)
(* flag removed, although the sync still runs.                                 *)
SaveCancelled(a) ==
    LET s == admins[a].sync  c == admins[a].config IN
    /\ admins[a].pc = "cancel"
    /\ \/ /\ c \notin DOMAIN configs
          /\ UNCHANGED <<syncs, orphans, older, active>>
       \/ /\ c \in DOMAIN configs
          /\ IF s = None THEN UNCHANGED syncs
             ELSE syncs' = [syncs EXCEPT ![s].status = IF LogGone(s) THEN @ ELSE "cancelled"]
          /\ orphans' = [orphans EXCEPT ![c] = IF s = None /\ @ > 0 THEN @ - 1 ELSE @]
          /\ older' = Unordered(s)
          /\ active' = active \ {c}
    /\ admins' = [admins EXCEPT ![a] = IdleAdmin]
    /\ UNCHANGED <<configs, batch, directory, users, staged, events>>

-----------------------------------------------------------------------------
(* importUsers and rejectUsers work on the rows they loaded first. *)

Waiting(S) == {g \in S : staged[g].status \in Importable}

LoadStaged(a, S, pc) ==
    /\ admins[a].pc = "idle" /\ Waiting(S) # {}
    /\ admins' = [admins EXCEPT ![a] = [@ EXCEPT !.pc = pc,
                                                 !.rows = [g \in Waiting(S) |-> staged[g]]]]
    /\ UNCHANGED <<configs, active, batch, syncs, older, orphans, directory, users, staged, events>>

\* Done with a row, and with the request when it was the last one.
NextRow(a, pc) ==
    LET rows == Without(admins[a].rows, {admins[a].guid}) IN
    admins' = [admins EXCEPT ![a] = IF DOMAIN rows = {} THEN IdleAdmin
                                    ELSE [IdleAdmin EXCEPT !.pc = pc, !.rows = rows]]

adminOnly == <<configs, active, batch, syncs, older, orphans, directory, events>>

MatchImported(a) ==
    /\ admins[a].pc = "import"
    /\ \E g \in DOMAIN admins[a].rows :
           admins' = [admins EXCEPT ![a] =
               [@ EXCEPT !.guid = g,
                         !.pc = IF Match(g) = None THEN "createImported" ELSE "saveImported"]]
    /\ UNCHANGED <<users, staged, adminOnly>>

\* Mutant: the row is marked although its user was not saved.
SaveImportedMarked(a) ==
    LET g == admins[a].guid  row == admins[a].rows[g] IN
    /\ admins[a].pc \in {"createImported", "saveImported"}
    /\ IF g \in DOMAIN staged
         THEN staged' = [staged EXCEPT ![g] = [row EXCEPT !.status = "IMPORTED", !.user = NameOf[g]]]
         ELSE UNCHANGED staged
    /\ NextRow(a, "import")
    /\ UNCHANGED <<users, adminOnly>>

(* updateUser writes every column importUser sets, so what it loaded does not  *)
(* matter; createUser fails when the username was taken meanwhile.             *)
SaveImported(a) ==
    LET g == admins[a].guid
        user == NewUser(g, admins[a].rows[g].data, TRUE)
    IN
    /\ admins[a].pc \in {"createImported", "saveImported"}
    /\ IF admins[a].pc = "createImported" /\ NameOf[g] \in DOMAIN users
         THEN NextRow(a, "import") /\ UNCHANGED users
         ELSE /\ users' = Put(users, NameOf[g], user)
              /\ admins' = [admins EXCEPT ![a].pc = "mark"]
    /\ UNCHANGED <<staged, adminOnly>>

(* The loaded row is saved with its new status; a row deleted meanwhile would *)
(* be inserted for a log that is gone, which fails.                           *)
MarkImported(a) ==
    LET g == admins[a].guid IN
    /\ admins[a].pc = "mark"
    /\ IF g \in DOMAIN staged
         THEN staged' = [staged EXCEPT ![g] = [admins[a].rows[g] EXCEPT
                                                   !.status = "IMPORTED", !.user = NameOf[g]]]
         ELSE UNCHANGED staged
    /\ NextRow(a, "import")
    /\ UNCHANGED <<users, adminOnly>>

SaveRejected(a) ==
    /\ admins[a].pc = "reject"
    /\ \E g \in DOMAIN admins[a].rows :
           /\ staged' = IF g \in DOMAIN staged
                        THEN [staged EXCEPT ![g] = [admins[a].rows[g] EXCEPT !.status = "REJECTED"]]
                        ELSE staged
           /\ LET rows == Without(admins[a].rows, {g}) IN
              admins' = [admins EXCEPT ![a] = IF DOMAIN rows = {} THEN IdleAdmin
                                              ELSE [@ EXCEPT !.rows = rows]]
    /\ UNCHANGED <<users, adminOnly>>

-----------------------------------------------------------------------------
(* Faults. *)

(* A query on one entry fails: the error is counted and the sync goes on. *)
EntryFails(s) ==
    /\ Event
    /\ syncs[s].pc \in {"route", "match", "load", "save", "create", "find", "stage", "insert", "refetch"}
    /\ NextEntry(s, TRUE)
    /\ UNCHANGED <<configs, active, batch, older, orphans, directory, users, staged, admins>>

(* The bind, the search or a read of the log fails, and so does the sync; the *)
(* removal of users swallows its errors.                                      *)
SyncFails(s) ==
    /\ Event
    /\ \/ syncs[s].pc \in {"fetch", "next", "finish"}
          /\ Become(s, [Finished(syncs[s]) EXCEPT !.pc = "fail", !.todo = {}])
       \/ syncs[s].pc \in {"remove", "disable", "each", "deactivate"}
          /\ Become(s, Finished(syncs[s]))
       \/ syncs[s].pc \in {"config", "log"} /\ Become(s, IdleSync)
    /\ UNCHANGED <<configs, active, batch, older, orphans, directory, users, staged, admins>>

(* The save of a failure, or the update after the sync, fails: catch. *)
PromiseRejects(s) ==
    /\ Event
    /\ syncs[s].pc \in {"fail", "plan"}
    /\ active' = active \ {syncs[s].config}
    /\ Become(s, IdleSync)
    /\ Orphaned({s}) /\ older' = Unordered(s)
    /\ UNCHANGED <<configs, batch, directory, users, staged, admins>>

AdminFails(a) ==
    /\ Event
    /\ \/ admins[a].pc \in {"createImported", "saveImported", "mark"} /\ NextRow(a, "import")
       \/ admins[a].pc \in {"config", "cancel"} /\ admins' = [admins EXCEPT ![a] = IdleAdmin]
    /\ UNCHANGED <<configs, active, batch, syncs, older, orphans, directory, users, staged>>

Crash ==
    /\ Event
    /\ active' = {} /\ batch' = {}
    /\ syncs' = [s \in Sync |-> IdleSync] /\ Orphaned(Sync) /\ older' = {}
    /\ admins' = [a \in Admin |-> IdleAdmin]
    /\ UNCHANGED <<configs, directory, users, staged>>

-----------------------------------------------------------------------------
SyncStep(s) ==
    \/ LoadConfig(s) \/ OpenLog(s) \/ Fetch(s)
    \/ \E g \in Guid : TakeEntry(s, g)
    \/ SeesCancel(s) \/ Route(s) \/ MatchUser(s) \/ LoadUser(s) \/ SaveUser(s) \/ CreateUser(s)
    \/ FindStaged(s) \/ Stage(s) \/ Refetch(s)
    \/ AllTaken(s) \/ ListRemoved(s) \/ MarkAsDisabled(s) \/ LoadRemoved(s) \/ Deactivate(s)
    \/ FinishLog(s) \/ FailLog(s) \/ Release(s) \/ Plan(s)

AdminStep(a) ==
    \/ \E setting \in Settings, given \in BOOLEAN : SaveConfig(a, setting, given)
    \/ SaveCancelled(a)
    \/ MatchImported(a) \/ SaveImported(a) \/ MarkImported(a) \/ SaveRejected(a)

Cron == FindDue \/ \E s \in Sync, c \in Config : StartDue(s, c)

Next ==
    \/ \E c \in Config :
          \/ \E setting \in Settings, given \in BOOLEAN : CreateConfig(c, setting, given)
          \/ DeleteConfig(c) \/ TimePasses(c)
          \/ \E a \in Admin : LoadConfigForUpdate(a, c)
          \/ \E s \in Sync, option \in Options : StartSync(s, c, option)
    \/ \E g \in Guid, data \in Data \cup {None, Nameless} : DirectoryChanges(g, data)
    \/ Cron
    \/ \E s \in Sync : SyncStep(s) \/ EntryFails(s) \/ SyncFails(s) \/ PromiseRejects(s)
    \/ \E a \in Admin :
          \/ AdminStep(a) \/ AdminFails(a)
          \/ \E c \in Config, s \in Sync \cup {None} : FindRunning(a, c, s)
          \/ \E S \in SUBSET DOMAIN staged, pc \in {"import", "reject"} : LoadStaged(a, S, pc)
    \/ Crash

(* Time passes, the cron job keeps running, and the event loop resumes what *)
(* waits for the server or the database, which answer or time out.          *)
Fairness ==
    /\ \A c \in Config : WF_vars(TimePasses(c))
    /\ WF_vars(Cron)
    /\ \A s \in Sync : WF_vars(SyncStep(s))

Spec == Init /\ [][Next]_vars
FairSpec == Spec /\ Fairness

-----------------------------------------------------------------------------
(* Properties. *)

(* Every variable stays in the set of values the tables and handlers allow. *)
Partial(S, T) == UNION {[A -> T] : A \in SUBSET S}
Work == [guid : Guid \cup {None}, user : Name \cup {None}, row : User, verdict : StagedStatus]
SyncPc == {"idle", "config", "log", "fetch", "next", "route", "match", "load", "save", "create",
           "find", "stage", "insert", "refetch", "remove", "disable", "each", "deactivate",
           "finish", "fail", "release", "plan"}
Run == [pc : SyncPc, status : {"over", "in_progress", "completed", "failed", "cancelled"},
        config : Config \cup {None},
        setting : [mode : Mode, removes : BOOLEAN, autoSync : BOOLEAN],
        dry : BOOLEAN, full : BOOLEAN, found : Partial(Guid, Data),
        todo : SUBSET Guid, work : Work, errors : BOOLEAN, removed : SUBSET (Guid \cup Name)]
AdminRequest ==
    [pc : {"idle", "config", "cancel", "import", "reject", "createImported", "saveImported", "mark"},
     rows : Partial(Guid, Staged), guid : Guid \cup {None},
     config : Config \cup {None}, setting : ConfigRow, sync : Sync \cup {None}]

TypeOK ==
    /\ configs \in Partial(Config, ConfigRow)
    /\ active \subseteq Config /\ batch \subseteq Config
    /\ syncs \in [Sync -> Run]
    /\ older \subseteq Sync \X Sync /\ orphans \in [Config -> Nat]
    /\ directory \in [Guid -> Data \cup {None, Nameless}]
    /\ users \in Partial(Name, User)
    /\ staged \in Partial(Guid, Staged)
    /\ admins \in [Admin -> AdminRequest]
    /\ events \in Nat

(* No configuration is locked out: while activeSyncs has its flag, so that   *)
(* startSync refuses another sync, a sync of it is under way and will remove *)
(* the flag; whatever failed, was cancelled or overlapped.                   *)
FlagHasOwner ==
    \A c \in active : \E s \in Sync : syncs[s].config = c /\ syncs[s].pc \notin {"idle", "plan"}

\* No other identity has, or had, the username of g.
Unshared(g) == \A h \in Guid : NameOf[h] = NameOf[g] => h = g

(* A sync deactivates users and disables staged rows only of identities that *)
(* the directory's complete answer did not have a mapped entry of: also when *)
(* it is cancelled or fails half way through the entries.  A username that   *)
(* passed from one identity to another may be deactivated all the same.      *)
SweepsOnlyAbsent ==
    \A s \in Sync :
        /\ syncs[s].pc = "disable" => syncs[s].removed \cap DOMAIN syncs[s].found = {}
        /\ syncs[s].pc \in {"each", "deactivate"} =>
              \A g \in DOMAIN syncs[s].found : Unshared(g) =>
                 NameOf[g] \notin syncs[s].removed \cup {syncs[s].work.user}

(* A staged row is IMPORTED only when it names the user of its identity and   *)
(* that user exists, also when two administrators import it, a sync stages it *)
(* again or the process stops between the two saves of importUser.            *)
ImportedHasUser ==
    \A g \in DOMAIN staged :
        staged[g].status = "IMPORTED" => staged[g].user = NameOf[g] /\ NameOf[g] \in DOMAIN users

(* A configuration that is due is synced: it is planned again, disabled or    *)
(* deleted in the end, although syncs fail, are cancelled, overlap or crash.  *)
DueEventuallyPlanned == \A c \in Config : Due(c) ~> ~Due(c)

\* The user has all the data of the entry; metadata may have more.
Covers(data, entry) ==
    data # None /\ data.mail = entry.mail /\ entry.attrs \subseteq data.attrs

(* A configuration that stays in direct mode brings the user table in step    *)
(* with the directory in the end, once that no longer changes: whatever       *)
(* overlapping syncs with older answers wrote before, and whatever failed.    *)
(* Users whose username two identities have are not settled by it.            *)
InStep(g) ==
    IF directory[g] \in Data
    THEN /\ NameOf[g] \in DOMAIN users
         /\ users[NameOf[g]].active /\ Covers(users[NameOf[g]].data, directory[g])
    ELSE \A n \in DOMAIN users : users[n].guid = g => ~users[n].active
Mirrors(c) == c \in DOMAIN configs /\ configs[c].enabled /\ configs[c].autoSync
                  /\ configs[c].mode = "disabled" /\ configs[c].removes /\ configs[c].next # "unset"
DirectConverges ==
    \A c \in Config : <>[]Mirrors(c) => <>[](\A g \in Guid : Unshared(g) => InStep(g))
=============================================================================

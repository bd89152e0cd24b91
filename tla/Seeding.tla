------------------------------- MODULE Seeding -------------------------------
(***************************************************************************)
(* The initial-data seeder (src/db/seeds/initial-data.seeder.ts, started   *)
(* by run-seeder.ts).  `npm run seed` starts one process; nothing records  *)
(* that a seeding was done, so it is started again after a failure and on  *)
(* every deployment, and two may overlap.  A run walks a fixed plan, one   *)
(* find-or-create at a time, in no transaction; the administrators of a    *)
(* live system may edit what it plants in between.                         *)
(*                                                                         *)
(* A step of a run is one database call with the code up to the next one.  *)
(* The save of a loaded row is two calls: it selects the row again, and    *)
(* then writes what differs from it.  A write that breaks a primary key, a *)
(* unique index or a foreign key throws, and the run ends there.  The      *)
(* record ids, which restart at 1 in every run, are not modelled.          *)
(***************************************************************************)
EXTENDS SeedData, Integers, FiniteSets

CONSTANTS
    Seeders,     \* the seeding processes, each started once
    Deletable,   \* the roles an administrator may delete
    MaxEdits     \* edits the administrators make meanwhile

ASSUME SeedersAssumption == IsFiniteSet(Seeders)
ASSUME EditsAssumption == MaxEdits \in Nat

Roles == DOMAIN Mapping
ASSUME DeletableAssumption == Deletable \subseteq Roles
PermissionsOf(r) == ToSet(Mapping[r])

-----------------------------------------------------------------------------
(* The plan: the database work of run() in the order it is done. *)

Create(row, refs) == [op |-> "row", row |-> row, refs |-> refs]
CreateAll(table, keys) ==
    [i \in DOMAIN keys |-> Create(Row(table, keys[i]), {})]

\* Read a row the next n steps depend on, and skip them when it is missing.
Need(table, find, n) == [op |-> "need", table |-> table, find |-> find, skip |-> n]

CreateSystemUser == << Create(Row("user", "system"), {}) >>
CreateCaseNumberSequence == << Create(Row("sequence", "case_number_seq"), {}) >>
CreatePermissions == CreateAll("permission", PermissionKeys)
CreateRoles == CreateAll("role", RoleKeys)

MapRole(r) ==
    << [op |-> "load", role |-> r, skip |-> Len(Mapping[r]) + 1] >>
        \o [i \in DOMAIN Mapping[r] |->
              [op |-> "grant", role |-> r, permission |-> Mapping[r][i]]]
        \o << [op |-> "count", role |-> r] >>
MapRolePermissions == MapRole("admin") \o MapRole("agent") \o MapRole("end_user")

AssignUserRoles ==
    << [op |-> "loadUser"], [op |-> "assign"] >>
        \o [i \in DOMAIN RoleKeys |-> [op |-> "users", role |-> RoleKeys[i]]]

CreateBusinessLines == CreateAll("business_line", BusinessLineKeys)
CreateCategories == CreateAll("case_category", CategoryKeys)
CreateSubcategories ==
    [i \in DOMAIN Subcategories |->
       Create(Row("case_subcategory", Subcategories[i][1]),
              {<<"case_category", Subcategories[i][2]>>})]

ItLine == <<"business_line", "it">>
Tier1 == <<"group", "tier-1">>
\* A section that ends when the IT business line is not found.
ForItLine(steps) == << Need("business_line", "it", Len(steps)) >> \o steps

CreateGroups ==
    ForItLine([i \in DOMAIN Groups |->
                 Create([table |-> "group", find |-> Groups[i][1],
                         key |-> Groups[i][2]], {ItLine})])
CreateSlaTargets ==
    ForItLine([i \in DOMAIN SlaTargetKeys |->
                 Create(Row("sla_target", SlaTargetKeys[i]), {ItLine})])
CreateServices ==
    ForItLine([i \in DOMAIN Services |->
                 Create(Row("service", Services[i][1]),
                        {ItLine, <<"case_subcategory", Services[i][2]>>})])
CreateRequestNumberSequence ==
    << Create(Row("sequence", "request_number_seq"), {}) >>
CreateWorkflows ==
    ForItLine([i \in DOMAIN Workflows |->
                 Create(Row("workflow", Workflows[i].key), {ItLine})])

CreateCard(c) ==
    << Need("service", c.service, 1),
       Create(Row("request_card", c.key),
              {ItLine, Tier1, <<"service", c.service>>}) >>
CreateRequestCards ==
    LET cards == FlattenSeq([i \in DOMAIN RequestCards |->
                               CreateCard(RequestCards[i])])
    IN ForItLine(<< Need("group", "tier-1", Len(cards)) >> \o cards)

Plan ==
    CreateSystemUser \o CreateCaseNumberSequence \o CreatePermissions
        \o CreateRoles \o MapRolePermissions \o AssignUserRoles
        \o CreateBusinessLines \o CreateCategories \o CreateSubcategories
        \o CreateGroups \o CreateSlaTargets \o CreateServices
        \o CreateRequestNumberSequence \o CreateWorkflows \o CreateRequestCards

PlannedRows == {Plan[i].row : i \in {j \in DOMAIN Plan : Plan[j].op = "row"}}

Steps(op) == {i \in DOMAIN Plan : Plan[i].op = op}
OfRole(i, r) == Plan[i].role = r
MappingSteps == Steps("grant") \cup Steps("count")
Planted(i, table, find) ==
    Plan[i].op = "row" /\ Plan[i].row.table = table /\ Plan[i].row.find = find

(* What the code of run() takes for granted of the order of its sections.   *)
(* The plan is fixed, so TLC's evaluation of these facts settles them.      *)

\* A role's permissions are granted and counted right after it is loaded,
\* and no skip leads into the middle of that or past the end.
ASSUME SectionsAssumption ==
    /\ DOMAIN Plan = 1..Len(Plan) /\ Len(Plan) \in Nat \ {0}
    /\ \A i \in DOMAIN Plan :
         Plan[i].op \in {"row", "need", "load", "grant", "count", "loadUser",
                         "assign", "users"}
    /\ \A i \in Steps("load") \cup MappingSteps \cup Steps("users") :
         Plan[i].role \in Roles
    /\ \A i \in Steps("grant") : Plan[i].permission \in PermissionsOf(Plan[i].role)
    /\ \A i \in Steps("load") \cup Steps("grant") :
         i + 1 \in MappingSteps /\ OfRole(i + 1, Plan[i].role)
    /\ \A i \in MappingSteps :
         i - 1 \in Steps("load") \cup Steps("grant") /\ OfRole(i - 1, Plan[i].role)
    /\ \A i \in Steps("assign") : i - 1 \in Steps("loadUser")
    /\ \A i \in Steps("need") \cup Steps("load") :
         LET j == i + Plan[i].skip + 1 IN
         /\ Plan[i].skip \in Nat /\ j <= Len(Plan) + 1
         /\ j \notin MappingSteps \cup Steps("assign")

\* The system user comes first, and what a step reads an earlier one plants.
ASSUME OrderAssumption ==
    /\ Planted(1, "user", "system")
    /\ \A i \in Steps("row") :
         /\ Plan[i].row.table = "user" => i = 1
         /\ Plan[i].row.table = "role" => /\ Plan[i].row.key \in Roles
                                          /\ Plan[i].row = Row("role", Plan[i].row.key)
    /\ \A i \in Steps("need") :
         \E j \in 1..(i - 1) : Planted(j, Plan[i].table, Plan[i].find)
    /\ \A i \in Steps("load") \cup MappingSteps \cup Steps("users") :
         \E j \in 1..(i - 1) : Plan[j].op = "row" /\ Plan[j].row = Row("role", Plan[i].role)
    /\ \A i \in Steps("load"), j \in MappingSteps :
         OfRole(j, Plan[i].role) => i < j
    /\ \A i \in Steps("count"), j \in Steps("grant") :
         OfRole(j, Plan[i].role) => j < i
    /\ \A i \in Steps("users") : \E j \in 1..(i - 1) : Plan[j].op = "assign"
    /\ \A i \in MappingSteps :
         /\ \E j \in 1..(i - 1) : Plan[j].op = "load" /\ OfRole(j, Plan[i].role)
         /\ \E j \in Steps("users") : j > i /\ OfRole(j, Plan[i].role)
    /\ \A i \in Steps("load"), j \in Steps("users") :
         \A k \in i..j : Plan[k].op # "row"

\* Every role is mapped and counted, and the list of a role has no doubles.
ASSUME CompletenessAssumption ==
    /\ \A r \in Roles :
         /\ \A p \in PermissionsOf(r) :
              \E i \in Steps("grant") : OfRole(i, r) /\ Plan[i].permission = p
         /\ \E i \in Steps("count") : OfRole(i, r)
         /\ \E i \in Steps("users") : OfRole(i, r)
         /\ Len(Mapping[r]) \in Nat /\ Cardinality(PermissionsOf(r)) = Len(Mapping[r])
    /\ Steps("assign") # {}

-----------------------------------------------------------------------------
(* The state. *)

VARIABLES
    rows,         \* the rows of all tables
    role,         \* the columns and permissions of each role's row
    systemUser,   \* the license and the admin role of the system user
    run,          \* the seeding processes
    edits,        \* edits made so far
    calm,         \* nothing was edited and no process was stopped (history)
    clashed       \* a run died of an assignment another had made (history)

vars == << rows, role, systemUser, run, edits, calm, clashed >>

NewRole == [permissions |-> {}, permissionCount |-> 0, userCount |-> 0]
NewUser == [licensed |-> TRUE, admin |-> FALSE]

(* A process: where it is in the plan, what its last query answered, its    *)
(* copies of the role and of the user it has loaded, the row its save has   *)
(* selected, the count it has queried, the rows deleted since it read them  *)
(* (it holds their old ids), and whether nobody else has done anything      *)
(* since it was started.                                                    *)
Idle ==
    [status |-> "idle", at |-> 1, saw |-> "nothing", role |-> NewRole,
     user |-> NewUser, seen |-> NewRole, count |-> 0, lost |-> {},
     alone |-> TRUE]

Init ==
    /\ rows = {}
    /\ role = [r \in Roles |-> NewRole]
    /\ systemUser = NewUser
    /\ run = [s \in Seeders |-> Idle]
    /\ edits = 0
    /\ calm = TRUE
    /\ clashed = FALSE

Found(table, find) == \E row \in rows : row.table = table /\ row.find = find

-----------------------------------------------------------------------------
(* The runs. *)

Others(s, rs) ==
    [t \in Seeders |-> IF t = s THEN rs[t] ELSE [rs[t] EXCEPT !.alone = FALSE]]

\* Process s goes on with r; it is done after the last step of the plan.
Goes(s, r) ==
    LET next == IF r.at > Len(Plan)
                THEN [r EXCEPT !.status = "done", !.at = 1, !.lost = {},
                               !.role = NewRole, !.user = NewUser, !.count = 0]
                ELSE r
    IN run' = Others(s, [run EXCEPT ![s] = next])

Past(r, n) == [r EXCEPT !.at = @ + n, !.saw = "nothing", !.seen = NewRole]

\* The run has just read or written this row: it holds a valid id of it.
Holds(r, row) == [r EXCEPT !.lost = @ \ {<<row.table, row.find>>}]

\* An exception leaves run(), and the process exits.
Fails(s) ==
    run' = Others(s, [run EXCEPT ![s] = [Idle EXCEPT !.status = "failed"]])

Start(s) ==
    /\ run[s].status = "idle"
    /\ run' = Others(s, [run EXCEPT ![s].status = "running",
                                    ![s].alone = \A t \in Seeders \ {s} :
                                                   run[t].status # "running"])
    /\ UNCHANGED << rows, role, systemUser, edits, calm, clashed >>

At(s, op) == run[s].status = "running" /\ Plan[run[s].at].op = op

\* findOne by key: the row is there, or has to be created.
Find(s) ==
    LET step == Plan[run[s].at] IN
    /\ At(s, "row") /\ run[s].saw = "nothing"
    /\ IF ~Found(step.row.table, step.row.find)
       THEN Goes(s, [run[s] EXCEPT !.saw = "absent"])
       ELSE IF step.row.table = "user" /\ ~systemUser.licensed
            THEN Goes(s, [run[s] EXCEPT !.saw = "unlicensed", !.user = systemUser])
            ELSE Goes(s, Holds(Past(run[s], 1), step.row))
    /\ UNCHANGED << rows, role, systemUser, edits, calm, clashed >>

\* save of the new row: the unique index and the foreign keys are checked.
Save(s) ==
    LET step == Plan[run[s].at] IN
    /\ At(s, "row") /\ run[s].saw = "absent"
    /\ IF \/ \E row \in rows : row.table = step.row.table /\ row.key = step.row.key
          \/ step.refs \cap run[s].lost # {}
       THEN Fails(s) /\ UNCHANGED << rows, role >>
       ELSE /\ Goes(s, Holds(Past(run[s], 1), step.row))
            /\ rows' = rows \cup {step.row}
            /\ role' = IF step.row.table = "role"
                       THEN [role EXCEPT ![step.row.key] = NewRole] ELSE role
    /\ UNCHANGED << systemUser, edits, calm, clashed >>

\* The system user exists without a license: the row, loaded without its
\* roles, is saved with one.
License(s) ==
    /\ At(s, "row") /\ run[s].saw = "unlicensed"
    /\ systemUser' = [systemUser EXCEPT !.licensed = TRUE]
    /\ Goes(s, Past(run[s], 1))
    /\ UNCHANGED << rows, role, edits, calm, clashed >>

\* A row the next steps refer to; they are skipped when it is missing.
Look(s) ==
    LET step == Plan[run[s].at] IN
    /\ At(s, "need")
    /\ IF Found(step.table, step.find)
       THEN Goes(s, Holds(Past(run[s], 1), step))
       ELSE Goes(s, Past(run[s], step.skip + 1))
    /\ UNCHANGED << rows, role, systemUser, edits, calm, clashed >>

\* Mutant: a role that has permissions already is taken for mapped.
LoadRoleOnce(s) ==
    LET step == Plan[run[s].at] IN
    /\ At(s, "load")
    /\ IF \/ <<"role", step.role>> \in run[s].lost
          \/ ~Found("role", step.role)
          \/ role[step.role].permissions # {}
       THEN Goes(s, Past(run[s], step.skip + 1))
       ELSE Goes(s, [Past(run[s], 1) EXCEPT !.role = role[step.role]])
    /\ UNCHANGED << rows, role, systemUser, edits, calm, clashed >>

\* The role is reloaded by its id with its permissions.
LoadRole(s) ==
    LET step == Plan[run[s].at] IN
    /\ At(s, "load")
    /\ IF <<"role", step.role>> \in run[s].lost \/ ~Found("role", step.role)
       THEN Goes(s, Past(run[s], step.skip + 1))
       ELSE Goes(s, [Past(run[s], 1) EXCEPT !.role = role[step.role]])
    /\ UNCHANGED << rows, role, systemUser, edits, calm, clashed >>

(* push and save of the loaded role, unless it has the permission.  The     *)
(* save looks for the row by the id the run holds.                          *)
SelectRole(s) ==
    LET step == Plan[run[s].at]
        there == Found("role", step.role) /\ <<"role", step.role>> \notin run[s].lost
    IN
    /\ At(s, "grant") /\ run[s].saw = "nothing"
    /\ IF step.permission \in run[s].role.permissions
       THEN Goes(s, Past(run[s], 1))
       ELSE Goes(s, [run[s] EXCEPT
                       !.saw = IF there THEN "selected" ELSE "missing",
                       !.seen = IF there THEN role[step.role] ELSE NewRole])
    /\ UNCHANGED << rows, role, systemUser, edits, calm, clashed >>

Granted(s) ==
    [run[s].role EXCEPT !.permissions = @ \cup {Plan[run[s].at].permission}]

\* A column is written when the entity's differs from the selected one.
Column(given, selected, current) == IF given = selected THEN current ELSE given

(* The difference between the entity and the row selected is written.  The  *)
(* permissions to insert may be there by now, by another run: the primary   *)
(* key of role_permission refuses them.                                     *)
WriteRole(s) ==
    LET r == Plan[run[s].at].role
        given == Granted(s)
        added == given.permissions \ run[s].seen.permissions
        removed == run[s].seen.permissions \ given.permissions
        there == Found("role", r) /\ <<"role", r>> \notin run[s].lost
    IN
    /\ At(s, "grant") /\ run[s].saw = "selected"
    /\ IF added # {} /\ (~there \/ added \cap role[r].permissions # {})
       THEN Fails(s) /\ clashed' = TRUE /\ UNCHANGED role
       ELSE /\ Goes(s, [Past(run[s], 1) EXCEPT !.role = given])
            /\ UNCHANGED clashed
            /\ role' = IF ~there THEN role ELSE
                 [role EXCEPT ![r] =
                   [permissions |-> (@.permissions \ removed) \cup added,
                    permissionCount |-> Column(given.permissionCount,
                        run[s].seen.permissionCount, @.permissionCount),
                    userCount |-> Column(given.userCount,
                        run[s].seen.userCount, @.userCount)]]
    /\ UNCHANGED << rows, systemUser, edits, calm >>

\* The ids that some other runs hold of a row are valid again.
Revived(ref, same, rs) ==
    [t \in Seeders |->
        IF t \in same THEN [rs[t] EXCEPT !.lost = @ \ {ref}] ELSE rs[t]]

(* A role deleted meanwhile is inserted again under its old id, which other *)
(* runs may hold too, unless another row has taken its key.                 *)
InsertRole(s) ==
    LET r == Plan[run[s].at].role
        ref == <<"role", r>>
        next == [Past(run[s], 1) EXCEPT !.role = Granted(s), !.lost = @ \ {ref}]
    IN
    /\ At(s, "grant") /\ run[s].saw = "missing"
    /\ IF Found("role", r)
       THEN Fails(s) /\ UNCHANGED << rows, role >>
       ELSE /\ \E same \in SUBSET (Seeders \ {s}) :
                 run' = Revived(ref, same, Others(s, [run EXCEPT ![s] = next]))
            /\ role' = [role EXCEPT ![r] = Granted(s)]
            /\ rows' = rows \cup {Row("role", r)}
    /\ UNCHANGED << systemUser, edits, calm, clashed >>

\* update of one column of the role with id held by s: no row, no effect.
SetColumn(s, r, columns) ==
    role' = IF Found("role", r) /\ <<"role", r>> \notin run[s].lost
            THEN [role EXCEPT ![r] = columns] ELSE role

\* Mutant: only the permissions this run has added are counted.
CountPermissionsAdded(s) ==
    LET r == Plan[run[s].at].role IN
    /\ At(s, "count")
    /\ SetColumn(s, r, [role[r] EXCEPT !.permissionCount =
                          Cardinality(PermissionsOf(r) \ role[r].permissions)])
    /\ Goes(s, [Past(run[s], 1) EXCEPT !.role = NewRole])
    /\ UNCHANGED << rows, systemUser, edits, calm, clashed >>

\* Mutant: the counter is not reset from one role to the next.
CountPermissionsSoFar(s) ==
    LET r == Plan[run[s].at].role IN
    /\ At(s, "count")
    /\ SetColumn(s, r, [role[r] EXCEPT !.permissionCount =
         Cardinality({i \in 1..run[s].at : Plan[i].op = "grant"})])
    /\ Goes(s, [Past(run[s], 1) EXCEPT !.role = NewRole])
    /\ UNCHANGED << rows, systemUser, edits, calm, clashed >>

CountPermissions(s) ==
    LET r == Plan[run[s].at].role IN
    /\ At(s, "count")
    /\ SetColumn(s, r, [role[r] EXCEPT !.permissionCount = Len(Mapping[r])])
    /\ Goes(s, [Past(run[s], 1) EXCEPT !.role = NewRole])
    /\ UNCHANGED << rows, systemUser, edits, calm, clashed >>

LoadUser(s) ==
    /\ At(s, "loadUser")
    /\ Goes(s, [Past(run[s], 1) EXCEPT !.user = systemUser])
    /\ UNCHANGED << rows, role, systemUser, edits, calm, clashed >>

\* push and save of the loaded user, unless it has the role.
SelectUser(s) ==
    /\ At(s, "assign") /\ run[s].saw = "nothing"
    /\ IF run[s].user.admin
       THEN Goes(s, [Past(run[s], 1) EXCEPT !.user = NewUser])
       ELSE Goes(s, [run[s] EXCEPT !.saw = "selected", !.seen = systemUser])
    /\ UNCHANGED << rows, role, systemUser, edits, calm, clashed >>

\* The assignment is inserted if it was not selected: the role may be gone
\* and the primary key of user_role taken by now.
AssignAdmin(s) ==
    LET seen == run[s].seen IN
    /\ At(s, "assign") /\ run[s].saw = "selected"
    /\ IF ~seen.admin /\ (<<"role", "admin">> \in run[s].lost \/ systemUser.admin)
       THEN Fails(s) /\ clashed' = TRUE /\ UNCHANGED systemUser
       ELSE /\ Goes(s, [Past(run[s], 1) EXCEPT !.user = NewUser])
            /\ UNCHANGED clashed
            /\ systemUser' =
                 [licensed |-> Column(run[s].user.licensed, seen.licensed,
                                      systemUser.licensed),
                  admin |-> TRUE]
    /\ UNCHANGED << rows, role, edits, calm >>

CountUsers(s) ==
    LET r == Plan[run[s].at].role IN
    /\ At(s, "users") /\ run[s].saw = "nothing"
    /\ Goes(s, [run[s] EXCEPT !.saw = "counted",
                  !.count = IF r = "admin" /\ systemUser.admin
                               /\ <<"role", r>> \notin run[s].lost
                            THEN 1 ELSE 0])
    /\ UNCHANGED << rows, role, systemUser, edits, calm, clashed >>

SaveUserCount(s) ==
    LET r == Plan[run[s].at].role IN
    /\ At(s, "users") /\ run[s].saw = "counted"
    /\ SetColumn(s, r, [role[r] EXCEPT !.userCount = run[s].count])
    /\ Goes(s, [Past(run[s], 1) EXCEPT !.count = 0])
    /\ UNCHANGED << rows, systemUser, edits, calm, clashed >>

\* The process is stopped at any point; what it has written stays.
Crash(s) ==
    /\ run[s].status = "running"
    /\ Fails(s)
    /\ calm' = FALSE
    /\ UNCHANGED << rows, role, systemUser, edits, clashed >>

-----------------------------------------------------------------------------
(* The administrators of the running application. *)

\* Rows are deleted: the runs that have read one hold a dead id.
Forget(refs) ==
    [s \in Seeders |->
        [run[s] EXCEPT !.alone = FALSE,
                       !.lost = IF run[s].status = "running" THEN @ \cup refs ELSE @]]

Edit ==
    /\ edits < MaxEdits /\ edits' = edits + 1
    /\ calm' = FALSE /\ UNCHANGED clashed

\* deleteRole: its permissions go with it; the foreign key of user_role
\* refuses it while the system user has the role.
DeleteRole(r) ==
    /\ Edit /\ Found("role", r) /\ ~(r = "admin" /\ systemUser.admin)
    /\ rows' = {row \in rows : row.table # "role" \/ row.key # r}
    /\ role' = [role EXCEPT ![r] = NewRole]
    /\ run' = Forget({<<"role", r>>})
    /\ UNCHANGED systemUser

\* deleteGroup of the IT line's first tier: its request cards go with it.
DeleteGroup ==
    /\ Edit /\ Found("group", "tier-1")
    /\ rows' = {row \in rows : row.table # "request_card"
                               /\ (row.table # "group" \/ row.find # "tier-1")}
    /\ run' = Forget({Tier1})
    /\ UNCHANGED << role, systemUser >>

\* updateUser takes the system user's license away.
Unlicense ==
    /\ Edit /\ Found("user", "system") /\ systemUser.licensed
    /\ systemUser' = [systemUser EXCEPT !.licensed = FALSE]
    /\ run' = Forget({})
    /\ UNCHANGED << rows, role >>

-----------------------------------------------------------------------------
Step(s) ==
    \/ Find(s) \/ Save(s) \/ License(s) \/ Look(s)
    \/ LoadRole(s) \/ SelectRole(s) \/ WriteRole(s) \/ InsertRole(s)
    \/ CountPermissions(s)
    \/ LoadUser(s) \/ SelectUser(s) \/ AssignAdmin(s) \/ CountUsers(s) \/ SaveUserCount(s)

Next ==
    \/ \E s \in Seeders : Start(s) \/ Step(s) \/ Crash(s)
    \/ \E r \in Deletable : DeleteRole(r)
    \/ DeleteGroup \/ Unlicense

Spec == Init /\ [][Next]_vars

-----------------------------------------------------------------------------
(* What is promised. *)

TypeOK ==
    /\ rows \subseteq PlannedRows
    /\ \A r \in Roles :
         /\ role[r].permissions \subseteq PermissionsOf(r)
         /\ role[r].permissionCount \in 0..Len(Mapping[r])
         /\ role[r].userCount \in 0..1
    /\ systemUser \in [licensed : BOOLEAN, admin : BOOLEAN]
    /\ \A s \in Seeders :
         /\ run[s].status \in {"idle", "running", "done", "failed"}
         /\ run[s].at \in DOMAIN Plan
         /\ run[s].saw \in {"nothing", "absent", "unlicensed", "selected",
                            "missing", "counted"}

(* Everything the plan names is there: every row, found the way the seeder  *)
(* finds it, the permissions of the roles, and the counts shown with them.  *)
Seeded ==
    /\ \A row \in PlannedRows : Found(row.table, row.find)
    /\ \A r \in Roles :
         /\ role[r].permissions = PermissionsOf(r)
         /\ role[r].permissionCount = Cardinality(role[r].permissions)
         /\ role[r].userCount = (IF r = "admin" THEN 1 ELSE 0)
    /\ systemUser = [licensed |-> TRUE, admin |-> TRUE]

(* The seeder is meant to be run again: whatever an earlier run left when   *)
(* it was stopped half way, and whatever was deleted since, a run nobody    *)
(* interferes with ends with everything in place.                           *)
RerunRepairs ==
    \A s \in Seeders : run[s].status = "done" /\ run[s].alone => Seeded

(* Two runs may overlap, each saving roles it has read before the other's   *)
(* saves, and one may die of the other's unique keys: when nobody edits and *)
(* no process is stopped, the data is complete once one run has come to its *)
(* end and none is left running.  Of three runs, two may die of assignments *)
(* the others have made and leave the third's work undone: the theorem for  *)
(* any number of runs excludes that.                                        *)
OverlapSeedsAll ==
    /\ calm
    /\ \E s \in Seeders : run[s].status = "done"
    /\ \A s \in Seeders : run[s].status # "running"
    => Seeded
=============================================================================

------------------------------ MODULE IamAccess ------------------------------
(***************************************************************************)
(* Roles, permissions and the cache requests are authorised from           *)
(* (src/modules/iam: permissions, roles and users services,                *)
(* core/iam-permission.service.ts, casl/).                                 *)
(*                                                                         *)
(* An administrator's call reads a whole role or user, changes its list in *)
(* memory and saves it.  A save is two steps: it selects the row and its   *)
(* list as they are now, and then writes in one transaction what differs,  *)
(* so that a save in between leaves the difference out of date.  A list of *)
(* requests is authorised twice, by the guard and for its filter; each     *)
(* time the user's permissions come from the cache or from three queries,  *)
(* whose result is kept for 60 seconds.  Nothing emits the events that     *)
(* would empty the cache (iam-cache-invalidation.handler.ts), so entries   *)
(* only expire.                                                            *)
(***************************************************************************)
EXTENDS Integers, FiniteSets

CONSTANTS
    User, Role,
    Admin,       \* administrators' calls under way at the same time
    Reader,      \* lists of requests being answered at the same time
    Granted,     \* the permissions that are given and taken
    TTL,         \* the life of a cache entry, in ticks
    MaxEdits,    \* administrators' calls in all
    None

Permission == {"request:read:any", "request:read:own", "request:read:assigned",
               "request:read:group", "case:manage:any"}

ASSUME GrantedAssumption == Granted \subseteq Permission
ASSUME TTLAssumption == TTL \in Nat \ {0}
ASSUME EditsAssumption == MaxEdits \in Nat
ASSUME FiniteAssumption == IsFiniteSet(Role) /\ IsFiniteSet(User)

-----------------------------------------------------------------------------
(* The rules a list of requests is authorised by (casl-ability.factory.ts). *)

ActionOf(p) == IF p = "case:manage:any" THEN "manage" ELSE "read"

\* A request as its columns relate to one user.
Row == [requester : BOOLEAN, assignee : BOOLEAN, group : BOOLEAN]

(* The conditions of a permission with the user's values filled in.  Tokens *)
(* carry no groups, so the list of the user's groups is always empty.       *)
Meets(row, p) ==
    CASE p = "request:read:own" -> row.requester
      [] p = "request:read:assigned" -> row.assignee
      [] p = "request:read:group" -> FALSE
      [] OTHER -> TRUE
Restricts(p) == p \notin {"request:read:any", "case:manage:any"}

\* What the ability built from permissions P lets its user read.
CanRead(P, row) == \E p \in P : ActionOf(p) \in {"read", "manage"} /\ Meets(row, p)

\* AbilityGuard asks about the type alone: any rule for it will do.
GuardPasses(P) == \E p \in P : ActionOf(p) \in {"read", "manage"}

\* Mutant: a list is filtered only when one permission applies.
ListsUnmerged(P, row) ==
    LET matching == {p \in P : ActionOf(p) = "read"}
    IN Cardinality(matching) = 1 => \E p \in matching : Meets(row, p)

\* extractConditions: null, which filters nothing, or the conditions joined by OR.
Lists(P, row) ==
    LET matching == {p \in P : ActionOf(p) = "read"}
    IN (matching # {} /\ \A p \in matching : Restricts(p))
         => \E p \in matching : Meets(row, p)

-----------------------------------------------------------------------------
(* The state. *)

VARIABLES
    role,        \* the rows of the roles with their permissions
    user,        \* each user's roles and own permissions
    cache,       \* the entry kept for each user
    admin,       \* the administrators' calls
    reader,      \* the lists of requests being answered
    edits,       \* administrators' calls so far
    raced,       \* roles written between the two steps of a save (history)
    withdrawn    \* permissions revoked while no other call had them (history)

vars == << role, user, cache, admin, reader, edits, raced, withdrawn >>
history == << raced, withdrawn >>

NewRole == [exists |-> TRUE, permissions |-> {}, permissionCount |-> 0]
NoRole == [NewRole EXCEPT !.exists = FALSE]
NewUser == [roles |-> {}, permissions |-> {}]

(* A call holds what it loaded, what it was asked for, and from the first   *)
(* step of its save on what it selected (base, was).                        *)
Idle == [op |-> "idle", saving |-> FALSE, role |-> None, user |-> None,
         row |-> NoRole, base |-> NoRole, list |-> {}, was |-> {}, arg |-> {}]
NotAsked == [pc |-> "idle", user |-> None, roles |-> {}, permissions |-> {},
             guarded |-> FALSE]

RoleOps == {"grantRole", "revokeRole", "updateRole"}
UserRoleOps == {"assignRoles", "revokeUserRole"}
UserOps == UserRoleOps \cup {"grantUser", "revokeUser"}

Init ==
    /\ role = [r \in Role |-> NewRole]
    /\ user = [u \in User |-> NewUser]
    /\ cache = [u \in User |-> [data |-> {}, left |-> 0]]
    /\ admin = [a \in Admin |-> Idle]
    /\ reader = [q \in Reader |-> NotAsked]
    /\ edits = 0
    /\ raced = {}
    /\ withdrawn = [r \in Role |-> {}]

RolePermissions(rs) == UNION {role[r].permissions : r \in rs}
Effective(u) == RolePermissions(user[u].roles) \cup user[u].permissions

-----------------------------------------------------------------------------
(* The administrators. *)

Begin(a) == admin[a].op = "idle" /\ edits < MaxEdits /\ edits' = edits + 1
Ends(a) == admin' = [admin EXCEPT ![a] = Idle]

\* findOne of a role with its permissions; not found ends the call.
LoadRole(a) ==
    /\ Begin(a)
    /\ \E r \in Role, op \in RoleOps, p \in Granted :
         /\ op = "updateRole" => p = CHOOSE q \in Granted : TRUE
         /\ IF role[r].exists
            THEN /\ admin' = [admin EXCEPT ![a] = [Idle EXCEPT
                                !.op = op, !.role = r, !.row = role[r], !.arg = {p}]]
                 /\ withdrawn' = IF op = "grantRole"
                                 THEN [withdrawn EXCEPT ![r] = @ \ {p}] ELSE withdrawn
            ELSE UNCHANGED << admin, withdrawn >>
    /\ UNCHANGED << role, user, cache, reader, raced >>

\* Mutant: the count follows what was asked for, not what was added.
GivenAll(row, ps) ==
    [row EXCEPT !.permissions = @ \cup ps,
                !.permissionCount = @ + Cardinality(ps)]

\* assignPermissionsToRole: the permissions that are new, and their number.
Given(row, ps) ==
    [row EXCEPT !.permissions = @ \cup ps,
                !.permissionCount = @ + Cardinality(ps \ row.permissions)]

\* revokePermissionsFromRole: the ones removed, and their number.
Taken(row, ps) ==
    [row EXCEPT !.permissions = @ \ ps,
                !.permissionCount = @ - Cardinality(row.permissions \cap ps)]

Changed(call) ==
    CASE call.op = "grantRole" -> Given(call.row, call.arg)
      [] call.op = "revokeRole" -> Taken(call.row, call.arg)
      [] OTHER -> call.row

\* The first step of the save: the row and its list as they are now.
SelectRole(a) ==
    /\ admin[a].op \in RoleOps /\ ~admin[a].saving
    /\ admin' = [admin EXCEPT ![a].saving = TRUE, ![a].base = role[admin[a].role]]
    /\ UNCHANGED << role, user, cache, reader, edits, history >>

\* Another call is going to save role r with permission p.
Wanted(a, r, p) ==
    \E b \in Admin \ {a} : /\ admin[b].op \in RoleOps /\ admin[b].role = r
                          /\ p \in Changed(admin[b]).permissions

\* Mutant: what is no longer in the list is not removed.
DifferenceAdds(row, base, new) ==
    IF row.exists
    THEN [row EXCEPT
            !.permissions = @ \cup (new.permissions \ base.permissions),
            !.permissionCount = IF new.permissionCount = base.permissionCount
                                THEN @ ELSE new.permissionCount]
    ELSE row

(* What a save of new makes of a row it selected as base: the columns and   *)
(* the members of the list that differ.                                     *)
Difference(row, base, new) ==
    IF row.exists
    THEN [row EXCEPT
            !.permissions = (@ \ (base.permissions \ new.permissions))
                              \cup (new.permissions \ base.permissions),
            !.permissionCount = IF new.permissionCount = base.permissionCount
                                THEN @ ELSE new.permissionCount]
    ELSE row

(* The second step, one transaction.  A role that was not there is inserted *)
(* whole; it and each new permission must not be there yet, and a new       *)
(* permission needs the role: else nothing is written.                      *)
WriteRole(a) ==
    LET call == admin[a]
        r == call.role
        new == Changed(call)
        added == new.permissions \ call.base.permissions
        fits == IF call.base.exists
                THEN /\ added \cap role[r].permissions = {}
                     /\ added = {} \/ role[r].exists
                ELSE ~role[r].exists
    IN
    /\ call.op \in RoleOps /\ call.saving
    /\ role' = IF ~fits THEN role
               ELSE [role EXCEPT ![r] = IF call.base.exists
                                        THEN Difference(@, call.base, new) ELSE new]
    /\ raced' = IF role[r] = call.base THEN raced ELSE raced \cup {r}
    /\ withdrawn' =
         IF fits /\ call.op = "revokeRole" /\ role[r] = call.base
         THEN [withdrawn EXCEPT ![r] = @ \cup {p \in call.arg : ~Wanted(a, r, p)}]
         ELSE withdrawn
    /\ Ends(a)
    /\ UNCHANGED << user, cache, reader, edits >>

(* deleteRole: its permissions are deleted with it; the database refuses    *)
(* while a user holds it.                                                   *)
DeleteRole(a) ==
    /\ Begin(a)
    /\ \E r \in Role :
         /\ role[r].exists
         /\ \A u \in User : r \notin user[u].roles
         /\ role' = [role EXCEPT ![r] = NoRole]
    /\ UNCHANGED << user, cache, admin, reader, history >>

\* findOne of a user with its roles, or with its permissions.
LoadUser(a) ==
    /\ Begin(a)
    /\ \E u \in User, op \in UserOps :
       \E arg \in (IF op \in UserRoleOps THEN SUBSET Role ELSE {{p} : p \in Granted}) :
         /\ op = "assignRoles" => \A r \in arg : role[r].exists
         /\ op = "revokeUserRole" => Cardinality(arg) = 1
         /\ admin' = [admin EXCEPT ![a] = [Idle EXCEPT
                        !.op = op, !.user = u, !.arg = arg,
                        !.list = IF op \in UserRoleOps
                                 THEN user[u].roles ELSE user[u].permissions]]
    /\ UNCHANGED << role, user, cache, reader, history >>

\* The list as the call saves it: roles are replaced, the rest added to or cut.
NewList(call) ==
    CASE call.op = "assignRoles" -> call.arg
      [] call.op = "grantUser" -> call.list \cup call.arg
      [] OTHER -> call.list \ call.arg

SelectUser(a) ==
    LET u == admin[a].user IN
    /\ admin[a].op \in UserOps /\ ~admin[a].saving
    /\ admin' = [admin EXCEPT ![a].saving = TRUE,
                    ![a].was = IF admin[a].op \in UserRoleOps
                               THEN user[u].roles ELSE user[u].permissions]
    /\ UNCHANGED << role, user, cache, reader, edits, history >>

\* A new member must not be in the list yet, and a new role must exist.
WriteUser(a) ==
    LET call == admin[a]
        u == call.user
        added == NewList(call) \ call.was
        removed == call.was \ NewList(call)
    IN
    /\ call.op \in UserOps /\ call.saving
    /\ user' =
         IF call.op \in UserRoleOps
         THEN IF /\ added \cap user[u].roles = {}
                 /\ \A r \in added : role[r].exists
              THEN [user EXCEPT ![u].roles = (@ \ removed) \cup added] ELSE user
         ELSE IF added \cap user[u].permissions = {}
              THEN [user EXCEPT ![u].permissions = (@ \ removed) \cup added] ELSE user
    /\ Ends(a)
    /\ UNCHANGED << role, cache, reader, edits, history >>

-----------------------------------------------------------------------------
(* A list of requests: getEffectivePermissions, twice. *)

\* Where a resolution may begin: for the guard, then for the filter.
Asking(q, u) ==
    \/ reader[q].pc \in {"idle", "answered"}
    \/ reader[q].pc = "guarded" /\ u = reader[q].user

Resolving(q, u) ==
    IF reader[q].pc = "guarded" THEN reader[q] ELSE [NotAsked EXCEPT !.user = u]

(* What a resolution gives: to the guard, which refuses the call or lets it *)
(* go on, or to the filter of the answer.                                   *)
Resolved(r, P) ==
    IF r.guarded THEN [r EXCEPT !.pc = "answered", !.roles = {}, !.permissions = P]
    ELSE IF GuardPasses(P)
         THEN [r EXCEPT !.pc = "guarded", !.roles = {}, !.permissions = {},
                        !.guarded = TRUE]
         ELSE NotAsked

\* Mutant: a hit keeps the entry for another minute.
HitRenews(q) ==
    /\ \E u \in User :
         /\ Asking(q, u)
         /\ cache[u].left > 0
         /\ cache' = [cache EXCEPT ![u].left = TTL]
         /\ reader' = [reader EXCEPT ![q] = Resolved(Resolving(q, u), cache[u].data)]
    /\ UNCHANGED << role, user, admin, edits, history >>

\* An entry that has not expired answers without a query.
Hit(q) ==
    /\ \E u \in User :
         /\ Asking(q, u)
         /\ cache[u].left > 0
         /\ reader' = [reader EXCEPT ![q] = Resolved(Resolving(q, u), cache[u].data)]
    /\ UNCHANGED << role, user, cache, admin, edits, history >>

\* Otherwise the roles of the user are read first,
FindRoles(q) ==
    /\ \E u \in User :
         /\ Asking(q, u)
         /\ cache[u].left = 0
         /\ reader' = [reader EXCEPT ![q] = [Resolving(q, u) EXCEPT
                         !.pc = "roles", !.roles = user[u].roles]]
    /\ UNCHANGED << role, user, cache, admin, edits, history >>

\* then the permissions of those roles,
FindRolePermissions(q) ==
    /\ reader[q].pc = "roles"
    /\ reader' = [reader EXCEPT ![q].pc = "rolePermissions", ![q].roles = {},
                                ![q].permissions = RolePermissions(reader[q].roles)]
    /\ UNCHANGED << role, user, cache, admin, edits, history >>

\* then the user's own,
FindUserPermissions(q) ==
    /\ reader[q].pc = "rolePermissions"
    /\ reader' = [reader EXCEPT ![q].pc = "found",
                    ![q].permissions = @ \cup user[reader[q].user].permissions]
    /\ UNCHANGED << role, user, cache, admin, edits, history >>

\* Mutant: the life of the entry is added to its end.
KeepTwice(q) ==
    LET P == reader[q].permissions IN
    /\ reader[q].pc = "found"
    /\ cache' = [cache EXCEPT ![reader[q].user] = [data |-> P, left |-> TTL + TTL]]
    /\ reader' = [reader EXCEPT ![q] = Resolved(reader[q], P)]
    /\ UNCHANGED << role, user, admin, edits, history >>

\* and what the last query returns is kept.
Keep(q) ==
    LET P == reader[q].permissions IN
    /\ reader[q].pc = "found"
    /\ cache' = [cache EXCEPT ![reader[q].user] = [data |-> P, left |-> TTL]]
    /\ reader' = [reader EXCEPT ![q] = Resolved(reader[q], P)]
    /\ UNCHANGED << role, user, admin, edits, history >>

Tick ==
    /\ \E u \in User : cache[u].left > 0
    /\ cache' = [u \in User |->
                   IF cache[u].left <= 1 THEN [data |-> {}, left |-> 0]
                   ELSE [cache[u] EXCEPT !.left = @ - 1]]
    /\ UNCHANGED << role, user, admin, reader, edits, history >>

-----------------------------------------------------------------------------
Save(a) == SelectRole(a) \/ WriteRole(a) \/ SelectUser(a) \/ WriteUser(a)
AdminStep(a) == LoadRole(a) \/ LoadUser(a) \/ DeleteRole(a) \/ Save(a)
Resolve(q) == FindRolePermissions(q) \/ FindUserPermissions(q) \/ Keep(q)
ReaderStep(q) == Hit(q) \/ FindRoles(q) \/ Resolve(q)

Next ==
    \/ \E a \in Admin : AdminStep(a)
    \/ \E q \in Reader : ReaderStep(q)
    \/ Tick

Spec == Init /\ [][Next]_vars

(* Time passes, and a call that has begun is carried on by the event loop;  *)
(* no administrator and no request has to begin.                            *)
Fairness ==
    /\ WF_vars(Tick)
    /\ \A q \in Reader : WF_vars(Resolve(q))
    /\ \A a \in Admin : WF_vars(Save(a))

FairSpec == Spec /\ Fairness

-----------------------------------------------------------------------------
(* What is promised. *)

TypeOK ==
    /\ role \in [Role -> [exists : BOOLEAN, permissions : SUBSET Granted,
                          permissionCount : Int]]
    /\ user \in [User -> [roles : SUBSET Role, permissions : SUBSET Granted]]
    /\ cache \in [User -> [data : SUBSET Granted, left : 0..TTL]]
    /\ admin \in [Admin -> [op : {"idle"} \cup RoleOps \cup UserOps, saving : BOOLEAN,
                            role : Role \cup {None}, user : User \cup {None},
                            row : [exists : BOOLEAN, permissions : SUBSET Granted,
                                   permissionCount : Int],
                            base : [exists : BOOLEAN, permissions : SUBSET Granted,
                                    permissionCount : Int],
                            list : (SUBSET Role) \cup (SUBSET Granted),
                            was : (SUBSET Role) \cup (SUBSET Granted),
                            arg : (SUBSET Role) \cup (SUBSET Granted)]]
    /\ reader \in [Reader -> [pc : {"idle", "roles", "rolePermissions", "found",
                                    "guarded", "answered"},
                              user : User \cup {None}, roles : SUBSET Role,
                              permissions : SUBSET Granted,
                              guarded : BOOLEAN]]
    /\ edits \in 0..MaxEdits
    /\ raced \subseteq Role
    /\ withdrawn \in [Role -> SUBSET Granted]

(* The number shown with a role is the number of its permissions, however   *)
(* grants, revocations, edits and deletions of the same role overlap, as    *)
(* long as nothing was written to the role between the two steps of a save: *)
(* each call counts in the copy whose list it saves.                        *)
CountMatches ==
    \A r \in Role \ raced :
        role[r].permissionCount = Cardinality(role[r].permissions)

(* A permission whose revocation was answered, with nothing written to the  *)
(* role during its save and no other call on the role that had it in its    *)
(* copy, stays out until it is granted again, although calls save lists     *)
(* they loaded before, fail on rows that are there already, and bring       *)
(* deleted roles back.                                                      *)
WithdrawnStaysOut ==
    \A r \in Role : role[r].permissions \cap withdrawn[r] = {}

(* The guard and the list of requests turn permissions into an ability and  *)
(* into a filter by two separate pieces of code, each from an answer of its *)
(* own: when the guard would let the second answer through as well, no row  *)
(* is listed that its ability would refuse.  A user whose last permission   *)
(* goes in between gets a list without any filter                           *)
(* (casl-ability.factory.ts:190).                                           *)
ListsWhatGuardAllows ==
    \A q \in Reader :
        reader[q].pc = "answered" /\ GuardPasses(reader[q].permissions)
          => \A row \in Row : Lists(reader[q].permissions, row)
                                => CanRead(reader[q].permissions, row)

(* With nothing to empty it, the cache may serve permissions that were      *)
(* taken away, and answers put together from two states; once the           *)
(* administrators are done and the entries of before have expired, every    *)
(* entry is what the user has.                                              *)
CacheCatchesUp ==
    <>[](\A u \in User : cache[u].left > 0 => cache[u].data = Effective(u))
=============================================================================

--------------------------- MODULE Seeding_proofs ---------------------------
(***************************************************************************)
(* The seeder for any number of processes, deletable roles and edits: what *)
(* is written stays well formed, a run nobody interferes with ends with    *)
(* everything in place, and overlapping runs complete each other's work as *)
(* long as none dies of an assignment another has made.                    *)
(*                                                                         *)
(* The plan enters through its assumptions alone: that it is in order and  *)
(* complete, which is evaluated for the one plan there is.                 *)
(***************************************************************************)
EXTENDS Seeding, TLAPS

-----------------------------------------------------------------------------
(* Types. *)

RoleRow(r) ==
    [permissions : SUBSET PermissionsOf(r), permissionCount : 0..Len(Mapping[r]),
     userCount : 0..1]
UserRow == [licensed : BOOLEAN, admin : BOOLEAN]
RoleCopy ==
    [permissions : SUBSET UNION {PermissionsOf(r) : r \in Roles},
     permissionCount : Nat, userCount : 0..1]
Ref == {<<"role", r>> : r \in Roles} \cup {Tier1}

\* Neither edited nor stopped, and no run has died of another's assignments.
Calm == calm /\ ~clashed

RunRecord ==
    [status : {"idle", "running", "done", "failed"}, at : 1..(Len(Plan) + 1),
     saw : {"nothing", "absent", "unlicensed", "selected", "missing", "counted"},
     role : RoleCopy, user : UserRow, seen : RoleCopy \cup UserRow, count : 0..1, lost : SUBSET Ref,
     alone : BOOLEAN]

Running(x) == x.status = "running"
\* The process is granting or counting the permissions of role r.
InSection(x, r) == Running(x) /\ x.at \in MappingSteps /\ OfRole(x.at, r)

WellTyped(x) ==
    /\ x \in RunRecord /\ x.at \in DOMAIN Plan
    /\ ~Running(x) => x.lost = {}
    /\ x.status = "idle" => x.at = 1 /\ x.saw = "nothing"
    /\ \A r \in Roles : InSection(x, r) => x.role \in RoleRow(r)
    /\ x.saw \in {"absent", "unlicensed"} => x.at \in Steps("row")
    /\ x.saw = "unlicensed" => x.at = 1
    /\ x.saw = "counted" => x.at \in Steps("users")
    /\ x.saw = "missing" => x.at \in Steps("grant")
    /\ x.saw = "selected" => x.at \in Steps("grant") \cup Steps("assign")
    /\ \A r \in Roles :
         InSection(x, r) /\ x.saw = "selected" => x.seen \in RoleRow(r)
    /\ x.at \in Steps("assign") /\ x.saw = "selected" => x.seen \in UserRow

TablesInv ==
    /\ rows \subseteq PlannedRows
    /\ role \in [Roles -> RoleCopy]
    /\ \A r \in Roles : role[r] \in RoleRow(r)
    /\ \A r \in Roles : ~Found("role", r) => role[r] = NewRole
    /\ systemUser \in UserRow

RunsInv == DOMAIN run = Seeders /\ \A s \in Seeders : WellTyped(run[s])

-----------------------------------------------------------------------------
(* The system user, whom nobody deletes. *)

UserFound == Found("user", "system")
PastUser(x) == Running(x) /\ (x.at # 1 \/ x.saw = "unlicensed")

UserInv ==
    /\ ~UserFound => systemUser.licensed
    /\ \A s \in Seeders : PastUser(run[s]) => UserFound

-----------------------------------------------------------------------------
(* A run that nobody interferes with. *)

Passed(x, i) == x.status = "done" \/ (Running(x) /\ i < x.at)
Target(r) == IF r = "admin" THEN 1 ELSE 0

\* What step i of the plan is there for.
Achieved(i) ==
    /\ i \in Steps("row") => Found(Plan[i].row.table, Plan[i].row.find)
    /\ i = 1 => systemUser.licensed
    /\ i \in Steps("grant") => Plan[i].permission \in role[Plan[i].role].permissions
    /\ i \in Steps("count") =>
         role[Plan[i].role].permissionCount = Len(Mapping[Plan[i].role])
    /\ i \in Steps("users") => role[Plan[i].role].userCount = Target(Plan[i].role)
    /\ i \in Steps("assign") => systemUser.admin

AloneHolds(s) ==
    LET x == run[s] IN
    /\ x.lost = {}
    /\ \A i \in DOMAIN Plan : Passed(x, i) => Achieved(i)
    /\ x.saw # "missing"
    /\ \A r \in Roles : InSection(x, r) =>
         x.role = role[r] /\ (x.saw = "selected" => x.seen = role[r])
    /\ Running(x) /\ x.at \in Steps("assign") =>
         x.user = systemUser /\ (x.saw = "selected" => x.seen = systemUser)
    /\ Running(x) /\ x.saw = "counted" => x.count = Target(Plan[x.at].role)

Undisturbed(x) == x.alone /\ x.status \in {"running", "done"}

AloneInv == \A s \in Seeders : Undisturbed(run[s]) => AloneHolds(s)

-----------------------------------------------------------------------------
(* Runs that overlap while nobody edits and nothing is stopped: what one    *)
(* overwrites with what it has read before, it writes itself later on.      *)

\* Process x is going to grant permission p to role r: its copy lacks it, and
\* it has not just seen it there.
Owes(x, r, p) ==
    /\ InSection(x, r) /\ p \notin x.role.permissions
    /\ ~(x.saw = "selected" /\ Plan[x.at].permission = p /\ p \in x.seen.permissions)

\* Permission p of role r is there, or a run that will grant it is at work.
GrantedSoon(r, p) ==
    p \in role[r].permissions \/ \E s \in Seeders : Owes(run[s], r, p)

CountedSoon(r) ==
    \/ role[r].permissionCount = Len(Mapping[r])
    \/ \E s \in Seeders : InSection(run[s], r)

\* From the load of role r up to the save of its user count.
InStretch(x, r) ==
    /\ Running(x)
    /\ \E i \in Steps("load") : i < x.at /\ OfRole(i, r)
    /\ \E j \in Steps("users") : x.at <= j /\ OfRole(j, r)

UsersCountedSoon(r) ==
    \/ role[r].userCount = Target(r)
    \/ \E s \in Seeders : InStretch(run[s], r)

Promised(i) ==
    /\ i \in Steps("row") => Found(Plan[i].row.table, Plan[i].row.find)
    /\ i \in Steps("grant") => GrantedSoon(Plan[i].role, Plan[i].permission)
    /\ i \in Steps("count") => CountedSoon(Plan[i].role)
    /\ i \in Steps("users") => UsersCountedSoon(Plan[i].role)
    /\ i \in Steps("assign") => systemUser.admin

\* The copy a run works on has what the run has granted so far, and what it
\* has seen granted stays so or is granted again.
CalmHolds(s) ==
    LET x == run[s] IN
    /\ x.lost = {}
    /\ x.saw \notin {"unlicensed", "missing"}
    /\ Running(x) /\ x.at \in Steps("assign") =>
         x.user.licensed /\ (x.user.admin => systemUser.admin)
    /\ \A i \in DOMAIN Plan : Passed(x, i) => Promised(i)
    /\ \A r \in Roles : InSection(x, r) =>
         /\ \A i \in Steps("grant") :
              i < x.at /\ OfRole(i, r) => Plan[i].permission \in x.role.permissions
         /\ \A p \in x.role.permissions : GrantedSoon(r, p)
         /\ x.saw = "selected" =>
              \A p \in x.seen.permissions : GrantedSoon(r, p)
    /\ Running(x) /\ x.saw = "counted" => x.count = Target(Plan[x.at].role)

CalmInv == Calm => systemUser.licensed /\ \A s \in Seeders : CalmHolds(s)

IInv == TablesInv /\ RunsInv /\ UserInv /\ AloneInv /\ CalmInv

-----------------------------------------------------------------------------
(* One process moves. *)

\* The record a process keeps when it has gone past the last step.
After(z) ==
    IF z.at > Len(Plan)
    THEN [z EXCEPT !.status = "done", !.at = 1, !.lost = {},
                   !.role = NewRole, !.user = NewUser, !.count = 0]
    ELSE z

Moves(s, y) == run' = Others(s, [run EXCEPT ![s] = y])

\* The record z of a process that has left step i, and what it took along.
Leaves(x, z) ==
    /\ z \in RunRecord /\ Running(z) /\ z.saw = "nothing"
    /\ z.alone = x.alone /\ z.lost \subseteq x.lost
    /\ \A r \in Roles :
         z.at \in MappingSteps /\ OfRole(z.at, r) => z.role \in RoleRow(r)

LEMMA NewRoleTyped ==
    NewRole \in RoleCopy /\ NewUser \in UserRow /\ \A r \in Roles : NewRole \in RoleRow(r)
<1>1. \A r \in Roles : NewRole \in RoleRow(r)
  <2> TAKE r \in Roles
  <2>1. Len(Mapping[r]) \in Nat
    BY CompletenessAssumption
  <2>2. 0 \in 0..Len(Mapping[r])
    BY <2>1
  <2> QED
    BY <2>2 DEF NewRole, RoleRow
<1>2. NewUser \in UserRow
  BY DEF NewUser, UserRow
<1>3. NewRole \in RoleCopy
  BY DEF NewRole, RoleCopy
<1> QED
  BY <1>1, <1>2, <1>3

LEMMA RowIsCopy == \A r \in Roles : RoleRow(r) \subseteq RoleCopy
<1> SUFFICES ASSUME NEW r \in Roles, NEW x \in RoleRow(r) PROVE x \in RoleCopy
  OBVIOUS
<1>1. Len(Mapping[r]) \in Nat /\ PermissionsOf(r) \subseteq UNION {PermissionsOf(q) : q \in Roles}
  BY CompletenessAssumption
<1> QED
  BY <1>1 DEF RoleRow, RoleCopy

LEMMA StepsAre ==
    ASSUME NEW i \in DOMAIN Plan
    PROVE  /\ i \in Int /\ 1 <= i /\ i <= Len(Plan)
           /\ \A op : i \in Steps(op) <=> Plan[i].op = op
           /\ i \in MappingSteps <=> Plan[i].op \in {"grant", "count"}
BY SectionsAssumption DEF Steps, MappingSteps

LEMMA IdleTyped ==
    ASSUME NEW x, x = Idle \/ x = [Idle EXCEPT !.status = "failed"]
    PROVE  /\ x \in RunRecord /\ WellTyped(x) /\ ~Running(x) /\ ~Undisturbed(x)
           /\ x.status \in {"idle", "failed"} /\ x.lost = {} /\ x.saw = "nothing"
<1>1. 1 \in DOMAIN Plan
  BY SectionsAssumption
<1>2. Idle \in RunRecord
  BY <1>1, NewRoleTyped, SectionsAssumption DEF Idle, RunRecord
<1>3. [Idle EXCEPT !.status = "failed"] \in RunRecord
  BY <1>2 DEF RunRecord
<1>4. /\ x.status \in {"idle", "failed"} /\ x.saw = "nothing" /\ x.lost = {}
      /\ x.at \in DOMAIN Plan /\ x.at = 1
  BY <1>1 DEF Idle
<1>5. ~Running(x) /\ ~Undisturbed(x)
  BY <1>4 DEF Running, Undisturbed
<1>6. WellTyped(x)
  BY <1>2, <1>3, <1>4, <1>5 DEF WellTyped, InSection
<1> QED
  BY <1>2, <1>3, <1>4, <1>5, <1>6

\* Going on is leaving the step, and ending when it was the last.
LEMMA AfterIs ==
    ASSUME NEW x, NEW z, Leaves(x, z)
    PROVE  LET y == After(z)
           IN  /\ WellTyped(y)
               /\ y.saw = "nothing" /\ y.alone = x.alone /\ y.lost \subseteq x.lost
               /\ \/ y = z /\ Running(y) /\ y.at \in DOMAIN Plan
                  \/ y.status = "done" /\ z.at = Len(Plan) + 1
<1> DEFINE y == After(z)
<1>1. 1 \in DOMAIN Plan /\ Len(Plan) \in Nat /\ DOMAIN Plan = 1..Len(Plan)
  BY SectionsAssumption
<1>2. /\ z \in RunRecord /\ Running(z) /\ z.saw = "nothing"
      /\ z.alone = x.alone /\ z.lost \subseteq x.lost
  BY DEF Leaves
<1>3. CASE z.at > Len(Plan)
  <2>1. y = [z EXCEPT !.status = "done", !.at = 1, !.lost = {},
                      !.role = NewRole, !.user = NewUser, !.count = 0]
    BY <1>3 DEF After
  <2> HIDE DEF y
  <2>2. y \in RunRecord
    <3>1. 1 \in 1..(Len(Plan) + 1) /\ 0 \in 0..1 /\ {} \in SUBSET Ref
      BY <1>1
    <3> QED
      BY <1>2, <2>1, <3>1, NewRoleTyped DEF RunRecord
  <2>3. /\ y.status = "done" /\ y.saw = "nothing" /\ y.alone = x.alone
        /\ y.lost = {} /\ y.at = 1 /\ z.at = Len(Plan) + 1
    BY <1>1, <1>2, <1>3, <2>1 DEF RunRecord
  <2>4. ~Running(y)
    BY <2>3 DEF Running
  <2>5. WellTyped(y) /\ y.lost \subseteq x.lost
    BY <1>1, <2>2, <2>3, <2>4 DEF WellTyped, InSection
  <2> QED
    BY <2>3, <2>5 DEF y
<1>4. CASE ~(z.at > Len(Plan))
  <2>1. y = z
    BY <1>4 DEF After
  <2>2. z.at \in DOMAIN Plan
    BY <1>1, <1>2, <1>4 DEF RunRecord
  <2>3. WellTyped(z)
    BY <1>2, <2>2 DEF WellTyped, Running, InSection, Leaves
  <2> QED
    BY <1>2, <2>1, <2>2, <2>3
<1> QED
  BY <1>3, <1>4

LEMMA GoesIs == \A s, z : Goes(s, z) <=> Moves(s, After(z))
BY DEF Goes, After, Moves

\* A record but for `alone` and the ids that are dead.
Like(x, y) ==
    /\ x.status = y.status /\ x.at = y.at /\ x.saw = y.saw /\ x.role = y.role
    /\ x.user = y.user /\ x.count = y.count /\ x.seen = y.seen
    /\ y.lost \subseteq x.lost

\* Nobody but process s does anything.
OthersWait(s) ==
    /\ DOMAIN run' = Seeders
    /\ \A t \in Seeders \ {s} : /\ Like(run[t], run'[t])
                                /\ run'[t].alone = FALSE
                                /\ run'[t] \in RunRecord

LEMMA MovesIs ==
    ASSUME RunsInv, NEW s \in Seeders, NEW y, Moves(s, y)
    PROVE  run'[s] = y /\ OthersWait(s)
<1>1. run' = Others(s, [run EXCEPT ![s] = y]) /\ DOMAIN run = Seeders
  BY DEF Moves, RunsInv
<1>2. DOMAIN run' = Seeders /\ run'[s] = y
  BY <1>1 DEF Others
<1>3. ASSUME NEW t \in Seeders \ {s}
      PROVE  /\ Like(run[t], run'[t]) /\ run'[t].alone = FALSE
             /\ run'[t] \in RunRecord
  <2>1. run'[t] = [run[t] EXCEPT !.alone = FALSE]
    BY <1>1, <1>3 DEF Others
  <2>2. run[t] \in RunRecord
    BY <1>3 DEF RunsInv, WellTyped
  <2> QED
    BY <2>1, <2>2 DEF RunRecord, Like
<1> QED
  BY <1>2, <1>3 DEF OthersWait

-----------------------------------------------------------------------------
(* What each part of the invariant asks of the process that moves.          *)

LEMMA RunsMove ==
    ASSUME RunsInv, NEW s \in Seeders, OthersWait(s), WellTyped(run'[s])
    PROVE  RunsInv'
<1>1. ASSUME NEW t \in Seeders \ {s}
      PROVE  WellTyped(run'[t])
  <2> DEFINE x == run[t]
             y == run'[t]
  <2>1. WellTyped(x) /\ Like(x, y) /\ y \in RunRecord
    BY <1>1 DEF RunsInv, OthersWait
  <2> HIDE DEF x, y
  <2>2. WellTyped(y)
    BY <2>1 DEF WellTyped, Like, InSection, Running
  <2> QED
    BY <2>2 DEF y
<1> QED
  BY <1>1 DEF RunsInv, OthersWait

LEMMA UserMoves ==
    ASSUME UserInv, NEW s \in Seeders, OthersWait(s),
           UserFound => UserFound', ~UserFound' => systemUser'.licensed,
           PastUser(run'[s]) => UserFound'
    PROVE  UserInv'
<1>1. ASSUME NEW t \in Seeders \ {s}, PastUser(run'[t])
      PROVE  UserFound'
  BY <1>1 DEF UserInv, OthersWait, PastUser, Like, Running
<1> QED
  BY <1>1 DEF UserInv

LEMMA AloneMoves ==
    ASSUME AloneInv, NEW s \in Seeders, OthersWait(s),
           Undisturbed(run'[s]) => AloneHolds(s)'
    PROVE  AloneInv'
<1>1. ASSUME NEW t \in Seeders \ {s}
      PROVE  ~Undisturbed(run'[t])
  BY <1>1 DEF OthersWait, Undisturbed
<1> QED
  BY <1>1 DEF AloneInv

\* What process s takes away from the roles it gives back itself, and what
\* it was going to give it has given or is still going to.
Keeps(s) ==
    /\ \A r \in Roles : \A p \in PermissionsOf(r) :
         p \in role[r].permissions \/ Owes(run[s], r, p) =>
           p \in role'[r].permissions \/ Owes(run'[s], r, p)
    /\ \A r \in Roles :
         (role[r].permissionCount = Len(Mapping[r]) \/ InSection(run[s], r))
         => (role'[r].permissionCount = Len(Mapping[r]) \/ InSection(run'[s], r))
    /\ \A r \in Roles :
         (role[r].userCount = Target(r) \/ InStretch(run[s], r))
         => (role'[r].userCount = Target(r) \/ InStretch(run'[s], r))
    /\ systemUser.admin => systemUser'.admin
    /\ rows \subseteq rows'

LEMMA LikePlace ==
    ASSUME NEW x, NEW y, Like(x, y)
    PROVE  /\ Running(x) <=> Running(y)
           /\ \A r : InSection(x, r) <=> InSection(y, r)
           /\ \A r : InStretch(x, r) <=> InStretch(y, r)
           /\ \A i : Passed(x, i) <=> Passed(y, i)
           /\ \A r, p : Owes(x, r, p) <=> Owes(y, r, p)
           /\ x.role = y.role
BY DEF Like, Running, InSection, InStretch, Passed, Owes

LEMMA Kept ==
    ASSUME NEW s \in Seeders, OthersWait(s), Keeps(s)
    PROVE  /\ \A r \in Roles : \A p \in PermissionsOf(r) :
                GrantedSoon(r, p) => GrantedSoon(r, p)'
           /\ \A r \in Roles : CountedSoon(r) => CountedSoon(r)'
           /\ \A r \in Roles : UsersCountedSoon(r) => UsersCountedSoon(r)'
           /\ \A table, find : Found(table, find) => Found(table, find)'
           /\ \A i \in DOMAIN Plan : Promised(i) => Promised(i)'
<1>1. \A t \in Seeders \ {s}, r \in Roles :
        /\ \A p : Owes(run[t], r, p) => Owes(run'[t], r, p)
        /\ InSection(run[t], r) => InSection(run'[t], r)
        /\ InStretch(run[t], r) => InStretch(run'[t], r)
  BY LikePlace DEF OthersWait
<1>2. ASSUME NEW r \in Roles, NEW p \in PermissionsOf(r), GrantedSoon(r, p)
      PROVE  GrantedSoon(r, p)'
  BY <1>1, <1>2 DEF GrantedSoon, Keeps
<1>3. ASSUME NEW r \in Roles, CountedSoon(r)
      PROVE  CountedSoon(r)'
  BY <1>1, <1>3 DEF CountedSoon, Keeps
<1>4. ASSUME NEW r \in Roles, UsersCountedSoon(r)
      PROVE  UsersCountedSoon(r)'
  BY <1>1, <1>4 DEF UsersCountedSoon, Keeps
<1>5. ASSUME NEW table, NEW find, Found(table, find)
      PROVE  Found(table, find)'
  BY <1>5 DEF Found, Keeps
<1>6. ASSUME NEW i \in DOMAIN Plan, Promised(i)
      PROVE  Promised(i)'
  <2>1. i \in MappingSteps \cup Steps("users") => Plan[i].role \in Roles
    BY SectionsAssumption
  <2>2. i \in Steps("grant") => Plan[i].permission \in PermissionsOf(Plan[i].role)
    BY SectionsAssumption
  <2> QED
    BY <1>2, <1>3, <1>4, <1>5, <1>6, <2>1, <2>2 DEF Promised, MappingSteps, Keeps
<1> QED
  BY <1>2, <1>3, <1>4, <1>5, <1>6

LEMMA CalmMoves ==
    ASSUME RunsInv, CalmInv, NEW s \in Seeders, OthersWait(s), UNCHANGED Calm,
           Calm => systemUser'.licensed /\ Keeps(s) /\ CalmHolds(s)'
    PROVE  CalmInv'
<1> SUFFICES ASSUME Calm, NEW t \in Seeders \ {s} PROVE CalmHolds(t)'
  BY DEF CalmInv
<1>1. /\ CalmHolds(t) /\ WellTyped(run[t]) /\ Like(run[t], run'[t])
  BY DEF CalmInv, RunsInv, OthersWait
<1>2. /\ \A r \in Roles : \A p \in PermissionsOf(r) :
           GrantedSoon(r, p) => GrantedSoon(r, p)'
      /\ \A i \in DOMAIN Plan : Promised(i) => Promised(i)'
  BY Kept
<1>3. /\ Running(run[t]) <=> Running(run'[t])
      /\ \A r : InSection(run[t], r) <=> InSection(run'[t], r)
      /\ \A i : Passed(run[t], i) <=> Passed(run'[t], i)
  BY <1>1, LikePlace
<1>4. \A i \in DOMAIN Plan : Passed(run'[t], i) => Promised(i)'
  BY <1>1, <1>2, <1>3 DEF CalmHolds
<1>5. ASSUME NEW r \in Roles, InSection(run'[t], r)
      PROVE  /\ \A i \in Steps("grant") :
                  i < run'[t].at /\ OfRole(i, r) =>
                      Plan[i].permission \in run'[t].role.permissions
             /\ \A p \in run'[t].role.permissions : GrantedSoon(r, p)'
             /\ run'[t].saw = "selected" =>
                  \A p \in run'[t].seen.permissions : GrantedSoon(r, p)'
  <2>1. /\ InSection(run[t], r) /\ run[t].role \in RoleRow(r)
        /\ run[t].saw = "selected" => run[t].seen \in RoleRow(r)
    BY <1>1, <1>3, <1>5 DEF WellTyped
  <2>2. /\ run[t].role.permissions \subseteq PermissionsOf(r)
        /\ run[t].saw = "selected" => run[t].seen.permissions \subseteq PermissionsOf(r)
    BY <2>1 DEF RoleRow
  <2>3. /\ run'[t].role = run[t].role /\ run'[t].at = run[t].at
        /\ run'[t].saw = run[t].saw /\ run'[t].seen = run[t].seen
    BY <1>1 DEF Like
  <2> QED
    BY <1>1, <1>2, <2>1, <2>2, <2>3 DEF CalmHolds
<1>6. /\ run'[t].lost = {} /\ run'[t].saw \notin {"unlicensed", "missing"}
      /\ Running(run'[t]) /\ run'[t].at \in Steps("assign") =>
           run'[t].user.licensed /\ (run'[t].user.admin => systemUser'.admin)
      /\ Running(run'[t]) /\ run'[t].saw = "counted" =>
           run'[t].count = Target(Plan[run'[t].at].role)
  BY <1>1, <1>3 DEF CalmHolds, Like, Keeps
<1> QED
  BY <1>4, <1>5, <1>6 DEF CalmHolds

-----------------------------------------------------------------------------
(* A process that has done its step goes on to the next one. *)

\* Process s has done step i and goes on as z.
GoesOn(s, i, z) ==
    /\ Goes(s, z) /\ Leaves(run[s], z)
    /\ Running(run[s]) /\ run[s].at = i /\ i \in DOMAIN Plan /\ z.at = i + 1

LEMMA Going ==
    ASSUME RunsInv, NEW s \in Seeders, NEW z, Goes(s, z), Leaves(run[s], z)
    PROVE  /\ run'[s] = After(z) /\ OthersWait(s) /\ RunsInv'
           /\ WellTyped(run'[s])
           /\ run'[s].alone = run[s].alone /\ run'[s].saw = "nothing"
           /\ run'[s].lost \subseteq run[s].lost
           /\ Running(run'[s]) => run'[s] = z
           /\ \/ Running(run'[s]) /\ run'[s] = z /\ z.at \in DOMAIN Plan
              \/ run'[s].status = "done" /\ z.at = Len(Plan) + 1
<1>1. Moves(s, After(z))
  BY GoesIs
<1>2. run'[s] = After(z) /\ OthersWait(s)
  BY <1>1, MovesIs
<1>3. /\ WellTyped(run'[s])
      /\ run'[s].alone = run[s].alone /\ run'[s].saw = "nothing"
      /\ run'[s].lost \subseteq run[s].lost
      /\ \/ run'[s] = z /\ Running(run'[s]) /\ run'[s].at \in DOMAIN Plan
         \/ run'[s].status = "done" /\ z.at = Len(Plan) + 1
  BY <1>2, AfterIs
<1>4. RunsInv'
  BY <1>2, <1>3, RunsMove
<1>5. Running(run'[s]) => run'[s] = z
  BY <1>3 DEF Running
<1> QED
  BY <1>2, <1>3, <1>4, <1>5

LEMMA WentOn ==
    ASSUME RunsInv, NEW s \in Seeders, NEW i, NEW z, GoesOn(s, i, z)
    PROVE  /\ \A j \in DOMAIN Plan : Passed(run'[s], j) <=> j <= i
           /\ \A j \in DOMAIN Plan : Passed(run[s], j) <=> j < i
           /\ Running(run'[s]) => run'[s] = z /\ i + 1 \in DOMAIN Plan
           /\ \A r : InSection(run'[s], r) =>
                       i + 1 \in MappingSteps /\ OfRole(i + 1, r)
           /\ Undisturbed(run'[s]) => Undisturbed(run[s])
           /\ Running(run[s])
<1>1. /\ Goes(s, z) /\ Leaves(run[s], z)
      /\ Running(run[s]) /\ run[s].at = i /\ i \in DOMAIN Plan /\ z.at = i + 1
  BY DEF GoesOn
<1>2. /\ run'[s].alone = run[s].alone
      /\ Running(run'[s]) => run'[s] = z
      /\ \/ Running(run'[s]) /\ run'[s] = z /\ z.at \in DOMAIN Plan
         \/ run'[s].status = "done" /\ z.at = Len(Plan) + 1
  BY <1>1, Going
<1>3. DOMAIN Plan = 1..Len(Plan) /\ Len(Plan) \in Nat
  BY SectionsAssumption
<1>4. i \in Int /\ \A j \in DOMAIN Plan : j \in Int /\ j <= Len(Plan)
  BY <1>1, <1>3
<1>5. \A j \in DOMAIN Plan : Passed(run[s], j) <=> j < i
  BY <1>1 DEF Passed, Running
<1>6. CASE Running(run'[s]) /\ run'[s] = z /\ z.at \in DOMAIN Plan
  <2>1. \A j \in DOMAIN Plan : Passed(run'[s], j) <=> j < i + 1
    BY <1>1, <1>6 DEF Passed, Running
  <2>2. \A j \in DOMAIN Plan : j < i + 1 <=> j <= i
    BY <1>4
  <2> QED
    BY <1>1, <1>2, <1>5, <1>6, <2>1, <2>2 DEF InSection, Undisturbed, Running
<1>7. CASE run'[s].status = "done" /\ z.at = Len(Plan) + 1
  <2>1. i = Len(Plan)
    BY <1>1, <1>3, <1>4, <1>7
  <2>2. \A j \in DOMAIN Plan : Passed(run'[s], j) /\ j <= i
    BY <1>4, <1>7, <2>1 DEF Passed
  <2> QED
    BY <1>1, <1>2, <1>5, <1>7, <2>2 DEF InSection, Undisturbed, Running
<1> QED
  BY <1>2, <1>6, <1>7

\* What a run nobody interferes with has to show for its step.
LEMMA AlonePasses ==
    ASSUME RunsInv, AloneInv, NEW s \in Seeders, NEW i, NEW z, GoesOn(s, i, z),
           Undisturbed(run[s]) =>
             /\ \A j \in DOMAIN Plan : j < i /\ Achieved(j) => Achieved(j)'
             /\ Achieved(i)'
             /\ \A r \in Roles :
                  i + 1 \in MappingSteps /\ OfRole(i + 1, r) => z.role = role'[r]
             /\ i + 1 \in Steps("assign") => z.user = systemUser'
    PROVE  AloneInv'
<1>1. OthersWait(s) /\ run'[s].lost \subseteq run[s].lost /\ run'[s].saw = "nothing"
  BY Going DEF GoesOn
<1> SUFFICES ASSUME Undisturbed(run'[s]) PROVE AloneHolds(s)'
  BY <1>1, AloneMoves
<1>2. /\ \A j \in DOMAIN Plan : Passed(run'[s], j) <=> j <= i
      /\ \A j \in DOMAIN Plan : Passed(run[s], j) <=> j < i
      /\ Running(run'[s]) => run'[s] = z /\ i + 1 \in DOMAIN Plan
      /\ \A r : InSection(run'[s], r) => i + 1 \in MappingSteps /\ OfRole(i + 1, r)
      /\ Undisturbed(run[s])
  BY WentOn
<1>3. AloneHolds(s)
  BY <1>2 DEF AloneInv
<1>4. i \in DOMAIN Plan /\ z.at = i + 1 /\ \A j \in DOMAIN Plan : j \in Int
  BY SectionsAssumption DEF GoesOn
<1>5. ASSUME NEW j \in DOMAIN Plan, Passed(run'[s], j)
      PROVE  Achieved(j)'
  <2>1. j <= i
    BY <1>2, <1>5
  <2>2. CASE j = i
    BY <1>2, <2>2
  <2>3. CASE j < i
    BY <1>2, <1>3, <2>3 DEF AloneHolds
  <2> QED
    BY <1>4, <2>1, <2>2, <2>3
<1>6. \A r \in Roles : InSection(run'[s], r) => run'[s].role = role'[r]
  BY <1>2 DEF InSection
<1>7. Running(run'[s]) /\ run'[s].at \in Steps("assign") => run'[s].user = systemUser'
  BY <1>2, <1>4
<1>8. run'[s].lost = {}
  BY <1>1, <1>3 DEF AloneHolds
<1> QED
  BY <1>1, <1>5, <1>6, <1>7, <1>8 DEF AloneHolds

\* What a run among others has to show for it.
LEMMA CalmPasses ==
    ASSUME RunsInv, CalmInv, UNCHANGED Calm, NEW s \in Seeders, NEW i, NEW z,
           GoesOn(s, i, z),
           Calm => /\ systemUser'.licensed /\ Keeps(s) /\ Promised(i)'
                   /\ i + 1 \in Steps("assign") =>
                        z.user.licensed /\ (z.user.admin => systemUser'.admin)
                   /\ \A r \in Roles : i + 1 \in MappingSteps /\ OfRole(i + 1, r) =>
                        /\ \A j \in Steps("grant") : j < i + 1 /\ OfRole(j, r) =>
                             Plan[j].permission \in z.role.permissions
                        /\ \A p \in z.role.permissions : GrantedSoon(r, p)'
    PROVE  CalmInv'
<1>1. OthersWait(s) /\ run'[s].lost \subseteq run[s].lost /\ run'[s].saw = "nothing"
  BY Going DEF GoesOn
<1> SUFFICES ASSUME Calm PROVE CalmHolds(s)'
  BY <1>1, CalmMoves
<1>2. /\ \A j \in DOMAIN Plan : Passed(run'[s], j) <=> j <= i
      /\ \A j \in DOMAIN Plan : Passed(run[s], j) <=> j < i
      /\ Running(run'[s]) => run'[s] = z /\ i + 1 \in DOMAIN Plan
      /\ \A r : InSection(run'[s], r) => i + 1 \in MappingSteps /\ OfRole(i + 1, r)
  BY WentOn
<1>3. CalmHolds(s)
  BY DEF CalmInv
<1>4. i \in DOMAIN Plan /\ z.at = i + 1 /\ \A j \in DOMAIN Plan : j \in Int
  BY SectionsAssumption DEF GoesOn
<1>5. ASSUME NEW j \in DOMAIN Plan, Passed(run'[s], j)
      PROVE  Promised(j)'
  <2>1. j <= i
    BY <1>2, <1>5
  <2>2. CASE j = i
    BY <2>2
  <2>3. CASE j < i
    <3>1. Promised(j)
      BY <1>2, <1>3, <2>3 DEF CalmHolds
    <3> QED
      BY <1>1, <3>1, Kept
  <2> QED
    BY <1>4, <2>1, <2>2, <2>3
<1>6. ASSUME NEW r \in Roles, InSection(run'[s], r)
      PROVE  /\ \A j \in Steps("grant") : j < run'[s].at /\ OfRole(j, r) =>
                  Plan[j].permission \in run'[s].role.permissions
             /\ \A p \in run'[s].role.permissions : GrantedSoon(r, p)'
  <2>1. run'[s] = z /\ i + 1 \in MappingSteps /\ OfRole(i + 1, r)
    BY <1>2, <1>6 DEF InSection
  <2> QED
    BY <1>4, <2>1
<1>7. Running(run'[s]) /\ run'[s].at \in Steps("assign") =>
        run'[s].user.licensed /\ (run'[s].user.admin => systemUser'.admin)
  BY <1>2, <1>4
<1>8. run'[s].lost = {}
  BY <1>1, <1>3 DEF CalmHolds
<1> QED
  BY <1>1, <1>5, <1>6, <1>7, <1>8 DEF CalmHolds

-----------------------------------------------------------------------------
(* Steps that leave the roles alone, and processes that fail. *)

LEMMA StretchGoesOn ==
    ASSUME RunsInv, NEW s \in Seeders, NEW i, NEW z, GoesOn(s, i, z), NEW r,
           InStretch(run[s], r), i \in Steps("users") => ~OfRole(i, r)
    PROVE  InStretch(run'[s], r)
<1>1. i \in DOMAIN Plan /\ z.at = i + 1 /\ run[s].at = i
  BY DEF GoesOn
<1>2. DOMAIN Plan = 1..Len(Plan) /\ Len(Plan) \in Nat
  BY SectionsAssumption
<1>3. PICK l \in Steps("load") : l < i /\ OfRole(l, r)
  BY <1>1 DEF InStretch
<1>4. PICK j \in Steps("users") : i <= j /\ OfRole(j, r)
  BY <1>1 DEF InStretch
<1>5. l \in 1..Len(Plan) /\ j \in 1..Len(Plan) /\ j # i /\ i \in 1..Len(Plan)
  BY <1>1, <1>2, <1>4 DEF Steps
<1>6. l < i + 1 /\ i + 1 <= j /\ i + 1 # Len(Plan) + 1
  BY <1>2, <1>3, <1>4, <1>5
<1>7. Running(run'[s]) /\ run'[s] = z
  BY <1>1, <1>6, Going DEF GoesOn
<1> QED
  BY <1>1, <1>3, <1>4, <1>6, <1>7 DEF InStretch

LEMMA QuietKeeps ==
    ASSUME RunsInv, NEW s \in Seeders, NEW i, NEW z, GoesOn(s, i, z),
           i \notin MappingSteps, i \notin Steps("users"), role' = role,
           rows \subseteq rows', systemUser.admin => systemUser'.admin
    PROVE  Keeps(s)
<1>1. \A r : ~InSection(run[s], r)
  BY DEF GoesOn, InSection
<1>2. \A r : InStretch(run[s], r) => InStretch(run'[s], r)
  BY StretchGoesOn
<1> QED
  BY <1>1, <1>2 DEF Keeps, Owes

\* Process s stays at its step with the answer of a query, record y.
LEMMA Stays ==
    ASSUME IInv, NEW s \in Seeders, NEW y, Goes(s, y),
           UNCHANGED << rows, role, systemUser, Calm >>,
           Running(run[s]), y.at = run[s].at, y.alone = run[s].alone,
           y.lost = run[s].lost, Running(y), WellTyped(y), run[s].saw = "nothing",
           run[s].at \in MappingSteps \cup Steps("assign") =>
               y.role = run[s].role /\ y.user = run[s].user,
           PastUser(y) => UserFound,
           Undisturbed(run[s]) \/ Calm =>
               /\ y.saw # "missing"
               /\ y.saw = "counted" => y.count = Target(Plan[y.at].role)
               /\ \A r \in Roles :
                    InSection(y, r) /\ y.saw = "selected" => y.seen = role[r]
               /\ y.at \in Steps("assign") /\ y.saw = "selected" =>
                    y.seen = systemUser,
           Calm => y.saw # "unlicensed"
    PROVE  IInv'
<1>1. RunsInv /\ WellTyped(run[s]) /\ DOMAIN Plan = 1..Len(Plan) /\ Len(Plan) \in Nat
  BY SectionsAssumption DEF IInv, RunsInv
<1>2. After(y) = y
  BY <1>1 DEF After, WellTyped
<1>3. run'[s] = y /\ OthersWait(s)
  BY <1>1, <1>2, GoesIs, MovesIs
<1>4. /\ \A r : InSection(y, r) <=> InSection(run[s], r)
      /\ \A r : InStretch(run[s], r) => InStretch(y, r)
      /\ \A i : Passed(y, i) <=> Passed(run[s], i)
      /\ Undisturbed(y) => Undisturbed(run[s])
  BY DEF InSection, InStretch, Passed, Undisturbed, Running
<1>5. \A r : InSection(y, r) => y.role = run[s].role
  BY DEF InSection
<1>6. TablesInv'
  BY DEF IInv, TablesInv, Found
<1>7. RunsInv'
  BY <1>1, <1>3, RunsMove
<1>8. UserInv'
  BY <1>3, UserMoves DEF IInv, UserFound, UserInv, Found
<1>9. AloneInv'
  <2>1. \A i \in DOMAIN Plan : Achieved(i)' <=> Achieved(i)
    BY DEF Achieved, Found
  <2>2. ASSUME Undisturbed(run'[s]) PROVE AloneHolds(s)'
    <3>1. AloneHolds(s) /\ Undisturbed(run[s])
      BY <1>3, <1>4, <2>2 DEF IInv, AloneInv
    <3>2. \A i \in DOMAIN Plan : Passed(y, i) => Achieved(i)'
      BY <1>4, <2>1, <3>1 DEF AloneHolds
    <3>3. \A r \in Roles : InSection(y, r) =>
            y.role = role'[r] /\ (y.saw = "selected" => y.seen = role'[r])
      BY <1>4, <1>5, <3>1 DEF AloneHolds
    <3>4. Running(y) /\ y.at \in Steps("assign") =>
            y.user = systemUser' /\ (y.saw = "selected" => y.seen = systemUser')
      BY <3>1 DEF AloneHolds
    <3> QED
      BY <1>3, <1>4, <2>2, <3>1, <3>2, <3>3, <3>4 DEF AloneHolds
  <2> QED
    BY <1>3, <2>2, AloneMoves DEF IInv
<1>10. CalmInv'
  <2>1. ASSUME Calm PROVE Keeps(s) /\ CalmHolds(s)' /\ systemUser'.licensed
    <3>1. CalmHolds(s) /\ systemUser.licensed
      BY <2>1 DEF IInv, CalmInv
    <3>2. ASSUME NEW r \in Roles, NEW p, Owes(run[s], r, p)
          PROVE  p \in role'[r].permissions \/ Owes(y, r, p)
      <4>1. InSection(y, r) /\ y.role = run[s].role /\ p \notin y.role.permissions
        BY <1>4, <1>5, <3>2 DEF Owes
      <4>2. CASE y.saw = "selected"
        BY <2>1, <4>1, <4>2 DEF Owes
      <4>3. CASE y.saw # "selected"
        BY <4>1, <4>3 DEF Owes
      <4> QED
        BY <4>2, <4>3
    <3>3. Keeps(s)
      BY <1>3, <1>4, <3>2 DEF Keeps
    <3>4. \A i \in DOMAIN Plan : Passed(y, i) => Promised(i)'
      BY <1>3, <1>4, <3>1, <3>3, Kept DEF CalmHolds
    <3>5. ASSUME NEW r \in Roles, InSection(y, r)
          PROVE  /\ \A i \in Steps("grant") :
                      i < y.at /\ OfRole(i, r) => Plan[i].permission \in y.role.permissions
                 /\ \A p \in y.role.permissions : GrantedSoon(r, p)'
                 /\ y.saw = "selected" =>
                      \A p \in y.seen.permissions : GrantedSoon(r, p)'
      <4>1. InSection(run[s], r) /\ y.role = run[s].role /\ run[s].role \in RoleRow(r)
        BY <1>1, <1>4, <1>5, <3>5 DEF WellTyped
      <4>2. \A p \in y.role.permissions : p \in PermissionsOf(r) /\ GrantedSoon(r, p)
        BY <3>1, <4>1 DEF CalmHolds, RoleRow
      <4>3. \A p \in y.role.permissions : GrantedSoon(r, p)'
        BY <1>3, <3>3, <4>2, Kept
      <4>4. y.saw = "selected" => \A p \in y.seen.permissions : GrantedSoon(r, p)'
        BY <2>1, <3>5 DEF GrantedSoon
      <4> QED
        BY <3>1, <4>1, <4>3, <4>4 DEF CalmHolds
    <3>6. /\ y.lost = {} /\ y.saw \notin {"unlicensed", "missing"}
          /\ Running(y) /\ y.at \in Steps("assign") =>
               y.user.licensed /\ (y.user.admin => systemUser'.admin)
          /\ Running(y) /\ y.saw = "counted" => y.count = Target(Plan[y.at].role)
      BY <2>1, <3>1 DEF CalmHolds
    <3> QED
      BY <1>3, <3>1, <3>3, <3>4, <3>5, <3>6 DEF CalmHolds
  <2> QED
    BY <1>1, <1>3, <2>1, CalmMoves DEF IInv
<1> QED
  BY <1>6, <1>7, <1>8, <1>9, <1>10 DEF IInv

\* A process that fails had nothing promised, while the rest is calm.
LEMMA Failing ==
    ASSUME IInv, NEW s \in Seeders, Fails(s), UNCHANGED << rows, role, systemUser >>,
           UNCHANGED Calm \/ ~Calm', Calm' => run[s].at \in Steps("row")
    PROVE  IInv'
<1> DEFINE y == [Idle EXCEPT !.status = "failed"]
<1>1. Moves(s, y)
  BY DEF Fails, Moves
<1>2. /\ WellTyped(y) /\ ~Undisturbed(y) /\ y.status \in {"idle", "failed"}
      /\ y.lost = {} /\ y.saw = "nothing"
  BY IdleTyped
<1>3. run'[s] = y /\ OthersWait(s)
  BY <1>1, MovesIs DEF IInv
<1> HIDE DEF y
<1>4. /\ ~Running(y) /\ ~PastUser(y) /\ y.lost = {} /\ y.saw = "nothing"
      /\ \A i : ~Passed(y, i)
      /\ \A r : ~InSection(y, r)
  BY <1>2 DEF Running, PastUser, Passed, InSection
<1>5. TablesInv'
  BY DEF IInv, TablesInv, Found
<1>6. RunsInv'
  BY <1>2, <1>3, RunsMove DEF IInv
<1>7. UserInv'
  BY <1>3, <1>4, UserMoves DEF IInv, UserFound, UserInv, Found
<1>8. AloneInv'
  BY <1>2, <1>3, AloneMoves DEF IInv
<1>9. ASSUME Calm' PROVE Keeps(s)
  <2>1. run[s].at \in Steps("row") /\ run[s].at \in DOMAIN Plan
    BY <1>9 DEF Steps
  <2>2. \A r : ~InSection(run[s], r)
    BY <2>1, StepsAre DEF InSection
  <2>3. ASSUME NEW r, InStretch(run[s], r) PROVE FALSE
    <3>1. PICK l \in Steps("load") : l < run[s].at
      BY <2>3 DEF InStretch
    <3>2. PICK j \in Steps("users") : run[s].at <= j
      BY <2>3 DEF InStretch
    <3>3. l \in Int /\ j \in Int /\ run[s].at \in Int
      BY <2>1, SectionsAssumption DEF Steps
    <3>4. run[s].at \in l..j
      BY <3>1, <3>2, <3>3
    <3>5. \A k \in l..j : Plan[k].op # "row"
      BY OrderAssumption
    <3> QED
      BY <2>1, <3>4, <3>5 DEF Steps
  <2> QED
    BY <2>2, <2>3 DEF Keeps, Owes
<1>10. CalmInv'
  <2>1. CASE ~Calm'
    BY <2>1 DEF CalmInv
  <2>2. CASE Calm'
    <3>1. CalmHolds(s)'
      BY <1>3, <1>4 DEF CalmHolds
    <3> QED
      BY <1>3, <1>9, <2>2, <3>1, CalmMoves DEF IInv, CalmInv
  <2> QED
    BY <2>1, <2>2
<1> QED
  BY <1>5, <1>6, <1>7, <1>8, <1>10 DEF IInv

-----------------------------------------------------------------------------
(* What a process at a step knows. *)

LEMMA AtStep ==
    ASSUME RunsInv, NEW s \in Seeders, NEW op, At(s, op)
    PROVE  /\ run[s].at \in DOMAIN Plan /\ run[s].at \in Steps(op)
           /\ Plan[run[s].at].op = op
           /\ Running(run[s]) /\ run[s] \in RunRecord /\ WellTyped(run[s])
           /\ DOMAIN Plan = 1..Len(Plan) /\ Len(Plan) \in Nat
BY SectionsAssumption DEF At, RunsInv, WellTyped, Running, Steps

LEMMA PastTyped ==
    ASSUME NEW x \in RunRecord, Running(x), NEW n \in Nat, 0 < n,
           x.at + n <= Len(Plan) + 1
    PROVE  LET z == Past(x, n)
           IN  /\ z \in RunRecord /\ Running(z) /\ z.saw = "nothing"
               /\ z.at = x.at + n /\ z.alone = x.alone /\ z.lost = x.lost
               /\ z.role = x.role /\ z.user = x.user /\ z.count = x.count
<1> DEFINE z == Past(x, n)
<1>1. x.at \in 1..(Len(Plan) + 1) /\ Len(Plan) \in Nat
  BY SectionsAssumption DEF RunRecord
<1>2. x.at + n \in 1..(Len(Plan) + 1)
  BY <1>1
<1>3. z \in RunRecord
  BY <1>2, NewRoleTyped DEF Past, RunRecord
<1> QED
  BY <1>3 DEF Past, RunRecord, Running

LEMMA HoldsTyped ==
    ASSUME NEW x \in RunRecord, NEW row
    PROVE  LET z == Holds(x, row)
           IN  /\ z \in RunRecord /\ (Running(z) <=> Running(x)) /\ z.saw = x.saw
               /\ z.at = x.at /\ z.alone = x.alone /\ z.lost \subseteq x.lost
               /\ z.role = x.role /\ z.user = x.user /\ z.count = x.count
<1> DEFINE z == Holds(x, row)
<1>1. x.lost \ {<<row.table, row.find>>} \in SUBSET Ref
  BY DEF RunRecord
<1>2. z \in RunRecord
  BY <1>1 DEF Holds, RunRecord
<1> QED
  BY <1>1, <1>2 DEF Holds, RunRecord, Running

\* What an earlier step has planted is there, unless somebody interferes.
LEMMA EarlierFound ==
    ASSUME IInv, NEW s \in Seeders, Running(run[s]), Undisturbed(run[s]) \/ Calm,
           NEW j \in Steps("row"), j < run[s].at
    PROVE  Found(Plan[j].row.table, Plan[j].row.find)
<1>1. j \in DOMAIN Plan /\ Passed(run[s], j)
  BY DEF Steps, Passed
<1>2. CASE Undisturbed(run[s])
  BY <1>1, <1>2 DEF IInv, AloneInv, AloneHolds, Achieved
<1>3. CASE Calm
  BY <1>1, <1>3 DEF IInv, CalmInv, CalmHolds, Promised
<1> QED
  BY <1>2, <1>3

LEMMA NothingLost ==
    ASSUME IInv, NEW s \in Seeders, Undisturbed(run[s]) \/ Calm
    PROVE  run[s].lost = {}
BY DEF IInv, AloneInv, CalmInv, AloneHolds, CalmHolds

LEMMA NeedFound ==
    ASSUME IInv, NEW s \in Seeders, At(s, "need"), Undisturbed(run[s]) \/ Calm
    PROVE  Found(Plan[run[s].at].table, Plan[run[s].at].find)
<1> DEFINE i == run[s].at
<1>1. i \in Steps("need") /\ Running(run[s])
  BY AtStep DEF IInv
<1>2. DOMAIN Plan = 1..Len(Plan) /\ Len(Plan) \in Nat /\ i \in 1..Len(Plan)
  BY AtStep DEF IInv
<1>3. PICK j \in 1..(i - 1) : Planted(j, Plan[i].table, Plan[i].find)
  BY <1>1, OrderAssumption
<1>4. j \in DOMAIN Plan /\ j < i
  BY <1>2
<1>5. /\ Plan[j].row.table = Plan[i].table /\ Plan[j].row.find = Plan[i].find
      /\ j \in Steps("row")
  BY <1>3, <1>4 DEF Planted, Steps
<1>6. Found(Plan[j].row.table, Plan[j].row.find)
  BY <1>1, <1>4, <1>5, EarlierFound
<1> QED
  BY <1>5, <1>6

LEMMA RoleFound ==
    ASSUME IInv, NEW s \in Seeders, Undisturbed(run[s]) \/ Calm, Running(run[s]),
           run[s].at \in Steps("load") \cup MappingSteps \cup Steps("users")
    PROVE  Found("role", Plan[run[s].at].role)
<1> DEFINE i == run[s].at
           r == Plan[i].role
<1>1. DOMAIN Plan = 1..Len(Plan) /\ Len(Plan) \in Nat /\ i \in 1..Len(Plan)
  BY SectionsAssumption DEF Steps, MappingSteps
<1>2. PICK j \in 1..(i - 1) : Plan[j].op = "row" /\ Plan[j].row = Row("role", r)
  BY OrderAssumption
<1>3. j \in DOMAIN Plan /\ j < i
  BY <1>1
<1>4. j \in Steps("row") /\ Plan[j].row.table = "role" /\ Plan[j].row.find = r
  BY <1>2, <1>3 DEF Steps, Row
<1>5. Found(Plan[j].row.table, Plan[j].row.find)
  BY <1>3, <1>4, EarlierFound
<1> QED
  BY <1>4, <1>5

\* The rows of roles are found by their keys.
LEMMA RoleRowIs ==
    \A row \in PlannedRows : row.table = "role" =>
        row.find = row.key /\ row.key \in Roles /\ row = Row("role", row.key)
<1> SUFFICES ASSUME NEW row \in PlannedRows, row.table = "role"
             PROVE  row.find = row.key /\ row.key \in Roles /\ row = Row("role", row.key)
  OBVIOUS
<1>1. PICK i \in Steps("row") : row = Plan[i].row
  BY DEF PlannedRows, Steps
<1>2. row.key \in Roles /\ row = Row("role", row.key)
  BY <1>1, OrderAssumption
<1> QED
  BY <1>2 DEF Row

\* There is one row in the plan for users, its first.
LEMMA UserRowIs ==
    /\ 1 \in Steps("row") /\ 1 \in DOMAIN Plan
    /\ Plan[1].row.table = "user" /\ Plan[1].row.find = "system"
    /\ \A row \in PlannedRows : row.table = "user" => row = Plan[1].row
BY SectionsAssumption, OrderAssumption DEF Planted, Steps, PlannedRows

\* What may come after a step.
LEMMA AfterStep ==
    ASSUME NEW i \in DOMAIN Plan
    PROVE  /\ i \in Nat /\ i + 1 <= Len(Plan) + 1
           /\ i + 1 \in MappingSteps => /\ Plan[i].op \in {"load", "grant"}
                                       /\ OfRole(i + 1, Plan[i].role)
           /\ i + 1 \in Steps("assign") => Plan[i].op = "loadUser"
           /\ Plan[i].op \in {"load", "grant"} =>
                i + 1 \in MappingSteps /\ OfRole(i + 1, Plan[i].role)
<1>1. i \in Nat /\ i + 1 <= Len(Plan) + 1 /\ (i + 1) - 1 = i
  BY SectionsAssumption
<1>2. ASSUME i + 1 \in MappingSteps
      PROVE  Plan[i].op \in {"load", "grant"} /\ OfRole(i + 1, Plan[i].role)
  <2>1. i \in Steps("load") \cup Steps("grant") /\ OfRole(i, Plan[i + 1].role)
    BY <1>1, <1>2, SectionsAssumption
  <2> QED
    BY <2>1 DEF Steps, OfRole
<1>3. ASSUME i + 1 \in Steps("assign") PROVE Plan[i].op = "loadUser"
  <2>1. i \in Steps("loadUser")
    BY <1>1, <1>3, SectionsAssumption
  <2> QED
    BY <2>1 DEF Steps
<1>4. ASSUME Plan[i].op \in {"load", "grant"}
      PROVE  i + 1 \in MappingSteps /\ OfRole(i + 1, Plan[i].role)
  BY <1>4, SectionsAssumption DEF Steps
<1> QED
  BY <1>1, <1>2, <1>3, <1>4

-----------------------------------------------------------------------------
(* The steps of a process, one by one. *)

\* The tables part, and the user's, of a step that writes none of them.
LEMMA TablesStay ==
    ASSUME IInv, UNCHANGED << rows, role, systemUser >>
    PROVE  /\ TablesInv' /\ (UserFound' <=> UserFound)
           /\ \A i : Achieved(i)' <=> Achieved(i)
           /\ \A table, find : Found(table, find)' <=> Found(table, find)
BY DEF IInv, TablesInv, Found, UserFound, Achieved

\* Process s goes on from a step that writes no role.
LEMMA PassesQuietly ==
    ASSUME IInv, NEW s \in Seeders, NEW i \in DOMAIN Plan, NEW z, GoesOn(s, i, z),
           UNCHANGED << role, Calm >>, TablesInv', rows \subseteq rows', UserFound',
           i \notin MappingSteps, i \notin Steps("users"),
           Undisturbed(run[s]) \/ Calm =>
             /\ systemUser.licensed => systemUser'.licensed
             /\ systemUser.admin => systemUser'.admin,
           Undisturbed(run[s]) => Achieved(i)',
           Calm => Promised(i)',
           i + 1 \in Steps("assign") =>
             z.user = systemUser' /\ (Calm => systemUser'.licensed),
           \A r \in Roles : i + 1 \in MappingSteps /\ OfRole(i + 1, r) =>
             z.role = role[r] /\ \A j \in Steps("grant") : OfRole(j, r) => ~(j < i + 1)
    PROVE  IInv'
<1> USE DEF IInv
<1>1. RunsInv' /\ OthersWait(s)
  BY Going DEF GoesOn
<1>2. UserInv'
  BY <1>1, UserMoves
<1>3. AloneInv'
  <2>1. ASSUME Undisturbed(run[s]), NEW j \in DOMAIN Plan, Achieved(j)
        PROVE  Achieved(j)'
    BY <2>1 DEF Achieved, Found
  <2> QED
    BY <2>1, AlonePasses
<1>4. CalmInv'
  <2>1. ASSUME Calm PROVE Keeps(s) /\ systemUser'.licensed
    <3>1. Keeps(s)
      BY <2>1, QuietKeeps
    <3> QED
      BY <2>1, <3>1 DEF CalmInv
  <2>2. ASSUME Calm, NEW r \in Roles, i + 1 \in MappingSteps, OfRole(i + 1, r)
        PROVE  \A p \in z.role.permissions : GrantedSoon(r, p)'
    BY <2>2 DEF GrantedSoon
  <2> QED
    BY <2>1, <2>2, CalmPasses
<1> QED
  BY <1>1, <1>2, <1>3, <1>4

\* Process s skips steps for a row that is missing: somebody interferes.
LEMMA Skips ==
    ASSUME IInv, NEW s \in Seeders, NEW z, Goes(s, z), Leaves(run[s], z),
           UNCHANGED << rows, role, systemUser, Calm >>, UserFound,
           ~Undisturbed(run[s]), ~Calm, Running(run[s])
    PROVE  IInv'
<1> USE DEF IInv
<1>1. RunsInv' /\ OthersWait(s) /\ run'[s].alone = run[s].alone
  BY Going
<1>2. ~Undisturbed(run'[s])
  BY <1>1 DEF Undisturbed, Running
<1>3. UserInv'
  BY <1>1, TablesStay, UserMoves
<1>4. AloneInv'
  BY <1>1, <1>2, AloneMoves
<1>5. CalmInv'
  BY DEF CalmInv
<1> QED
  BY <1>1, <1>3, <1>4, <1>5, TablesStay

LEMMA FindStep == ASSUME IInv, NEW s \in Seeders, Find(s) PROVE IInv'
<1> USE DEF IInv
<1>1. /\ At(s, "row") /\ run[s].saw = "nothing"
      /\ UNCHANGED << rows, role, systemUser, Calm >>
  BY DEF Find, Calm
<1> PICK i \in DOMAIN Plan : i = run[s].at
  BY <1>1, AtStep
<1> DEFINE step == Plan[i]
<1>2. /\ i = run[s].at /\ i \in DOMAIN Plan /\ i \in Steps("row") /\ Plan[i].op = "row"
      /\ Running(run[s]) /\ run[s] \in RunRecord /\ WellTyped(run[s])
      /\ DOMAIN Plan = 1..Len(Plan) /\ Len(Plan) \in Nat
  BY <1>1, AtStep
<1>3. i \notin MappingSteps /\ i \notin Steps("assign") /\ i \notin Steps("users")
  BY <1>2, StepsAre
<1>5. CASE ~Found(step.row.table, step.row.find)
  <2> DEFINE y == [run[s] EXCEPT !.saw = "absent"]
  <2>1. Goes(s, y)
    BY <1>5 DEF Find
  <2>2. /\ y \in RunRecord /\ y.saw = "absent" /\ y.at = i /\ y.status = run[s].status
        /\ y.alone = run[s].alone /\ y.lost = run[s].lost
    BY <1>2 DEF RunRecord
  <2> HIDE DEF y
  <2>3. Running(y) /\ (PastUser(y) => PastUser(run[s]))
    BY <1>2, <2>2 DEF Running, PastUser
  <2>4. WellTyped(y)
    BY <1>2, <1>3, <2>2, <2>3 DEF WellTyped, InSection, Running
  <2> QED
    BY <1>1, <1>2, <1>3, <2>1, <2>2, <2>3, <2>4, Stays DEF UserInv
<1>6. CASE Found(step.row.table, step.row.find) /\ step.row.table = "user"
           /\ ~systemUser.licensed
  <2> DEFINE y == [run[s] EXCEPT !.saw = "unlicensed", !.user = systemUser]
  <2>1. Goes(s, y)
    BY <1>6 DEF Find
  <2>2. systemUser \in UserRow /\ i = 1 /\ UserFound
    BY <1>2, <1>6, OrderAssumption, UserRowIs DEF TablesInv, UserFound
  <2>3. /\ y \in RunRecord /\ y.saw = "unlicensed" /\ y.at = i /\ y.status = run[s].status
        /\ y.alone = run[s].alone /\ y.lost = run[s].lost
    BY <1>2, <2>2 DEF RunRecord
  <2> HIDE DEF y
  <2>4. Running(y) /\ ~Calm
    BY <1>2, <1>6, <2>3 DEF Running, CalmInv
  <2>5. WellTyped(y)
    BY <1>2, <1>3, <2>2, <2>3, <2>4 DEF WellTyped, InSection, Running
  <2> QED
    BY <1>1, <1>2, <1>3, <2>1, <2>2, <2>3, <2>4, <2>5, Stays
<1>7. CASE Found(step.row.table, step.row.find)
           /\ ~(step.row.table = "user" /\ ~systemUser.licensed)
  <2> DEFINE z == Holds(Past(run[s], 1), step.row)
  <2>1. Goes(s, z)
    BY <1>7 DEF Find
  <2>2. i \in Nat /\ i + 1 <= Len(Plan) + 1
    BY AfterStep
  <2>3. /\ z \in RunRecord /\ Running(z) /\ z.saw = "nothing" /\ z.at = i + 1
        /\ z.alone = run[s].alone /\ z.lost \subseteq run[s].lost
    BY <1>2, <2>2, PastTyped, HoldsTyped
  <2> HIDE DEF z
  <2>4. i + 1 \notin MappingSteps /\ i + 1 \notin Steps("assign")
    BY <1>2, AfterStep
  <2>5. GoesOn(s, i, z)
    BY <1>2, <2>1, <2>3, <2>4 DEF GoesOn, Leaves
  <2>6. Achieved(i)' /\ Promised(i)'
    <3>1. i = 1 => systemUser.licensed
      BY <1>7, UserRowIs
    <3>2. Achieved(i) /\ (Promised(i)' <=> Found(step.row.table, step.row.find)')
      BY <1>2, <1>3, <1>7, <3>1 DEF Achieved, Promised, MappingSteps
    <3> QED
      BY <1>1, <1>7, <3>2, TablesStay
  <2>7. UserFound'
    BY <1>1, <1>2, <1>7, TablesStay, UserRowIs DEF UserFound, UserInv, PastUser
  <2> QED
    BY <1>1, <1>3, <2>4, <2>5, <2>6, <2>7, TablesStay, PassesQuietly
<1> QED
  BY <1>5, <1>6, <1>7

LEMMA SaveStep == ASSUME IInv, NEW s \in Seeders, Save(s) PROVE IInv'
<1> USE DEF IInv
<1>1. /\ At(s, "row") /\ run[s].saw = "absent" /\ UNCHANGED << systemUser, Calm >>
  BY DEF Save, Calm
<1> PICK i \in DOMAIN Plan : i = run[s].at
  BY <1>1, AtStep
<1> DEFINE step == Plan[i]
<1>2. /\ i = run[s].at /\ i \in Steps("row") /\ Plan[i].op = "row"
      /\ Running(run[s]) /\ run[s] \in RunRecord
  BY <1>1, AtStep
<1>3. i \notin MappingSteps /\ i \notin Steps("assign") /\ i \notin Steps("users")
  BY <1>2, StepsAre
<1> DEFINE Taken == \E row \in rows : row.table = step.row.table /\ row.key = step.row.key
<1>4. CASE Taken \/ step.refs \cap run[s].lost # {}
  <2>1. Fails(s) /\ UNCHANGED << rows, role >>
    BY <1>2, <1>4 DEF Save
  <2> QED
    BY <1>1, <1>2, <2>1, Failing
<1>5. CASE ~(Taken \/ step.refs \cap run[s].lost # {})
  <2> DEFINE z == Holds(Past(run[s], 1), step.row)
  <2>1. /\ Goes(s, z) /\ rows' = rows \cup {step.row}
        /\ role' = IF step.row.table = "role"
                   THEN [role EXCEPT ![step.row.key] = NewRole] ELSE role
    BY <1>2, <1>5 DEF Save
  <2>2. i \in Nat /\ i + 1 <= Len(Plan) + 1
    BY AfterStep
  <2>3. /\ z \in RunRecord /\ Running(z) /\ z.saw = "nothing" /\ z.at = i + 1
        /\ z.alone = run[s].alone /\ z.lost \subseteq run[s].lost
    BY <1>2, <2>2, PastTyped, HoldsTyped
  <2> HIDE DEF z
  <2>4. i + 1 \notin MappingSteps /\ i + 1 \notin Steps("assign")
    BY <1>2, AfterStep
  <2>5. GoesOn(s, i, z)
    BY <1>2, <2>1, <2>3, <2>4 DEF GoesOn, Leaves
  <2>6. step.row \in PlannedRows
    BY <1>2 DEF PlannedRows, Steps
  <2>7. role' = role
    <3>1. CASE step.row.table = "role"
      <4>1. step.row.key \in Roles
        BY <2>6, <3>1, RoleRowIs
      <4>2. ~Found("role", step.row.key)
        BY <1>5, <3>1, RoleRowIs DEF Found, TablesInv
      <4>3. role[step.row.key] = NewRole /\ role \in [Roles -> RoleCopy]
        BY <4>1, <4>2 DEF TablesInv
      <4> QED
        BY <2>1, <3>1, <4>1, <4>3
    <3>2. CASE step.row.table # "role"
      BY <2>1, <3>2
    <3> QED
      BY <3>1, <3>2
  <2>8. TablesInv'
    BY <1>1, <2>1, <2>6, <2>7 DEF TablesInv, Found
  <2>9. UserFound'
    BY <1>2, <2>1, UserRowIs DEF UserFound, UserInv, PastUser, Found
  <2>10. Found(step.row.table, step.row.find)'
    BY <2>1 DEF Found
  <2>11. i = 1 => systemUser.licensed
    <3>1. ASSUME i = 1 PROVE ~UserFound
      <4>1. step.row = Plan[1].row
        BY <3>1
      <4> QED
        BY <1>5, <4>1, UserRowIs DEF UserFound, Found, TablesInv
    <3> QED
      BY <3>1 DEF UserInv
  <2>12. Achieved(i)' /\ Promised(i)'
    BY <1>1, <1>2, <1>3, <2>10, <2>11 DEF Achieved, Promised, MappingSteps
  <2> QED
    BY <1>1, <1>3, <2>1, <2>4, <2>5, <2>7, <2>8, <2>9, <2>12, PassesQuietly
<1> QED
  BY <1>4, <1>5

LEMMA LicenseStep == ASSUME IInv, NEW s \in Seeders, License(s) PROVE IInv'
<1> USE DEF IInv
<1>1. /\ At(s, "row") /\ run[s].saw = "unlicensed" /\ UNCHANGED << rows, role, Calm >>
      /\ systemUser' = [systemUser EXCEPT !.licensed = TRUE]
      /\ Goes(s, Past(run[s], 1))
  BY DEF License, Calm
<1> PICK i \in DOMAIN Plan : i = run[s].at
  BY <1>1, AtStep
<1> DEFINE z == Past(run[s], 1)
<1>2. /\ i = run[s].at /\ i \in Steps("row") /\ Plan[i].op = "row"
      /\ Running(run[s]) /\ run[s] \in RunRecord /\ WellTyped(run[s])
  BY <1>1, AtStep
<1>3. i \notin MappingSteps /\ i \notin Steps("assign") /\ i \notin Steps("users") /\ i = 1
  BY <1>1, <1>2, StepsAre DEF WellTyped
<1>4. i \in Nat /\ i + 1 <= Len(Plan) + 1
  BY AfterStep
<1>5. /\ z \in RunRecord /\ Running(z) /\ z.saw = "nothing" /\ z.at = i + 1
      /\ z.alone = run[s].alone /\ z.lost = run[s].lost
  BY <1>2, <1>4, PastTyped
<1>6. Goes(s, z)
  BY <1>1
<1> HIDE DEF z
<1>7. i + 1 \notin MappingSteps /\ i + 1 \notin Steps("assign")
  BY <1>2, AfterStep
<1>8. GoesOn(s, i, z)
  BY <1>2, <1>5, <1>6, <1>7 DEF GoesOn, Leaves
<1>9. systemUser' \in UserRow /\ systemUser'.licensed
  BY <1>1 DEF UserRow, TablesInv
<1>10. ~Calm
  BY <1>1 DEF CalmInv, CalmHolds
<1>11. UserFound' /\ UserFound
  BY <1>1, <1>2 DEF UserFound, UserInv, PastUser, Found
<1>12. TablesInv'
  BY <1>1, <1>9 DEF TablesInv, Found
<1>13. Achieved(i)'
  BY <1>2, <1>3, <1>9, <1>11, UserRowIs DEF Achieved, UserFound, MappingSteps
<1>14. RunsInv' /\ OthersWait(s)
  BY <1>8, Going DEF GoesOn
<1>15. UserInv'
  BY <1>11, <1>14, UserMoves
<1>16. AloneInv'
  <2>1. \A j \in DOMAIN Plan : ~(j < i)
    BY <1>3, SectionsAssumption
  <2> QED
    BY <1>7, <1>8, <1>13, <2>1, AlonePasses
<1>17. CalmInv'
  BY <1>1, <1>10 DEF CalmInv
<1> QED
  BY <1>12, <1>14, <1>15, <1>16, <1>17

LEMMA LookStep == ASSUME IInv, NEW s \in Seeders, Look(s) PROVE IInv'
<1> USE DEF IInv
<1>1. At(s, "need") /\ UNCHANGED << rows, role, systemUser, Calm >>
  BY DEF Look, Calm
<1> PICK i \in DOMAIN Plan : i = run[s].at
  BY <1>1, AtStep
<1> DEFINE step == Plan[i]
<1>2. /\ i = run[s].at /\ i \in Steps("need") /\ Plan[i].op = "need"
      /\ Running(run[s]) /\ run[s] \in RunRecord
  BY <1>1, AtStep
<1>3. /\ i \notin MappingSteps /\ i \notin Steps("assign") /\ i \notin Steps("users")
      /\ i \notin Steps("row") /\ i # 1
  BY <1>2, StepsAre, UserRowIs
<1>4. UserFound
  BY <1>2, <1>3 DEF UserInv, PastUser
<1>5. CASE Found(step.table, step.find)
  <2> DEFINE z == Holds(Past(run[s], 1), step)
  <2>1. Goes(s, z)
    BY <1>2, <1>5 DEF Look
  <2>2. i \in Nat /\ i + 1 <= Len(Plan) + 1
    BY AfterStep
  <2>3. /\ z \in RunRecord /\ Running(z) /\ z.saw = "nothing" /\ z.at = i + 1
        /\ z.alone = run[s].alone /\ z.lost \subseteq run[s].lost
    BY <1>2, <2>2, PastTyped, HoldsTyped
  <2> HIDE DEF z
  <2>4. i + 1 \notin MappingSteps /\ i + 1 \notin Steps("assign")
    BY <1>2, AfterStep
  <2>5. GoesOn(s, i, z)
    BY <1>2, <2>1, <2>3, <2>4 DEF GoesOn, Leaves
  <2>6. Achieved(i)' /\ Promised(i)'
    BY <1>3 DEF Achieved, Promised, MappingSteps
  <2> QED
    BY <1>1, <1>3, <1>4, <2>4, <2>5, <2>6, TablesStay, PassesQuietly
<1>6. CASE ~Found(step.table, step.find)
  <2> DEFINE n == step.skip + 1
             z == Past(run[s], n)
  <2>1. Goes(s, z)
    BY <1>2, <1>6 DEF Look
  <2>2. /\ step.skip \in Nat /\ i + step.skip + 1 <= Len(Plan) + 1
        /\ i + step.skip + 1 \notin MappingSteps \cup Steps("assign")
    BY <1>2, SectionsAssumption
  <2>3. n \in Nat /\ 0 < n /\ i + n = i + step.skip + 1
    BY <2>2, AfterStep
  <2> HIDE DEF n
  <2>4. /\ z \in RunRecord /\ Running(z) /\ z.saw = "nothing" /\ z.at = i + n
        /\ z.alone = run[s].alone /\ z.lost = run[s].lost
    BY <1>2, <2>2, <2>3, PastTyped
  <2> HIDE DEF z
  <2>5. Leaves(run[s], z)
    BY <2>2, <2>3, <2>4 DEF Leaves
  <2>6. ~Undisturbed(run[s]) /\ ~Calm
    BY <1>1, <1>2, <1>6, NeedFound
  <2> QED
    BY <1>1, <1>2, <1>4, <2>1, <2>5, <2>6, Skips
<1> QED
  BY <1>5, <1>6

LEMMA LoadUserStep == ASSUME IInv, NEW s \in Seeders, LoadUser(s) PROVE IInv'
<1> USE DEF IInv
<1>1. At(s, "loadUser") /\ UNCHANGED << rows, role, systemUser, Calm >>
  BY DEF LoadUser, Calm
<1> PICK i \in DOMAIN Plan : i = run[s].at
  BY <1>1, AtStep
<1> DEFINE p == Past(run[s], 1)
           z == [p EXCEPT !.user = systemUser]
<1>2. /\ i = run[s].at /\ Plan[i].op = "loadUser"
      /\ Running(run[s]) /\ run[s] \in RunRecord
  BY <1>1, AtStep
<1>3. /\ i \notin MappingSteps /\ i \notin Steps("assign") /\ i \notin Steps("users")
      /\ i \notin Steps("row") /\ i # 1
  BY <1>2, StepsAre, UserRowIs
<1>4. UserFound
  BY <1>2, <1>3 DEF UserInv, PastUser
<1>5. Goes(s, z)
  BY DEF LoadUser
<1>6. i \in Nat /\ i + 1 <= Len(Plan) + 1
  BY AfterStep
<1>7. /\ p \in RunRecord /\ Running(p) /\ p.saw = "nothing" /\ p.at = i + 1
      /\ p.alone = run[s].alone /\ p.lost = run[s].lost
  BY <1>2, <1>6, PastTyped
<1> HIDE DEF p
<1>8. /\ z \in RunRecord /\ Running(z) /\ z.saw = "nothing" /\ z.at = i + 1
      /\ z.alone = run[s].alone /\ z.lost = run[s].lost /\ z.user = systemUser
  BY <1>7 DEF RunRecord, TablesInv, Running
<1> HIDE DEF z
<1>9. i + 1 \notin MappingSteps
  BY <1>2, AfterStep
<1>10. GoesOn(s, i, z)
  BY <1>2, <1>5, <1>8, <1>9 DEF GoesOn, Leaves
<1>11. Achieved(i)' /\ Promised(i)'
  BY <1>3 DEF Achieved, Promised, MappingSteps
<1>12. z.user = systemUser' /\ (Calm => systemUser'.licensed)
  BY <1>1, <1>8 DEF CalmInv
<1> QED
  BY <1>1, <1>3, <1>4, <1>9, <1>10, <1>11, <1>12, TablesStay, PassesQuietly

\* Skipping k steps after the next one.
LEMMA PlacesAfter ==
    ASSUME NEW i \in Nat, NEW k \in Nat
    PROVE  k + 1 \in Nat /\ 0 < k + 1 /\ i + (k + 1) = i + k + 1
OBVIOUS

LEMMA LoadRoleStep == ASSUME IInv, NEW s \in Seeders, LoadRole(s) PROVE IInv'
<1> USE DEF IInv
<1>1. At(s, "load") /\ UNCHANGED << rows, role, systemUser, Calm >>
  BY DEF LoadRole, Calm
<1> PICK i \in DOMAIN Plan : i = run[s].at
  BY <1>1, AtStep
<1> DEFINE r == Plan[i].role
           p == Past(run[s], 1)
<1>2. /\ i = run[s].at /\ i \in Steps("load") /\ Plan[i].op = "load"
      /\ Running(run[s]) /\ run[s] \in RunRecord
  BY <1>1, AtStep
<1>3. /\ i \notin MappingSteps /\ i \notin Steps("assign") /\ i \notin Steps("users")
      /\ i \notin Steps("row") /\ i # 1
  BY <1>2, StepsAre, UserRowIs
<1>4. UserFound
  BY <1>2, <1>3 DEF UserInv, PastUser
<1>5. i \in Nat /\ i + 1 <= Len(Plan) + 1
  BY AfterStep
<1>6. /\ p \in RunRecord /\ Running(p) /\ p.saw = "nothing" /\ p.at = i + 1
      /\ p.alone = run[s].alone /\ p.lost = run[s].lost
  BY <1>2, <1>5, PastTyped
<1>7. CASE ~(<<"role", r>> \in run[s].lost \/ ~Found("role", r))
  <2> DEFINE z == [p EXCEPT !.role = role[r]]
  <2>1. Goes(s, z)
    BY <1>2, <1>7 DEF LoadRole
  <2> HIDE DEF p
  <2>2. r \in Roles /\ role[r] \in RoleRow(r) /\ role[r] \in RoleCopy
    BY <1>2, SectionsAssumption DEF TablesInv
  <2>3. /\ z \in RunRecord /\ Running(z) /\ z.saw = "nothing" /\ z.at = i + 1
        /\ z.alone = run[s].alone /\ z.lost = run[s].lost /\ z.role = role[r]
    BY <1>6, <2>2 DEF RunRecord, Running
  <2> HIDE DEF z
  <2>4. OfRole(i + 1, r) /\ i + 1 \in MappingSteps /\ i + 1 \notin Steps("assign")
    BY <1>2, AfterStep
  <2>5. \A q \in Roles : OfRole(i + 1, q) => q = r
    BY <2>4 DEF OfRole
  <2>6. GoesOn(s, i, z)
    BY <1>2, <2>1, <2>2, <2>3, <2>5 DEF GoesOn, Leaves
  <2>7. Achieved(i)' /\ Promised(i)'
    BY <1>3 DEF Achieved, Promised, MappingSteps
  <2>8. ASSUME NEW j \in Steps("grant"), OfRole(j, r) PROVE ~(j < i + 1)
    <3>1. i < j
      BY <1>2, <2>8, OrderAssumption DEF MappingSteps
    <3>2. j \in Int
      BY SectionsAssumption DEF Steps
    <3> QED
      BY <1>5, <3>1, <3>2
  <2>9. \A q \in Roles : i + 1 \in MappingSteps /\ OfRole(i + 1, q) =>
          z.role = role[q] /\ \A j \in Steps("grant") : OfRole(j, q) => ~(j < i + 1)
    BY <2>3, <2>5, <2>8
  <2> QED
    BY <1>1, <1>3, <1>4, <2>4, <2>6, <2>7, <2>9, TablesStay, PassesQuietly
<1>8. CASE <<"role", r>> \in run[s].lost \/ ~Found("role", r)
  <2> DEFINE n == Plan[i].skip + 1
             z == Past(run[s], n)
  <2>1. Goes(s, z)
    BY <1>2, <1>8 DEF LoadRole
  <2>2. /\ Plan[i].skip \in Nat /\ i + Plan[i].skip + 1 <= Len(Plan) + 1
        /\ i + Plan[i].skip + 1 \notin MappingSteps \cup Steps("assign")
    BY <1>2, SectionsAssumption
  <2>3. n \in Nat /\ 0 < n /\ i + n = i + Plan[i].skip + 1
    BY <1>5, <2>2, PlacesAfter
  <2> HIDE DEF n
  <2>4. /\ z \in RunRecord /\ Running(z) /\ z.saw = "nothing" /\ z.at = i + n
        /\ z.alone = run[s].alone /\ z.lost = run[s].lost
    BY <1>2, <2>2, <2>3, PastTyped
  <2> HIDE DEF z
  <2>5. Leaves(run[s], z)
    BY <2>2, <2>3, <2>4 DEF Leaves
  <2>6. ~Undisturbed(run[s]) /\ ~Calm
    <3>1. ASSUME Undisturbed(run[s]) \/ Calm PROVE FALSE
      <4>1. run[s].lost = {} /\ Found("role", r)
        BY <1>2, <3>1, NothingLost, RoleFound
      <4> QED
        BY <1>8, <4>1
    <3> QED
      BY <3>1
  <2> QED
    BY <1>1, <1>2, <1>4, <2>1, <2>5, <2>6, Skips
<1> QED
  BY <1>7, <1>8

\* What a process about to assign the admin role knows.
LEMMA AtAssign ==
    ASSUME IInv, NEW s \in Seeders, At(s, "assign"), NEW i, i = run[s].at
    PROVE  /\ i \in DOMAIN Plan /\ i \in Steps("assign") /\ i \notin MappingSteps
           /\ i \notin Steps("users") /\ i \notin Steps("row") /\ i # 1
           /\ i + 1 \notin MappingSteps /\ i + 1 \notin Steps("assign")
           /\ i \in Nat /\ i + 1 <= Len(Plan) + 1
           /\ Running(run[s]) /\ run[s] \in RunRecord /\ WellTyped(run[s])
           /\ UserFound
           /\ Undisturbed(run[s]) => run[s].user = systemUser
           /\ Calm => /\ run[s].user.licensed
                      /\ run[s].user.admin => systemUser.admin
<1> USE DEF IInv
<1>1. /\ i \in DOMAIN Plan /\ Plan[i].op = "assign" /\ i \in Steps("assign")
      /\ Running(run[s]) /\ run[s] \in RunRecord /\ WellTyped(run[s])
  BY AtStep
<1>2. /\ i \notin MappingSteps /\ i \notin Steps("users")
      /\ i \notin Steps("row") /\ i # 1
  BY <1>1, StepsAre, UserRowIs
<1>3. UserFound
  BY <1>1, <1>2 DEF UserInv, PastUser
<1>4. i \in Nat /\ i + 1 <= Len(Plan) + 1
  BY <1>1, AfterStep
<1>5. i + 1 \notin MappingSteps /\ i + 1 \notin Steps("assign")
  BY <1>1, AfterStep
<1>6. Undisturbed(run[s]) => run[s].user = systemUser
  BY <1>1 DEF AloneInv, AloneHolds
<1>7. Calm => run[s].user.licensed /\ (run[s].user.admin => systemUser.admin)
  BY <1>1 DEF CalmInv, CalmHolds
<1> QED
  BY <1>1, <1>2, <1>3, <1>4, <1>5, <1>6, <1>7

\* Process s is done with the assignment, which is there by now.
LEMMA Assigns ==
    ASSUME IInv, NEW s \in Seeders, At(s, "assign"),
           Goes(s, [Past(run[s], 1) EXCEPT !.user = NewUser]),
           UNCHANGED << rows, role, Calm >>, systemUser' \in UserRow,
           Undisturbed(run[s]) \/ Calm =>
             systemUser'.admin /\ (systemUser.licensed => systemUser'.licensed)
    PROVE  IInv'
<1> USE DEF IInv
<1> PICK i \in DOMAIN Plan : i = run[s].at
  BY AtStep
<1> DEFINE p == Past(run[s], 1)
           z == [p EXCEPT !.user = NewUser]
<1>1. /\ i \in Steps("assign") /\ i \notin MappingSteps
      /\ i \notin Steps("users") /\ i \notin Steps("row") /\ i # 1
      /\ i + 1 \notin MappingSteps /\ i + 1 \notin Steps("assign")
      /\ i \in Nat /\ i + 1 <= Len(Plan) + 1
      /\ Running(run[s]) /\ run[s] \in RunRecord /\ UserFound
  BY AtAssign
<1>2. /\ p \in RunRecord /\ Running(p) /\ p.saw = "nothing" /\ p.at = i + 1
      /\ p.alone = run[s].alone /\ p.lost = run[s].lost
  BY <1>1, PastTyped
<1>3. Goes(s, z)
  OBVIOUS
<1> HIDE DEF p
<1>4. /\ z \in RunRecord /\ Running(z) /\ z.saw = "nothing" /\ z.at = i + 1
      /\ z.alone = run[s].alone /\ z.lost = run[s].lost
  BY <1>2, NewRoleTyped DEF RunRecord, Running
<1> HIDE DEF z
<1>5. GoesOn(s, i, z)
  BY <1>1, <1>3, <1>4 DEF GoesOn, Leaves
<1>6. TablesInv'
  BY DEF TablesInv, Found
<1>7. Undisturbed(run[s]) => Achieved(i)'
  BY <1>1 DEF Achieved, MappingSteps
<1>8. Calm => Promised(i)'
  BY <1>1 DEF Promised, MappingSteps
<1>9. UserFound'
  BY <1>1 DEF UserFound, Found
<1> QED
  BY <1>1, <1>5, <1>6, <1>7, <1>8, <1>9, PassesQuietly

LEMMA SelectUserStep == ASSUME IInv, NEW s \in Seeders, SelectUser(s) PROVE IInv'
<1> USE DEF IInv
<1>1. /\ At(s, "assign") /\ run[s].saw = "nothing"
      /\ UNCHANGED << rows, role, systemUser, Calm >>
  BY DEF SelectUser, Calm
<1> PICK i \in DOMAIN Plan : i = run[s].at
  BY <1>1, AtStep
<1>2. /\ i \in Steps("assign") /\ i \notin MappingSteps /\ i \notin Steps("users")
      /\ i \notin Steps("row")
      /\ Running(run[s]) /\ run[s] \in RunRecord /\ WellTyped(run[s]) /\ UserFound
      /\ Undisturbed(run[s]) => run[s].user = systemUser
      /\ Calm => (run[s].user.admin => systemUser.admin)
  BY <1>1, AtAssign
<1>3. systemUser \in UserRow
  BY DEF TablesInv
<1>4. CASE run[s].user.admin
  <2>1. Goes(s, [Past(run[s], 1) EXCEPT !.user = NewUser])
    BY <1>4 DEF SelectUser
  <2> QED
    BY <1>1, <1>2, <1>3, <1>4, <2>1, Assigns
<1>5. CASE ~run[s].user.admin
  <2> DEFINE y == [run[s] EXCEPT !.saw = "selected", !.seen = systemUser]
  <2>1. Goes(s, y)
    BY <1>5 DEF SelectUser
  <2>2. /\ y \in RunRecord /\ y.saw = "selected" /\ y.at = i /\ y.status = run[s].status
        /\ y.alone = run[s].alone /\ y.lost = run[s].lost /\ y.seen = systemUser
        /\ y.role = run[s].role /\ y.user = run[s].user
    BY <1>2, <1>3 DEF RunRecord
  <2> HIDE DEF y
  <2>3. Running(y)
    BY <1>2, <2>2 DEF Running
  <2>4. \A r : ~InSection(y, r)
    BY <1>2, <2>2 DEF InSection
  <2>5. WellTyped(y)
    <3>1. y.status # "idle" /\ y.at \in DOMAIN Plan
      BY <2>2, <2>3 DEF Running
    <3> QED
      BY <1>2, <1>3, <2>2, <2>3, <2>4, <3>1 DEF WellTyped
  <2> QED
    BY <1>1, <1>2, <2>1, <2>2, <2>3, <2>4, <2>5, Stays
<1> QED
  BY <1>4, <1>5

LEMMA AssignAdminStep == ASSUME IInv, NEW s \in Seeders, AssignAdmin(s) PROVE IInv'
<1> USE DEF IInv
<1>1. At(s, "assign") /\ run[s].saw = "selected" /\ UNCHANGED << rows, role, calm >>
  BY DEF AssignAdmin
<1> PICK i \in DOMAIN Plan : i = run[s].at
  BY <1>1, AtStep
<1> DEFINE seen == run[s].seen
<1>2. /\ i \in Steps("assign") /\ Running(run[s]) /\ run[s] \in RunRecord
      /\ WellTyped(run[s])
      /\ Undisturbed(run[s]) => run[s].user = systemUser
      /\ Calm => run[s].user.licensed
  BY <1>1, AtAssign
<1>3. seen \in UserRow /\ systemUser \in UserRow /\ run[s].user \in UserRow
  BY <1>1, <1>2 DEF WellTyped, TablesInv, RunRecord
<1>4. CASE Fails(s) /\ clashed' = TRUE /\ UNCHANGED systemUser
  <2>1. ~Calm'
    BY <1>4 DEF Calm
  <2> QED
    BY <1>1, <1>4, <2>1, Failing
<1>5. CASE /\ Goes(s, [Past(run[s], 1) EXCEPT !.user = NewUser])
           /\ UNCHANGED clashed
           /\ systemUser' = [licensed |-> Column(run[s].user.licensed, seen.licensed,
                                                 systemUser.licensed),
                             admin |-> TRUE]
  <2>1. systemUser'.admin /\ systemUser' \in UserRow
    BY <1>3, <1>5 DEF UserRow, Column
  <2>2. UNCHANGED Calm
    BY <1>1, <1>5 DEF Calm
  <2>3. Undisturbed(run[s]) \/ Calm => (systemUser.licensed => systemUser'.licensed)
    BY <1>2, <1>5 DEF Column
  <2> QED
    BY <1>1, <1>5, <2>1, <2>2, <2>3, Assigns
<1> QED
  BY <1>4, <1>5 DEF AssignAdmin

LEMMA CountUsersStep == ASSUME IInv, NEW s \in Seeders, CountUsers(s) PROVE IInv'
<1> USE DEF IInv
<1>1. /\ At(s, "users") /\ run[s].saw = "nothing"
      /\ UNCHANGED << rows, role, systemUser, Calm >>
  BY DEF CountUsers, Calm
<1> DEFINE i == run[s].at
           r == Plan[i].role
           n == IF r = "admin" /\ systemUser.admin /\ <<"role", r>> \notin run[s].lost
                THEN 1 ELSE 0
           y == [run[s] EXCEPT !.saw = "counted", !.count = n]
<1>2. /\ i \in DOMAIN Plan /\ i \in Steps("users") /\ Plan[i].op = "users"
      /\ Running(run[s]) /\ run[s] \in RunRecord /\ WellTyped(run[s])
  BY <1>1, AtStep
<1>3. /\ i \notin MappingSteps /\ i \notin Steps("assign") /\ i # 1
      /\ i \notin Steps("row")
  BY <1>2, StepsAre, UserRowIs
<1>4. Goes(s, y)
  BY DEF CountUsers
<1>5. n \in 0..1
  OBVIOUS
<1>6. Undisturbed(run[s]) \/ Calm => n = Target(r)
  <2>1. ASSUME Undisturbed(run[s]) \/ Calm PROVE systemUser.admin /\ run[s].lost = {}
    <3>1. PICK j \in 1..(i - 1) : Plan[j].op = "assign"
      BY <1>2, OrderAssumption
    <3>2. j \in DOMAIN Plan /\ j < i
      BY <1>2, SectionsAssumption
    <3>3. j \in Steps("assign") /\ Passed(run[s], j)
      BY <1>2, <3>1, <3>2 DEF Steps, Passed
    <3> QED
      BY <2>1, <3>2, <3>3, NothingLost
      DEF AloneInv, AloneHolds, Achieved, CalmInv, CalmHolds, Promised
  <2> QED
    BY <2>1 DEF Target
<1> HIDE DEF n
<1>7. /\ y \in RunRecord /\ y.saw = "counted" /\ y.at = i /\ y.status = run[s].status
      /\ y.alone = run[s].alone /\ y.lost = run[s].lost /\ y.count = n
  BY <1>2, <1>5 DEF RunRecord
<1> HIDE DEF y
<1>8. Running(y) /\ (PastUser(y) => UserFound)
  BY <1>2, <1>3, <1>7 DEF Running, PastUser, UserInv
<1>9. WellTyped(y)
  BY <1>2, <1>3, <1>7, <1>8 DEF WellTyped, InSection, Running
<1> QED
  BY <1>1, <1>2, <1>3, <1>4, <1>6, <1>7, <1>8, <1>9, Stays

\* Process s goes on from a step that may write role r.
LEMMA PassesWriting ==
    ASSUME IInv, NEW s \in Seeders, NEW i \in DOMAIN Plan, NEW z, GoesOn(s, i, z),
           UNCHANGED << systemUser, Calm >>, TablesInv', rows \subseteq rows',
           i \in MappingSteps \cup Steps("users"), NEW r \in Roles,
           \A q \in Roles \ {r} : role'[q] = role[q],
           Undisturbed(run[s]) =>
             /\ role[r].permissions \subseteq role'[r].permissions
             /\ role[r].permissionCount = Len(Mapping[r]) =>
                  role'[r].permissionCount = Len(Mapping[r])
             /\ role[r].userCount = Target(r) => role'[r].userCount = Target(r)
             /\ Achieved(i)'
             /\ \A q \in Roles :
                  i + 1 \in MappingSteps /\ OfRole(i + 1, q) => z.role = role'[q],
           Calm => /\ Keeps(s) /\ Promised(i)'
                   /\ \A q \in Roles : i + 1 \in MappingSteps /\ OfRole(i + 1, q) =>
                        /\ \A j \in Steps("grant") : j < i + 1 /\ OfRole(j, q) =>
                             Plan[j].permission \in z.role.permissions
                        /\ \A p \in z.role.permissions : GrantedSoon(q, p)'
    PROVE  IInv'
<1> USE DEF IInv
<1>1. RunsInv' /\ OthersWait(s)
  BY Going DEF GoesOn
<1>2. i # 1 /\ i + 1 \notin Steps("assign")
  BY StepsAre, AfterStep, UserRowIs
<1>3. UserFound /\ UserFound'
  BY <1>2 DEF GoesOn, UserInv, PastUser, UserFound, Found
<1>4. UserInv'
  BY <1>1, <1>3, UserMoves
<1>5. AloneInv'
  <2>1. ASSUME Undisturbed(run[s]), NEW j \in DOMAIN Plan, Achieved(j)
        PROVE  Achieved(j)'
    <3>1. j \in MappingSteps \cup Steps("users") => Plan[j].role \in Roles
      BY SectionsAssumption
    <3>2. CASE j \in MappingSteps \cup Steps("users") /\ Plan[j].role = r
      BY <2>1, <3>2 DEF Achieved, Found, MappingSteps
    <3>3. CASE ~(j \in MappingSteps \cup Steps("users") /\ Plan[j].role = r)
      BY <2>1, <3>1, <3>3 DEF Achieved, Found, MappingSteps
    <3> QED
      BY <3>2, <3>3
  <2> QED
    BY <1>2, <2>1, AlonePasses
<1>6. CalmInv'
  BY <1>2, CalmPasses DEF CalmInv
<1> QED
  BY <1>1, <1>4, <1>5, <1>6

LEMMA SaveUserCountStep ==
    ASSUME IInv, NEW s \in Seeders, SaveUserCount(s) PROVE IInv'
<1> USE DEF IInv
<1>1. /\ At(s, "users") /\ run[s].saw = "counted"
      /\ UNCHANGED << rows, systemUser, Calm >>
  BY DEF SaveUserCount, Calm
<1> PICK i \in DOMAIN Plan : i = run[s].at
  BY <1>1, AtStep
<1> DEFINE p == Past(run[s], 1)
           z == [p EXCEPT !.count = 0]
<1> PICK r \in Roles : r = Plan[i].role
  BY <1>1, AtStep, SectionsAssumption
<1>2. /\ i = run[s].at /\ Plan[i].op = "users" /\ i \in Steps("users")
      /\ Running(run[s]) /\ run[s] \in RunRecord
  BY <1>1, AtStep
<1>3. i \notin MappingSteps /\ i \notin Steps("row") /\ i \notin Steps("assign") /\ i # 1
  BY <1>2, StepsAre, UserRowIs
<1>4. i \in Nat /\ i + 1 <= Len(Plan) + 1 /\ i + 1 \notin MappingSteps
  BY <1>2, AfterStep
<1>5. /\ p \in RunRecord /\ Running(p) /\ p.saw = "nothing" /\ p.at = i + 1
      /\ p.alone = run[s].alone /\ p.lost = run[s].lost
  BY <1>2, <1>4, PastTyped
<1>6. /\ Goes(s, z)
      /\ SetColumn(s, r, [role[r] EXCEPT !.userCount = run[s].count])
  BY <1>2 DEF SaveUserCount
<1> HIDE DEF p
<1>7. /\ z \in RunRecord /\ Running(z) /\ z.saw = "nothing" /\ z.at = i + 1
      /\ z.alone = run[s].alone /\ z.lost = run[s].lost
  BY <1>5 DEF RunRecord, Running
<1> HIDE DEF z
<1>8. GoesOn(s, i, z)
  BY <1>2, <1>4, <1>6, <1>7 DEF GoesOn, Leaves
<1> DEFINE new == [role[r] EXCEPT !.userCount = run[s].count]
<1>9. /\ role[r] \in RoleRow(r) /\ run[s].count \in 0..1 /\ role \in [Roles -> RoleCopy]
  BY <1>2 DEF TablesInv, RunRecord
<1>10. /\ new \in RoleRow(r) /\ new.permissions = role[r].permissions
       /\ new.permissionCount = role[r].permissionCount
       /\ new.userCount = run[s].count
  BY <1>9 DEF RoleRow
<1>11. \/ role' = role
       \/ role' = [role EXCEPT ![r] = new] /\ Found("role", r)
  BY <1>6 DEF SetColumn
<1>12. Undisturbed(run[s]) \/ Calm =>
         role' = [role EXCEPT ![r] = new] /\ run[s].count = Target(r)
  <2>1. ASSUME Undisturbed(run[s]) \/ Calm
        PROVE  Found("role", r) /\ run[s].lost = {} /\ run[s].count = Target(r)
    <3>1. run[s].count = Target(r)
      BY <1>1, <1>2, <2>1 DEF AloneInv, AloneHolds, CalmInv, CalmHolds
    <3> QED
      BY <1>2, <2>1, <3>1, NothingLost, RoleFound
  <2> QED
    BY <1>6, <2>1 DEF SetColumn
<1> HIDE DEF new
<1>13. /\ \A q \in Roles \ {r} : role'[q] = role[q]
       /\ role'[r] = role[r] \/ role'[r] = new
       /\ role' \in [Roles -> RoleCopy]
  BY <1>9, <1>10, <1>11, RowIsCopy
<1>14. /\ role'[r].permissions = role[r].permissions
       /\ role'[r].permissionCount = role[r].permissionCount
       /\ role'[r] \in RoleRow(r)
       /\ Undisturbed(run[s]) \/ Calm => role'[r].userCount = Target(r)
  BY <1>9, <1>10, <1>12, <1>13
<1>15. TablesInv'
  <2>1. \A q \in Roles : role'[q] \in RoleRow(q)
    BY <1>13, <1>14 DEF TablesInv
  <2>2. \A q \in Roles : ~Found("role", q)' => role'[q] = NewRole
    BY <1>1, <1>11, <1>13 DEF TablesInv, Found
  <2> QED
    BY <1>1, <1>13, <2>1, <2>2 DEF TablesInv
<1>16. Undisturbed(run[s]) => Achieved(i)'
  BY <1>2, <1>3, <1>14 DEF Achieved, MappingSteps
<1>17. Calm => Promised(i)'
  BY <1>2, <1>3, <1>14 DEF Promised, MappingSteps, UsersCountedSoon
<1>18. ASSUME Calm PROVE Keeps(s)
  <2>1. \A q : ~InSection(run[s], q)
    BY <1>2, <1>3 DEF InSection
  <2>2. \A q \in Roles \ {r} : InStretch(run[s], q) => InStretch(run'[s], q)
    BY <1>2, <1>8, StretchGoesOn DEF OfRole
  <2>3. \A q \in Roles : /\ role'[q].permissions = role[q].permissions
                         /\ role'[q].permissionCount = role[q].permissionCount
    BY <1>13, <1>14
  <2>4. \A q \in Roles : role[q].userCount = Target(q) \/ InStretch(run[s], q) =>
                         role'[q].userCount = Target(q) \/ InStretch(run'[s], q)
    BY <1>13, <1>14, <1>18, <2>2
  <2> QED
    BY <1>1, <2>1, <2>3, <2>4 DEF Keeps, Owes
<1> QED
  BY <1>1, <1>2, <1>4, <1>8, <1>13, <1>14, <1>15, <1>16, <1>17, <1>18, PassesWriting

LEMMA CountPermissionsStep ==
    ASSUME IInv, NEW s \in Seeders, CountPermissions(s) PROVE IInv'
<1> USE DEF IInv
<1>1. At(s, "count") /\ UNCHANGED << rows, systemUser, Calm >>
  BY DEF CountPermissions, Calm
<1> PICK i \in DOMAIN Plan : i = run[s].at
  BY <1>1, AtStep
<1> DEFINE p == Past(run[s], 1)
           z == [p EXCEPT !.role = NewRole]
<1> PICK r \in Roles : r = Plan[i].role
  BY <1>1, AtStep, SectionsAssumption DEF MappingSteps
<1>2. /\ i = run[s].at /\ Plan[i].op = "count" /\ i \in Steps("count")
      /\ Running(run[s]) /\ run[s] \in RunRecord
  BY <1>1, AtStep
<1>3. /\ i \in MappingSteps /\ i \notin Steps("row") /\ i \notin Steps("assign")
      /\ i \notin Steps("users") /\ i \notin Steps("grant") /\ i # 1
  BY <1>2, StepsAre, UserRowIs
<1>4. i \in Nat /\ i + 1 <= Len(Plan) + 1 /\ i + 1 \notin MappingSteps
  BY <1>2, AfterStep
<1>5. /\ p \in RunRecord /\ Running(p) /\ p.saw = "nothing" /\ p.at = i + 1
      /\ p.alone = run[s].alone /\ p.lost = run[s].lost
  BY <1>2, <1>4, PastTyped
<1>6. /\ Goes(s, z)
      /\ SetColumn(s, r, [role[r] EXCEPT !.permissionCount = Len(Mapping[r])])
  BY <1>2 DEF CountPermissions
<1> HIDE DEF p
<1>7. /\ z \in RunRecord /\ Running(z) /\ z.saw = "nothing" /\ z.at = i + 1
      /\ z.alone = run[s].alone /\ z.lost = run[s].lost
  BY <1>5, NewRoleTyped DEF RunRecord, Running
<1> HIDE DEF z
<1>8. GoesOn(s, i, z)
  BY <1>2, <1>4, <1>6, <1>7 DEF GoesOn, Leaves
<1> DEFINE new == [role[r] EXCEPT !.permissionCount = Len(Mapping[r])]
<1>9. /\ role[r] \in RoleRow(r) /\ role \in [Roles -> RoleCopy] /\ Len(Mapping[r]) \in Nat
  BY CompletenessAssumption DEF TablesInv
<1>10. /\ new \in RoleRow(r) /\ new.permissions = role[r].permissions
       /\ new.permissionCount = Len(Mapping[r])
       /\ new.userCount = role[r].userCount
  <2>1. Len(Mapping[r]) \in 0..Len(Mapping[r])
    BY <1>9
  <2> QED
    BY <1>9, <2>1 DEF RoleRow
<1>11. \/ role' = role
       \/ role' = [role EXCEPT ![r] = new] /\ Found("role", r)
  BY <1>6 DEF SetColumn
<1>12. Undisturbed(run[s]) \/ Calm => role' = [role EXCEPT ![r] = new]
  <2>1. ASSUME Undisturbed(run[s]) \/ Calm PROVE Found("role", r) /\ run[s].lost = {}
    BY <1>2, <1>3, <2>1, NothingLost, RoleFound
  <2> QED
    BY <1>6, <2>1 DEF SetColumn
<1> HIDE DEF new
<1>13. /\ \A q \in Roles \ {r} : role'[q] = role[q]
       /\ role'[r] = role[r] \/ role'[r] = new
       /\ role' \in [Roles -> RoleCopy]
  BY <1>9, <1>10, <1>11, RowIsCopy
<1>14. /\ role'[r].permissions = role[r].permissions
       /\ role'[r].userCount = role[r].userCount
       /\ role'[r] \in RoleRow(r)
       /\ Undisturbed(run[s]) \/ Calm => role'[r].permissionCount = Len(Mapping[r])
  BY <1>9, <1>10, <1>12, <1>13
<1>15. TablesInv'
  <2>1. \A q \in Roles : role'[q] \in RoleRow(q)
    BY <1>13, <1>14 DEF TablesInv
  <2>2. \A q \in Roles : ~Found("role", q)' => role'[q] = NewRole
    BY <1>1, <1>11, <1>13 DEF TablesInv, Found
  <2> QED
    BY <1>1, <1>13, <2>1, <2>2 DEF TablesInv
<1>16. Undisturbed(run[s]) => Achieved(i)'
  BY <1>2, <1>3, <1>14 DEF Achieved
<1>17. Calm => Promised(i)'
  BY <1>2, <1>3, <1>14 DEF Promised, CountedSoon
<1>18. ASSUME Calm PROVE Keeps(s)
  <2>1. \A q \in Roles : InSection(run[s], q) => q = r
    BY <1>2 DEF InSection, OfRole
  <2>2. PermissionsOf(r) \subseteq run[s].role.permissions
    <3>1. ASSUME NEW q \in PermissionsOf(r) PROVE q \in run[s].role.permissions
      <4>1. PICK j \in Steps("grant") : OfRole(j, r) /\ Plan[j].permission = q
        BY CompletenessAssumption
      <4>2. j < i
        BY <1>2, <4>1, OrderAssumption
      <4>3. InSection(run[s], r)
        BY <1>2, <1>3 DEF InSection, OfRole
      <4> QED
        BY <1>2, <1>18, <4>1, <4>2, <4>3 DEF CalmInv, CalmHolds
    <3> QED
      BY <3>1
  <2>3. \A q \in Roles : InStretch(run[s], q) => InStretch(run'[s], q)
    BY <1>3, <1>8, StretchGoesOn
  <2>4. \A q \in Roles : /\ role'[q].permissions = role[q].permissions
                         /\ role'[q].userCount = role[q].userCount
    BY <1>13, <1>14
  <2>5. \A q \in Roles \ {r} : role'[q].permissionCount = role[q].permissionCount
    BY <1>13
  <2>6. role'[r].permissionCount = Len(Mapping[r])
    BY <1>14, <1>18
  <2> QED
    BY <1>1, <2>1, <2>2, <2>3, <2>4, <2>5, <2>6 DEF Keeps, Owes
<1> QED
  BY <1>1, <1>3, <1>4, <1>8, <1>13, <1>14, <1>15, <1>16, <1>17, <1>18, PassesWriting

\* What a process about to grant a permission knows.
LEMMA AtGrant ==
    ASSUME IInv, NEW s \in Seeders, At(s, "grant"), NEW i, i = run[s].at,
           NEW r, r = Plan[i].role
    PROVE  /\ i \in DOMAIN Plan /\ Plan[i].op = "grant" /\ i \in Steps("grant")
           /\ i \in MappingSteps /\ i \notin Steps("row") /\ i \notin Steps("assign")
           /\ i \notin Steps("users") /\ i \notin Steps("count") /\ i # 1
           /\ i \in Nat /\ i + 1 <= Len(Plan) + 1
           /\ i + 1 \in MappingSteps /\ OfRole(i + 1, r)
           /\ r \in Roles /\ Plan[i].permission \in PermissionsOf(r)
           /\ \A q \in Roles : OfRole(i + 1, q) \/ InSection(run[s], q) => q = r
           /\ Running(run[s]) /\ run[s] \in RunRecord /\ WellTyped(run[s])
           /\ InSection(run[s], r)
           /\ run[s].role \in RoleRow(r) /\ role[r] \in RoleRow(r)
           /\ run[s].saw = "selected" => run[s].seen \in RoleRow(r)
           /\ Undisturbed(run[s]) =>
                run[s].role = role[r] /\ (run[s].saw = "selected" => run[s].seen = role[r])
           /\ Calm => /\ \A j \in Steps("grant") : j < i /\ OfRole(j, r) =>
                           Plan[j].permission \in run[s].role.permissions
                      /\ \A q \in run[s].role.permissions : GrantedSoon(r, q)
                      /\ run[s].saw = "selected" =>
                           \A q \in run[s].seen.permissions : GrantedSoon(r, q)
           /\ \A j \in Steps("grant") : j < i + 1 => j < i \/ j = i
<1> USE DEF IInv
<1>1. /\ i \in DOMAIN Plan /\ Plan[i].op = "grant" /\ i \in Steps("grant")
      /\ Running(run[s]) /\ run[s] \in RunRecord /\ WellTyped(run[s])
  BY AtStep
<1>2. r \in Roles /\ Plan[i].permission \in PermissionsOf(r)
  BY <1>1, SectionsAssumption DEF MappingSteps
<1>3. /\ i \in MappingSteps /\ i \notin Steps("row") /\ i \notin Steps("assign")
      /\ i \notin Steps("users") /\ i \notin Steps("count") /\ i # 1
  BY <1>1, StepsAre, UserRowIs
<1>4. /\ i \in Nat /\ i + 1 <= Len(Plan) + 1
      /\ i + 1 \in MappingSteps /\ OfRole(i + 1, r)
  BY <1>1, AfterStep
<1>5. \A q \in Roles : OfRole(i + 1, q) \/ InSection(run[s], q) => q = r
  BY <1>1, <1>4 DEF OfRole, InSection
<1>6. /\ InSection(run[s], r) /\ run[s].role \in RoleRow(r) /\ role[r] \in RoleRow(r)
      /\ run[s].saw = "selected" => run[s].seen \in RoleRow(r)
  BY <1>1, <1>2, <1>3 DEF InSection, OfRole, WellTyped, TablesInv
<1>7. Undisturbed(run[s]) =>
        run[s].role = role[r] /\ (run[s].saw = "selected" => run[s].seen = role[r])
  BY <1>2, <1>6 DEF AloneInv, AloneHolds
<1>8. Calm => /\ \A j \in Steps("grant") : j < i /\ OfRole(j, r) =>
                   Plan[j].permission \in run[s].role.permissions
              /\ \A q \in run[s].role.permissions : GrantedSoon(r, q)
              /\ run[s].saw = "selected" =>
                   \A q \in run[s].seen.permissions : GrantedSoon(r, q)
  BY <1>2, <1>6 DEF CalmInv, CalmHolds
<1>9. ASSUME NEW j \in Steps("grant"), j < i + 1 PROVE j < i \/ j = i
  BY <1>4, <1>9, SectionsAssumption DEF Steps
<1> QED
  BY <1>1, <1>2, <1>3, <1>4, <1>5, <1>6, <1>7, <1>8, <1>9

\* After a grant comes another, or the count: the process is still at the role.
LEMMA StaysInSection ==
    ASSUME IInv, NEW s \in Seeders, NEW i \in Steps("grant"), NEW r \in Roles,
           r = Plan[i].role, NEW z, GoesOn(s, i, z)
    PROVE  /\ InSection(run'[s], r) /\ run'[s] = z
           /\ \A q \in Roles : InStretch(run[s], q) => InStretch(run'[s], q)
           /\ InStretch(run'[s], r)
<1>1. /\ i \in MappingSteps /\ i \notin Steps("users") /\ i \in Nat
      /\ i + 1 \in MappingSteps /\ OfRole(i + 1, r) /\ Running(run[s])
      /\ run[s].at = i
  <2>1. At(s, "grant") /\ run[s].at = i
    BY DEF GoesOn, At, Running, Steps
  <2> QED
    BY <2>1, AtGrant
<1>2. i + 1 \in DOMAIN Plan /\ z.at = i + 1
  BY <1>1 DEF GoesOn, MappingSteps, Steps
<1>3. Running(run'[s]) /\ run'[s] = z
  <2>1. i + 1 # Len(Plan) + 1
    BY <1>2, SectionsAssumption
  <2> QED
    BY <1>2, <2>1, Going DEF GoesOn, IInv
<1>4. \A q \in Roles : InStretch(run[s], q) => InStretch(run'[s], q)
  BY <1>1, StretchGoesOn DEF IInv
<1>5. InStretch(run[s], r)
  <2>1. PICK l \in 1..(i - 1) : Plan[l].op = "load" /\ OfRole(l, r)
    BY <1>1, OrderAssumption
  <2>2. PICK j \in Steps("users") : j > i /\ OfRole(j, r)
    BY <1>1, OrderAssumption
  <2>3. l \in Steps("load") /\ l < i
    BY <1>1, <1>2, <2>1, SectionsAssumption DEF Steps
  <2>4. i <= j
    BY <1>1, <2>2, SectionsAssumption DEF Steps
  <2> QED
    BY <1>1, <2>1, <2>2, <2>3, <2>4 DEF InStretch
<1> QED
  BY <1>1, <1>2, <1>3, <1>4, <1>5 DEF InSection

LEMMA SelectRoleStep == ASSUME IInv, NEW s \in Seeders, SelectRole(s) PROVE IInv'
<1> USE DEF IInv
<1>1. /\ At(s, "grant") /\ run[s].saw = "nothing"
      /\ UNCHANGED << rows, role, systemUser, Calm >>
  BY DEF SelectRole, Calm
<1> PICK i \in DOMAIN Plan : i = run[s].at
  BY <1>1, AtStep
<1> PICK r \in Roles : r = Plan[i].role
  BY <1>1, AtGrant
<1> PICK g \in PermissionsOf(r) : g = Plan[i].permission
  BY <1>1, AtGrant
<1>2. /\ Plan[i].op = "grant" /\ i \in Steps("grant")
      /\ i \in MappingSteps /\ i \notin Steps("row") /\ i \notin Steps("assign")
      /\ i \notin Steps("users") /\ i \notin Steps("count") /\ i # 1
      /\ i \in Nat /\ i + 1 <= Len(Plan) + 1
      /\ i + 1 \in MappingSteps /\ OfRole(i + 1, r)
  BY <1>1, AtGrant
<1>3. \A q \in Roles : OfRole(i + 1, q) \/ InSection(run[s], q) => q = r
  BY <1>1, AtGrant
<1>4. /\ Running(run[s]) /\ run[s] \in RunRecord /\ WellTyped(run[s])
      /\ InSection(run[s], r) /\ run[s].role \in RoleRow(r) /\ role[r] \in RoleRow(r)
      /\ Undisturbed(run[s]) => run[s].role = role[r]
  BY <1>1, AtGrant
<1>5. CASE g \in run[s].role.permissions
  <2> DEFINE p == Past(run[s], 1)
  <2>1. /\ p \in RunRecord /\ Running(p) /\ p.saw = "nothing" /\ p.at = i + 1
        /\ p.alone = run[s].alone /\ p.lost = run[s].lost /\ p.role = run[s].role
    BY <1>2, <1>4, PastTyped
  <2>2. Goes(s, p)
    BY <1>5 DEF SelectRole
  <2> HIDE DEF p
  <2>3. GoesOn(s, i, p)
    BY <1>2, <1>3, <1>4, <2>1, <2>2 DEF GoesOn, Leaves
  <2>4. Undisturbed(run[s]) => Achieved(i)'
    BY <1>1, <1>2, <1>4, <1>5 DEF Achieved
  <2>5. /\ InSection(run'[s], r) /\ run'[s] = p /\ InStretch(run'[s], r)
        /\ \A q \in Roles : InStretch(run[s], q) => InStretch(run'[s], q)
    BY <1>2, <2>3, StaysInSection
  <2>6. Keeps(s)
    <3>1. ASSUME NEW q \in Roles, NEW a, Owes(run[s], q, a) PROVE Owes(run'[s], q, a)
      BY <1>3, <2>1, <2>5, <3>1 DEF Owes
    <3> QED
      BY <1>1, <1>3, <2>5, <3>1 DEF Keeps
  <2>7. ASSUME Calm, NEW q \in PermissionsOf(r), GrantedSoon(r, q) PROVE GrantedSoon(r, q)'
    BY <2>3, <2>6, <2>7, Going, Kept DEF GoesOn
  <2>8. ASSUME Calm PROVE \A q \in run[s].role.permissions : GrantedSoon(r, q)'
    <3>1. \A q \in run[s].role.permissions : q \in PermissionsOf(r) /\ GrantedSoon(r, q)
      BY <1>1, <1>4, <2>8, AtGrant DEF RoleRow
    <3> QED
      BY <2>7, <2>8, <3>1
  <2>9. Calm => Promised(i)'
    BY <1>2, <1>5, <2>8 DEF Promised
  <2>10. ASSUME Calm, NEW q \in Roles, OfRole(i + 1, q)
         PROVE  /\ \A j \in Steps("grant") : j < i + 1 /\ OfRole(j, q) =>
                     Plan[j].permission \in p.role.permissions
                /\ \A a \in p.role.permissions : GrantedSoon(q, a)'
    <3>1. q = r
      BY <1>3, <2>10
    <3>2. ASSUME NEW j \in Steps("grant"), j < i + 1, OfRole(j, r)
          PROVE  Plan[j].permission \in p.role.permissions
      <4>1. j < i \/ j = i
        BY <1>1, <3>2, AtGrant
      <4> QED
        BY <1>1, <1>5, <2>1, <2>10, <3>2, <4>1, AtGrant
    <3> QED
      BY <2>1, <2>8, <2>10, <3>1, <3>2
  <2>11. Undisturbed(run[s]) =>
           \A q \in Roles : i + 1 \in MappingSteps /\ OfRole(i + 1, q) => p.role = role'[q]
    BY <1>1, <1>3, <1>4, <2>1
  <2> QED
    BY <1>1, <1>2, <2>3, <2>4, <2>6, <2>9, <2>10, <2>11, TablesStay, PassesWriting
<1>6. CASE g \notin run[s].role.permissions
  <2> DEFINE there == Found("role", r) /\ <<"role", r>> \notin run[s].lost
             sees == IF there THEN "selected" ELSE "missing"
             row == IF there THEN role[r] ELSE NewRole
             y == [run[s] EXCEPT !.saw = sees, !.seen = row]
  <2>1. Goes(s, y)
    BY <1>6 DEF SelectRole
  <2>2. row \in RoleRow(r) /\ row \in RoleCopy /\ sees \in {"selected", "missing"}
    BY <1>4, NewRoleTyped, RowIsCopy
  <2>3. Undisturbed(run[s]) \/ Calm => there
    BY <1>2, <1>4, NothingLost, RoleFound
  <2>4. there => sees = "selected" /\ row = role[r]
    OBVIOUS
  <2> HIDE DEF there, sees, row
  <2>5. /\ y \in RunRecord /\ y.saw = sees /\ y.at = i /\ y.status = run[s].status
        /\ y.alone = run[s].alone /\ y.lost = run[s].lost /\ y.seen = row
        /\ y.role = run[s].role /\ y.user = run[s].user
    BY <1>4, <2>2 DEF RunRecord
  <2> HIDE DEF y
  <2>6. Running(y) /\ \A q : InSection(y, q) <=> InSection(run[s], q)
    BY <1>4, <2>5 DEF Running, InSection
  <2>7. WellTyped(y)
    <3>1. \A q \in Roles : InSection(y, q) => y.seen \in RoleRow(q) /\ y.role \in RoleRow(q)
      BY <1>3, <1>4, <2>2, <2>5, <2>6
    <3>2. y.saw \notin {"absent", "unlicensed", "counted", "nothing"}
      BY <2>2, <2>5
    <3>3. y.status # "idle" /\ Running(y)
      BY <2>6 DEF Running
    <3> QED
      BY <1>2, <2>5, <3>1, <3>2, <3>3 DEF WellTyped
  <2>8. PastUser(y) => UserFound
    BY <1>2, <1>4, <2>5, <2>6 DEF PastUser, UserInv
  <2>9. \A q \in Roles : InSection(y, q) => q = r
    BY <1>3, <2>6
  <2>10. y.saw # "counted" /\ y.saw # "unlicensed" /\ y.at \notin Steps("assign")
    BY <1>2, <2>2, <2>5
  <2>11. Undisturbed(run[s]) \/ Calm => y.saw # "missing" /\ y.seen = role[r]
    BY <2>3, <2>4, <2>5
  <2> QED
    BY <1>1, <1>4, <2>1, <2>5, <2>6, <2>7, <2>8, <2>9, <2>10, <2>11, Stays
<1> QED
  BY <1>5, <1>6

LEMMA WriteRoleStep == ASSUME IInv, NEW s \in Seeders, WriteRole(s) PROVE IInv'
<1> USE DEF IInv
<1>1. /\ At(s, "grant") /\ run[s].saw = "selected"
      /\ UNCHANGED << rows, systemUser, calm >>
  BY DEF WriteRole
<1> PICK i \in DOMAIN Plan : i = run[s].at
  BY <1>1, AtStep
<1> PICK r \in Roles : r = Plan[i].role
  BY <1>1, AtGrant
<1> PICK g \in PermissionsOf(r) : g = Plan[i].permission
  BY <1>1, AtGrant
<1> DEFINE seen == run[s].seen
           given == Granted(s)
           added == given.permissions \ seen.permissions
           removed == seen.permissions \ given.permissions
           there == Found("role", r) /\ <<"role", r>> \notin run[s].lost
           new == [permissions |-> (role[r].permissions \ removed) \cup added,
                   permissionCount |-> Column(given.permissionCount,
                       seen.permissionCount, role[r].permissionCount),
                   userCount |-> Column(given.userCount, seen.userCount,
                                        role[r].userCount)]
           p == Past(run[s], 1)
           z == [p EXCEPT !.role = given]
<1>2. /\ Plan[i].op = "grant" /\ i \in Steps("grant")
      /\ i \in MappingSteps /\ i \notin Steps("row") /\ i \notin Steps("assign")
      /\ i \notin Steps("users") /\ i \notin Steps("count") /\ i # 1
      /\ i \in Nat /\ i + 1 <= Len(Plan) + 1
      /\ i + 1 \in MappingSteps /\ OfRole(i + 1, r)
  BY <1>1, AtGrant
<1>3. \A q \in Roles : OfRole(i + 1, q) \/ InSection(run[s], q) => q = r
  BY <1>1, AtGrant
<1>4. /\ Running(run[s]) /\ run[s] \in RunRecord /\ InSection(run[s], r)
      /\ run[s].role \in RoleRow(r) /\ role[r] \in RoleRow(r) /\ seen \in RoleRow(r)
      /\ Undisturbed(run[s]) => run[s].role = role[r] /\ seen = role[r]
  BY <1>1, AtGrant
<1>5. /\ p \in RunRecord /\ Running(p) /\ p.saw = "nothing" /\ p.at = i + 1
      /\ p.alone = run[s].alone /\ p.lost = run[s].lost
  BY <1>2, <1>4, PastTyped
<1>6. /\ given \in RoleRow(r)
      /\ given.permissions = run[s].role.permissions \cup {g}
      /\ given.permissionCount = run[s].role.permissionCount
      /\ given.userCount = run[s].role.userCount
  BY <1>4 DEF RoleRow, Granted
<1>7. \/ Fails(s) /\ clashed' = TRUE /\ UNCHANGED role
      \/ /\ Goes(s, z) /\ UNCHANGED clashed
         /\ role' = IF there THEN [role EXCEPT ![r] = new] ELSE role
  BY DEF WriteRole
<1>8. CASE Fails(s) /\ clashed' = TRUE /\ UNCHANGED role
  <2>1. ~Calm'
    BY <1>8 DEF Calm
  <2> QED
    BY <1>1, <1>8, <2>1, Failing
<1>9. CASE /\ Goes(s, z) /\ UNCHANGED clashed
           /\ role' = IF there THEN [role EXCEPT ![r] = new] ELSE role
  <2>1. UNCHANGED Calm
    BY <1>1, <1>9 DEF Calm
  <2>2. /\ new \in RoleRow(r)
        /\ new.permissions = (role[r].permissions \ removed) \cup added
        /\ Undisturbed(run[s]) => new = given
    <3>1. new \in RoleRow(r)
      BY <1>4, <1>6 DEF RoleRow, Column
    <3>2. ASSUME Undisturbed(run[s]) PROVE new = given
      <4>1. new.permissions = given.permissions
        BY <1>4, <1>6, <3>2
      <4>2. new.permissionCount = given.permissionCount /\ new.userCount = given.userCount
        BY <1>4, <1>6, <3>2 DEF Column
      <4> QED
        BY <1>6, <3>1, <4>1, <4>2 DEF RoleRow
    <3> QED
      BY <3>1, <3>2
  <2>3. Undisturbed(run[s]) \/ Calm => there
    BY <1>2, <1>4, NothingLost, RoleFound
  <2>4. given \in RoleCopy /\ role \in [Roles -> RoleCopy] /\ new \in RoleCopy
    BY <1>6, <2>2, RowIsCopy DEF TablesInv
  <2>5. there => Found("role", r)
    OBVIOUS
  <2> HIDE DEF given, p, there
  <2>6. /\ z \in RunRecord /\ Running(z) /\ z.saw = "nothing" /\ z.at = i + 1
        /\ z.alone = run[s].alone /\ z.lost = run[s].lost /\ z.role = given
    BY <1>5, <2>4 DEF RunRecord, Running
  <2> HIDE DEF z
  <2>7. GoesOn(s, i, z)
    BY <1>2, <1>3, <1>4, <1>6, <1>9, <2>6 DEF GoesOn, Leaves
  <2>8. /\ InSection(run'[s], r) /\ run'[s] = z /\ InStretch(run'[s], r)
        /\ \A q \in Roles : InStretch(run[s], q) => InStretch(run'[s], q)
    BY <1>2, <2>7, StaysInSection
  <2> HIDE DEF new
  <2>9. /\ \A q \in Roles \ {r} : role'[q] = role[q]
        /\ role'[r] = IF there THEN new ELSE role[r]
        /\ role' \in [Roles -> RoleCopy] /\ role'[r] \in RoleRow(r)
    BY <1>4, <1>9, <2>2, <2>4
  <2>10. TablesInv'
    <3>1. ASSUME NEW q \in Roles, ~Found("role", q)' PROVE role'[q] = NewRole
      <4>1. ~Found("role", q)
        BY <1>1, <3>1 DEF Found
      <4> QED
        BY <2>5, <2>9, <4>1 DEF TablesInv
    <3>2. \A q \in Roles : role'[q] \in RoleRow(q)
      BY <2>9 DEF TablesInv
    <3> QED
      BY <1>1, <2>9, <3>1, <3>2 DEF TablesInv
  <2>11. Undisturbed(run[s]) => Achieved(i)'
    <3>1. g \in given.permissions
      BY <1>6
    <3> QED
      BY <1>2, <2>2, <2>3, <2>9, <3>1 DEF Achieved
  <2>12. Undisturbed(run[s]) =>
           /\ role[r].permissions \subseteq role'[r].permissions
           /\ role[r].permissionCount = Len(Mapping[r]) =>
                role'[r].permissionCount = Len(Mapping[r])
           /\ role[r].userCount = Target(r) => role'[r].userCount = Target(r)
           /\ \A q \in Roles : i + 1 \in MappingSteps /\ OfRole(i + 1, q) =>
                z.role = role'[q]
    BY <1>3, <1>4, <1>6, <2>2, <2>3, <2>6, <2>9
  <2>13. ASSUME Calm PROVE Keeps(s)
    <3>1. role'[r].permissions = (role[r].permissions \ removed) \cup added
      BY <2>2, <2>3, <2>9, <2>13
    <3>2. \A a : a \in PermissionsOf(r) /\ a \notin given.permissions => Owes(run'[s], r, a)
      BY <2>6, <2>8 DEF Owes
    <3>3. ASSUME NEW a \in PermissionsOf(r),
                 a \in role[r].permissions \/ Owes(run[s], r, a)
          PROVE  a \in role'[r].permissions \/ Owes(run'[s], r, a)
      <4>1. CASE a \notin given.permissions
        BY <3>2, <4>1
      <4>2. CASE a \in given.permissions
        <5>1. a \notin seen.permissions => a \in role'[r].permissions
          BY <3>1, <4>2
        <5>2. a \in role[r].permissions => a \in role'[r].permissions
          BY <3>1, <4>2
        <5>3. ASSUME Owes(run[s], r, a) PROVE a \notin seen.permissions
          BY <1>1, <1>6, <4>2, <5>3 DEF Owes
        <5> QED
          BY <3>3, <5>1, <5>2, <5>3
      <4> QED
        BY <4>1, <4>2
    <3>4. \A q \in Roles : \A a : Owes(run[s], q, a) => q = r
      BY <1>3 DEF Owes
    <3> QED
      BY <1>1, <1>3, <2>8, <2>9, <3>3, <3>4 DEF Keeps
  <2>14. ASSUME Calm, NEW a \in PermissionsOf(r), GrantedSoon(r, a) PROVE GrantedSoon(r, a)'
    BY <2>7, <2>13, <2>14, Going, Kept DEF GoesOn
  <2>15. ASSUME Calm PROVE \A a \in given.permissions : GrantedSoon(r, a)'
    <3>1. ASSUME NEW a \in given.permissions PROVE GrantedSoon(r, a)'
      <4>1. CASE a \in seen.permissions
        <5>1. GrantedSoon(r, a) /\ a \in PermissionsOf(r)
          BY <1>1, <1>4, <2>15, <4>1, AtGrant DEF RoleRow
        <5> QED
          BY <2>14, <2>15, <5>1
      <4>2. CASE a \notin seen.permissions
        <5>1. a \in role'[r].permissions
          BY <2>2, <2>3, <2>9, <2>15, <3>1, <4>2
        <5> QED
          BY <5>1 DEF GrantedSoon
      <4> QED
        BY <4>1, <4>2
    <3> QED
      BY <3>1
  <2>16. Calm => Promised(i)'
    <3>1. g \in given.permissions
      BY <1>6
    <3> QED
      BY <1>2, <2>15, <3>1 DEF Promised
  <2>17. ASSUME Calm, NEW q \in Roles, OfRole(i + 1, q)
         PROVE  /\ \A j \in Steps("grant") : j < i + 1 /\ OfRole(j, q) =>
                     Plan[j].permission \in z.role.permissions
                /\ \A a \in z.role.permissions : GrantedSoon(q, a)'
    <3>1. q = r
      BY <1>3, <2>17
    <3>2. ASSUME NEW j \in Steps("grant"), j < i + 1, OfRole(j, r)
          PROVE  Plan[j].permission \in given.permissions
      <4>1. j < i \/ j = i
        BY <1>1, <3>2, AtGrant
      <4>2. j < i => Plan[j].permission \in run[s].role.permissions
        BY <1>1, <2>17, <3>2, AtGrant
      <4> QED
        BY <1>6, <4>1, <4>2
    <3> QED
      BY <2>6, <2>15, <2>17, <3>1, <3>2
  <2> QED
    BY <1>1, <1>2, <2>1, <2>7, <2>9, <2>10, <2>11, <2>12, <2>13, <2>16, <2>17, PassesWriting
<1> QED
  BY <1>7, <1>8, <1>9

\* A role is inserted again only when somebody has deleted it.
LEMMA InsertRoleStep == ASSUME IInv, NEW s \in Seeders, InsertRole(s) PROVE IInv'
<1> USE DEF IInv
<1>1. /\ At(s, "grant") /\ run[s].saw = "missing"
      /\ UNCHANGED << systemUser, Calm >>
  BY DEF InsertRole, Calm
<1> PICK i \in DOMAIN Plan : i = run[s].at
  BY <1>1, AtStep
<1> PICK r \in Roles : r = Plan[i].role
  BY <1>1, AtGrant
<1> PICK g \in PermissionsOf(r) : g = Plan[i].permission
  BY <1>1, AtGrant
<1> DEFINE ref == <<"role", r>>
           given == Granted(s)
           p == Past(run[s], 1)
           z == [p EXCEPT !.role = given, !.lost = @ \ {ref}]
<1>2. /\ i \in MappingSteps /\ i # 1 /\ i \in Nat /\ i + 1 <= Len(Plan) + 1
      /\ i + 1 \in MappingSteps
      /\ Running(run[s]) /\ run[s] \in RunRecord
      /\ run[s].role \in RoleRow(r)
  BY <1>1, AtGrant
<1>3. \A q \in Roles : OfRole(i + 1, q) => q = r
  BY <1>1, AtGrant
<1>4. ~Calm /\ ~Calm' /\ ~Undisturbed(run[s])
  BY <1>1 DEF CalmInv, CalmHolds, AloneInv, AloneHolds
<1>5. UserFound
  BY <1>2 DEF UserInv, PastUser
<1>6. CASE Fails(s) /\ UNCHANGED << rows, role >>
  BY <1>1, <1>4, <1>6, Failing
<1>7. CASE /\ \E same \in SUBSET (Seeders \ {s}) :
                run' = Revived(ref, same, Others(s, [run EXCEPT ![s] = z]))
           /\ role' = [role EXCEPT ![r] = given]
           /\ rows' = rows \cup {Row("role", r)}
  <2>1. given \in RoleRow(r) /\ given \in RoleCopy
    BY <1>2, RowIsCopy DEF RoleRow, Granted
  <2>2. /\ p \in RunRecord /\ Running(p) /\ p.saw = "nothing" /\ p.at = i + 1
        /\ p.alone = run[s].alone /\ p.lost = run[s].lost
    BY <1>2, PastTyped
  <2> HIDE DEF given, p
  <2>3. /\ z \in RunRecord /\ Running(z) /\ z.saw = "nothing" /\ z.at = i + 1
        /\ z.alone = run[s].alone /\ z.role = given
    <3>1. p.lost \ {ref} \in SUBSET Ref
      BY <2>2 DEF RunRecord
    <3> QED
      BY <2>1, <2>2, <3>1 DEF RunRecord, Running
  <2> HIDE DEF z, ref
  <2>4. WellTyped(z) /\ ~Undisturbed(z)
    <3>1. \A q \in Roles : InSection(z, q) => z.role \in RoleRow(q)
      BY <1>3, <2>1, <2>3 DEF InSection
    <3>2. z.at \in DOMAIN Plan /\ z.status # "idle"
      BY <1>2, <2>3 DEF MappingSteps, Steps, Running
    <3> QED
      BY <1>2, <1>4, <2>3, <3>1, <3>2 DEF WellTyped, Undisturbed, Running
  <2>5. run'[s] = z /\ OthersWait(s)
    <3>1. PICK same \in SUBSET (Seeders \ {s}) :
            run' = Revived(ref, same, Others(s, [run EXCEPT ![s] = z]))
      BY <1>7
    <3> DEFINE rs == Others(s, [run EXCEPT ![s] = z])
    <3>2. DOMAIN run = Seeders /\ DOMAIN rs = Seeders
      BY DEF RunsInv, Others
    <3>3. DOMAIN run' = Seeders /\ rs[s] = z
      BY <3>1, <3>2 DEF Revived, Others
    <3>4. run'[s] = z
      BY <3>1, <3>3 DEF Revived
    <3>5. ASSUME NEW t \in Seeders \ {s}
          PROVE  /\ Like(run[t], run'[t]) /\ run'[t].alone = FALSE
                 /\ run'[t] \in RunRecord
      <4>1. rs[t] = [run[t] EXCEPT !.alone = FALSE] /\ run[t] \in RunRecord
        BY <3>2 DEF Others, RunsInv, WellTyped
      <4>2. /\ rs[t] \in RunRecord /\ Like(run[t], rs[t]) /\ rs[t].alone = FALSE
        BY <4>1 DEF RunRecord, Like
      <4> HIDE DEF rs
      <4>3. run'[t] = rs[t] \/ run'[t] = [rs[t] EXCEPT !.lost = @ \ {ref}]
        BY <3>1 DEF Revived, rs
      <4>4. rs[t].lost \ {ref} \in SUBSET Ref
        BY <4>2 DEF RunRecord
      <4> QED
        BY <4>2, <4>3, <4>4 DEF RunRecord, Like
    <3> QED
      BY <3>3, <3>4, <3>5 DEF OthersWait
  <2>6. role' \in [Roles -> RoleCopy] /\ role'[r] = given
        /\ \A q \in Roles \ {r} : role'[q] = role[q]
    BY <1>7, <2>1 DEF TablesInv
  <2>7. TablesInv'
    <3>1. Row("role", r) \in PlannedRows
      <4>1. PICK j \in 1..(i - 1) : Plan[j].op = "row" /\ Plan[j].row = Row("role", r)
        BY <1>2, OrderAssumption
      <4>2. j \in DOMAIN Plan
        BY <1>2, SectionsAssumption
      <4> QED
        BY <4>1, <4>2 DEF PlannedRows
    <3>2. Found("role", r)'
      <4>1. Row("role", r).table = "role" /\ Row("role", r).find = r
        BY DEF Row
      <4>2. Row("role", r) \in rows'
        BY <1>7
      <4> QED
        BY <4>1, <4>2 DEF Found
    <3>3. ASSUME NEW q \in Roles, ~Found("role", q)' PROVE role'[q] = NewRole
      <4>1. ~Found("role", q)
        BY <1>7, <3>3 DEF Found
      <4> QED
        BY <2>6, <3>2, <3>3, <4>1 DEF TablesInv
    <3>4. \A q \in Roles : role'[q] \in RoleRow(q)
      BY <2>1, <2>6 DEF TablesInv
    <3> QED
      BY <1>1, <1>7, <2>6, <3>1, <3>3, <3>4 DEF TablesInv
  <2>8. RunsInv'
    BY <2>4, <2>5, RunsMove
  <2>9. UserInv'
    <3>1. UserFound'
      BY <1>5, <1>7 DEF UserFound, Found
    <3> QED
      BY <1>5, <2>5, <3>1, UserMoves
  <2>10. AloneInv'
    BY <2>4, <2>5, AloneMoves
  <2> QED
    BY <1>4, <2>7, <2>8, <2>9, <2>10 DEF CalmInv
<1> QED
  BY <1>6, <1>7 DEF InsertRole

LEMMA StartStep == ASSUME IInv, NEW s \in Seeders, Start(s) PROVE IInv'
<1> USE DEF IInv
<1>1. run[s].status = "idle" /\ UNCHANGED << rows, role, systemUser, Calm >>
  BY DEF Start, Calm
<1> PICK free \in BOOLEAN : free = \A t \in Seeders \ {s} : run[t].status # "running"
  OBVIOUS
<1> DEFINE y == [run[s] EXCEPT !.status = "running", !.alone = free]
<1>2. /\ run[s] \in RunRecord /\ run[s].at = 1 /\ run[s].saw = "nothing"
      /\ run[s].lost = {} /\ DOMAIN run = Seeders
  BY <1>1 DEF RunsInv, WellTyped, Running
<1>3. Moves(s, y)
  BY <1>1, <1>2 DEF Start, Moves
<1>4. /\ y \in RunRecord /\ y.at = 1 /\ y.saw = "nothing" /\ y.lost = {} /\ Running(y)
      /\ y.status = "running"
  BY <1>2 DEF RunRecord, Running
<1> HIDE DEF y
<1>5. 1 \in DOMAIN Plan /\ 1 \notin MappingSteps /\ 1 \notin Steps("assign")
  BY UserRowIs, StepsAre
<1>6. WellTyped(y)
  BY <1>4, <1>5 DEF WellTyped, InSection
<1>7. run'[s] = y /\ OthersWait(s)
  BY <1>3, MovesIs
<1>8. /\ \A i \in DOMAIN Plan : ~Passed(y, i)
      /\ \A r : ~InSection(y, r) /\ ~InSection(run[s], r) /\ ~InStretch(run[s], r)
      /\ ~PastUser(y)
  BY <1>1, <1>4, <1>5, SectionsAssumption
  DEF Passed, InSection, InStretch, Running, PastUser
<1>9. RunsInv'
  BY <1>6, <1>7, RunsMove
<1>10. UserInv'
  BY <1>1, <1>7, <1>8, TablesStay, UserMoves DEF UserInv
<1>11. AloneInv'
  BY <1>4, <1>5, <1>7, <1>8, AloneMoves DEF AloneHolds
<1>12. CalmInv'
  <2>1. Keeps(s)
    BY <1>1, <1>8 DEF Keeps, Owes
  <2>2. CalmHolds(s)'
    BY <1>4, <1>5, <1>7, <1>8 DEF CalmHolds
  <2> QED
    BY <1>1, <1>7, <2>1, <2>2, CalmMoves DEF CalmInv
<1> QED
  BY <1>1, <1>9, <1>10, <1>11, <1>12, TablesStay

LEMMA CrashStep == ASSUME IInv, NEW s \in Seeders, Crash(s) PROVE IInv'
BY Failing DEF Crash, Calm

-----------------------------------------------------------------------------
(* The edits. *)

LEMMA ForgetIs ==
    ASSUME RunsInv, NEW refs \in SUBSET Ref, run' = Forget(refs)
    PROVE  /\ RunsInv'
           /\ \A s \in Seeders : /\ ~Undisturbed(run'[s])
                                 /\ PastUser(run'[s]) => PastUser(run[s])
<1>1. ASSUME NEW s \in Seeders
      PROVE  /\ WellTyped(run'[s]) /\ ~Undisturbed(run'[s])
             /\ PastUser(run'[s]) => PastUser(run[s])
  <2> DEFINE x == run[s]
             held == IF x.status = "running" THEN x.lost \cup refs ELSE x.lost
             y == [x EXCEPT !.alone = FALSE, !.lost = held]
  <2>1. run'[s] = y
    BY DEF Forget
  <2>2. WellTyped(x) /\ x \in RunRecord
    BY DEF RunsInv, WellTyped
  <2>3. held \in SUBSET Ref /\ (~Running(x) => held = {})
    BY <2>2 DEF RunRecord, WellTyped, Running
  <2> HIDE DEF held, x
  <2>4. /\ y \in RunRecord /\ y.status = x.status /\ y.at = x.at /\ y.saw = x.saw
        /\ y.role = x.role /\ y.seen = x.seen /\ y.lost = held /\ y.alone = FALSE
    BY <2>2, <2>3 DEF RunRecord
  <2> HIDE DEF y
  <2>5. WellTyped(y) /\ ~Undisturbed(y) /\ (PastUser(y) => PastUser(x))
    BY <2>2, <2>3, <2>4 DEF WellTyped, Undisturbed, PastUser, InSection, Running
  <2> QED
    BY <2>1, <2>5 DEF x
<1>2. DOMAIN run' = Seeders
  BY DEF Forget
<1> QED
  BY <1>1, <1>2 DEF RunsInv

LEMMA EditStep ==
    ASSUME IInv, NEW refs \in SUBSET Ref, run' = Forget(refs), ~Calm',
           TablesInv', UserFound => UserFound', ~UserFound' => systemUser'.licensed
    PROVE  IInv'
<1>1. /\ RunsInv'
      /\ \A s \in Seeders : /\ ~Undisturbed(run'[s])
                            /\ PastUser(run'[s]) => PastUser(run[s])
  BY ForgetIs DEF IInv
<1> QED
  BY <1>1 DEF IInv, UserInv, AloneInv, CalmInv

LEMMA DeleteRoleStep == ASSUME IInv, NEW r \in Deletable, DeleteRole(r) PROVE IInv'
<1> USE DEF IInv
<1>1. r \in Roles /\ {<<"role", r>>} \in SUBSET Ref
  BY DeletableAssumption DEF Ref
<1>2. /\ rows' = {row \in rows : row.table # "role" \/ row.key # r}
      /\ role' = [role EXCEPT ![r] = NewRole]
      /\ systemUser' = systemUser
      /\ run' = Forget({<<"role", r>>}) /\ ~Calm'
  BY DEF DeleteRole, Edit, Calm
<1>3. role \in [Roles -> RoleCopy] /\ systemUser \in UserRow
  BY DEF TablesInv
<1>4. systemUser' \in UserRow /\ systemUser'.licensed = systemUser.licensed
  BY <1>2, <1>3
<1>5. /\ role' \in [Roles -> RoleCopy] /\ role'[r] = NewRole
      /\ \A q \in Roles \ {r} : role'[q] = role[q]
  BY <1>1, <1>2, <1>3, NewRoleTyped
<1>6. \A q \in Roles : role'[q] \in RoleRow(q)
  BY <1>5, NewRoleTyped DEF TablesInv
<1>7. ASSUME NEW q \in Roles \ {r}, ~Found("role", q)' PROVE ~Found("role", q)
  <2>1. ASSUME NEW row \in rows, row.table = "role", row.find = q PROVE FALSE
    <3>1. row.key = q
      BY <2>1, RoleRowIs DEF TablesInv
    <3> QED
      BY <1>2, <1>7, <2>1, <3>1 DEF Found
  <2> QED
    BY <2>1 DEF Found
<1>8. TablesInv'
  BY <1>2, <1>4, <1>5, <1>6, <1>7 DEF TablesInv
<1>9. UserFound => UserFound'
  BY <1>2 DEF UserFound, Found
<1> QED
  BY <1>1, <1>2, <1>4, <1>8, <1>9, EditStep DEF UserInv

LEMMA DeleteGroupStep == ASSUME IInv, DeleteGroup PROVE IInv'
<1> USE DEF IInv
<1>1. /\ rows' = {row \in rows : row.table # "request_card"
                                 /\ (row.table # "group" \/ row.find # "tier-1")}
      /\ UNCHANGED << role, systemUser >>
      /\ run' = Forget({Tier1}) /\ ~Calm'
  BY DEF DeleteGroup, Edit, Calm
<1>2. {Tier1} \in SUBSET Ref
  BY DEF Ref
<1>3. \A r \in Roles : Found("role", r) => Found("role", r)'
  BY <1>1 DEF Found
<1>4. UserFound => UserFound'
  BY <1>1 DEF UserFound, Found
<1>5. TablesInv'
  BY <1>1, <1>3 DEF TablesInv
<1> QED
  BY <1>1, <1>2, <1>4, <1>5, EditStep DEF UserInv

LEMMA UnlicenseStep == ASSUME IInv, Unlicense PROVE IInv'
<1> USE DEF IInv
<1>1. /\ systemUser' = [systemUser EXCEPT !.licensed = FALSE]
      /\ UNCHANGED << rows, role >> /\ UserFound
      /\ run' = Forget({}) /\ ~Calm'
  BY DEF Unlicense, Edit, UserFound, Calm
<1>2. systemUser' \in UserRow
  BY <1>1 DEF UserRow, TablesInv
<1>3. UserFound'
  BY <1>1 DEF UserFound, Found
<1>4. TablesInv'
  BY <1>1, <1>2 DEF TablesInv, Found
<1> QED
  BY <1>1, <1>3, <1>4, EditStep

-----------------------------------------------------------------------------
(* The whole seeder. *)

LEMMA InitInv == Init => IInv
<1> SUFFICES ASSUME Init PROVE IInv
  OBVIOUS
<1>1. /\ rows = {} /\ role = [r \in Roles |-> NewRole] /\ systemUser = NewUser
      /\ run = [s \in Seeders |-> Idle]
  BY DEF Init
<1>2. Idle.status = "idle" /\ Idle.lost = {} /\ Idle.saw = "nothing"
  BY DEF Idle
<1>3. WellTyped(Idle) /\ ~Undisturbed(Idle)
  BY IdleTyped
<1>5. TablesInv
  BY <1>1, NewRoleTyped DEF TablesInv
<1>6. RunsInv /\ AloneInv
  BY <1>1, <1>3 DEF RunsInv, AloneInv
<1>7. UserInv
  BY <1>1, <1>2 DEF UserInv, NewUser, PastUser, Running
<1>8. CalmInv
  BY <1>1, <1>2 DEF CalmInv, CalmHolds, NewUser, Running, Passed, InSection
<1> QED
  BY <1>5, <1>6, <1>7, <1>8 DEF IInv

LEMMA StepInv == IInv /\ [Next]_vars => IInv'
<1> SUFFICES ASSUME IInv, [Next]_vars PROVE IInv'
  OBVIOUS
<1>1. ASSUME NEW s \in Seeders, Step(s) PROVE IInv'
  BY <1>1, FindStep, SaveStep, LicenseStep, LookStep, LoadRoleStep, SelectRoleStep,
     WriteRoleStep, InsertRoleStep, CountPermissionsStep, LoadUserStep, SelectUserStep,
     AssignAdminStep, CountUsersStep, SaveUserCountStep
  DEF Step
<1>2. CASE UNCHANGED vars
  BY <1>2 DEF vars, IInv, TablesInv, RunsInv, UserInv, UserFound, AloneInv, AloneHolds,
     CalmInv, Calm, CalmHolds, Found, Achieved, Promised, GrantedSoon, Owes,
     CountedSoon, UsersCountedSoon
<1>3. CASE Next
  BY <1>1, <1>3, StartStep, CrashStep, DeleteRoleStep, DeleteGroupStep, UnlicenseStep
  DEF Next
<1> QED
  BY <1>2, <1>3

\* What each step of run() (initial-data.seeder.ts) and each edit preserves.
THEOREM Invariance == Spec => []IInv
BY InitInv, StepInv, PTL DEF Spec

\* The rows written are those of the plan, and the columns of the roles and of
\* the system user stay in their ranges, whoever writes them over.
THEOREM SeedingTyped == Spec => []TypeOK
<1>1. IInv => TypeOK
  <2> SUFFICES ASSUME IInv PROVE TypeOK
    OBVIOUS
  <2>1. systemUser \in [licensed : BOOLEAN, admin : BOOLEAN] /\ rows \subseteq PlannedRows
    BY DEF IInv, TablesInv, UserRow
  <2>2. \A r \in Roles : /\ role[r].permissions \subseteq PermissionsOf(r)
                         /\ role[r].permissionCount \in 0..Len(Mapping[r])
                         /\ role[r].userCount \in 0..1
    BY DEF IInv, TablesInv, RoleRow
  <2>3. \A s \in Seeders :
          /\ run[s].status \in {"idle", "running", "done", "failed"}
          /\ run[s].at \in DOMAIN Plan
          /\ run[s].saw \in {"nothing", "absent", "unlicensed", "selected",
                             "missing", "counted"}
    BY DEF IInv, RunsInv, WellTyped, RunRecord
  <2> QED
    BY <2>1, <2>2, <2>3 DEF TypeOK
<1> QED
  BY <1>1, Invariance, PTL

\* A run that has come to its end has achieved every step of the plan, and
\* the plan is complete.
LEMMA AchievedIsSeeded ==
    ASSUME TablesInv, \A i \in DOMAIN Plan : Achieved(i) PROVE Seeded
<1>1. ASSUME NEW row \in PlannedRows PROVE Found(row.table, row.find)
  <2>1. PICK i \in Steps("row") : row = Plan[i].row
    BY DEF PlannedRows, Steps
  <2> QED
    BY <2>1 DEF Achieved, Steps
<1>2. ASSUME NEW r \in Roles
      PROVE  /\ role[r].permissions = PermissionsOf(r)
             /\ role[r].permissionCount = Cardinality(role[r].permissions)
             /\ role[r].userCount = (IF r = "admin" THEN 1 ELSE 0)
  <2>1. PermissionsOf(r) \subseteq role[r].permissions
    <3>1. ASSUME NEW p \in PermissionsOf(r) PROVE p \in role[r].permissions
      <4>1. PICK i \in Steps("grant") : OfRole(i, r) /\ Plan[i].permission = p
        BY CompletenessAssumption
      <4> QED
        BY <4>1 DEF Achieved, Steps, OfRole
    <3> QED
      BY <3>1
  <2>2. role[r].permissions = PermissionsOf(r)
    BY <2>1 DEF TablesInv, RoleRow
  <2>3. role[r].permissionCount = Len(Mapping[r])
    <3>1. PICK i \in Steps("count") : OfRole(i, r)
      BY CompletenessAssumption
    <3> QED
      BY <3>1 DEF Achieved, Steps, OfRole
  <2>4. role[r].userCount = Target(r)
    <3>1. PICK i \in Steps("users") : OfRole(i, r)
      BY CompletenessAssumption
    <3> QED
      BY <3>1 DEF Achieved, Steps, OfRole
  <2> QED
    BY <2>2, <2>3, <2>4, CompletenessAssumption DEF Target
<1>3. systemUser = [licensed |-> TRUE, admin |-> TRUE]
  <2>1. PICK i \in Steps("assign") : TRUE
    BY CompletenessAssumption
  <2>2. systemUser.licensed /\ systemUser.admin
    BY <2>1, UserRowIs DEF Achieved, Steps
  <2> QED
    BY <2>2 DEF TablesInv, UserRow
<1> QED
  BY <1>1, <1>2, <1>3 DEF Seeded

\* Seeding is repeatable: whatever an earlier run left half done and whatever
\* was deleted since, run() ends with everything in place when nobody else acts.
THEOREM RerunsRepair == Spec => []RerunRepairs
<1>1. IInv => RerunRepairs
  <2> SUFFICES ASSUME IInv, NEW s \in Seeders, run[s].status = "done", run[s].alone
               PROVE  Seeded
    BY DEF RerunRepairs
  <2>1. AloneHolds(s)
    BY DEF IInv, AloneInv, Undisturbed
  <2>2. \A i \in DOMAIN Plan : Achieved(i)
    BY <2>1 DEF AloneHolds, Passed
  <2> QED
    BY <2>2, AchievedIsSeeded DEF IInv
<1> QED
  BY <1>1, Invariance, PTL

\* Any number of runs may overlap, each taking from a role what it had not read
\* there: as long as none has died of an assignment another has made, the data
\* is complete once one run has come to its end and none is running.
THEOREM OverlappingRunsSeedAll == Spec => [](~clashed => OverlapSeedsAll)
<1>1. IInv => (~clashed => OverlapSeedsAll)
  <2> SUFFICES ASSUME IInv, Calm, NEW s \in Seeders, run[s].status = "done",
                      \A t \in Seeders : run[t].status # "running"
               PROVE  Seeded
    BY DEF OverlapSeedsAll, Calm
  <2>1. CalmHolds(s) /\ systemUser.licensed
    BY DEF IInv, CalmInv
  <2>2. \A t \in Seeders, r \in Roles : ~InSection(run[t], r) /\ ~InStretch(run[t], r)
    BY DEF InSection, InStretch, Running
  <2>3. ASSUME NEW i \in DOMAIN Plan PROVE Achieved(i)
    <3>1. Promised(i)
      BY <2>1 DEF CalmHolds, Passed
    <3>2. i \in MappingSteps \cup Steps("users") => Plan[i].role \in Roles
      BY SectionsAssumption
    <3> QED
      BY <2>1, <2>2, <3>1, <3>2
      DEF Promised, Achieved, GrantedSoon, Owes, CountedSoon, UsersCountedSoon, MappingSteps
  <2> QED
    BY <2>3, AchievedIsSeeded DEF IInv
<1> QED
  BY <1>1, Invariance, PTL
=============================================================================

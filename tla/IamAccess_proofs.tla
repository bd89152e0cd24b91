---------------------------- MODULE IamAccess_proofs ----------------------------
(***************************************************************************)
(* Proofs about roles, permissions and what requests are authorised by,    *)
(* for any users, roles, permissions and number of calls at the same time: *)
(* type correctness, the number shown with a role whose saves did not      *)
(* race, that a revoked permission stays out, and that no row is listed    *)
(* that the ability of the same answer refuses.                            *)
(***************************************************************************)
EXTENDS IamAccess, FiniteSetTheorems, TLAPS

RoleRow == [exists : BOOLEAN, permissions : SUBSET Granted, permissionCount : Int]
UserRow == [roles : SUBSET Role, permissions : SUBSET Granted]
AnyOp == {"idle"} \cup RoleOps \cup UserOps
AnyList == (SUBSET Role) \cup (SUBSET Granted)
AdminCall == [op : AnyOp, saving : BOOLEAN, role : Role \cup {None}, user : User \cup {None},
              row : RoleRow, base : RoleRow, list : AnyList, was : AnyList, arg : AnyList]
ReaderCall == [pc : {"idle", "roles", "rolePermissions", "found", "guarded", "answered"},
               user : User \cup {None}, roles : SUBSET Role, permissions : SUBSET Granted,
               guarded : BOOLEAN]
Entry == [data : SUBSET Granted, left : 0..TTL]

\* A role's number is right.
Counts(row) == row.permissionCount = Cardinality(row.permissions)

\* What an administrator's call works on, by its operation.
Placed(call) ==
    /\ call.op \in RoleOps => call.role \in Role /\ call.arg \subseteq Granted /\ call.row.exists
    /\ call.op \in UserOps => call.user \in User
    /\ call.op \in UserRoleOps =>
         call.list \subseteq Role /\ call.was \subseteq Role /\ call.arg \subseteq Role
    /\ call.op \in UserOps \ UserRoleOps =>
         call.list \subseteq Granted /\ call.was \subseteq Granted /\ call.arg \subseteq Granted

\* What a request has to know while it resolves.
Knows(r) == r.pc \in {"roles", "rolePermissions", "found", "guarded"} => r.user \in User

Typed ==
    /\ role \in [Role -> RoleRow]
    /\ user \in [User -> UserRow]
    /\ cache \in [User -> Entry]
    /\ admin \in [Admin -> AdminCall] /\ \A a \in Admin : Placed(admin[a])
    /\ reader \in [Reader -> ReaderCall] /\ \A q \in Reader : Knows(reader[q])
    /\ edits \in 0..MaxEdits
    /\ raced \subseteq Role
    /\ withdrawn \in [Role -> SUBSET Granted]

\* The copies of a role that did not race count as well as its row does.
CopiesCount ==
    \A a \in Admin :
        admin[a].op \in RoleOps /\ admin[a].role \notin raced => Counts(admin[a].row)

\* What a call is going to put into the list of role r.
Brings(call, r) ==
    IF call.op \in RoleOps /\ call.role = r THEN Changed(call).permissions ELSE {}

\* No call under way brings a withdrawn permission back.
NoneBringsBack == \A r \in Role, a \in Admin : Brings(admin[a], r) \cap withdrawn[r] = {}

IInv ==
    /\ Typed
    /\ CountMatches
    /\ CopiesCount
    /\ WithdrawnStaysOut
    /\ NoneBringsBack

-----------------------------------------------------------------------------
LEMMA GrantedFinite ==
    /\ IsFiniteSet(Granted) /\ Cardinality(Granted) \in Nat
    /\ \A P \in SUBSET Granted :
         IsFiniteSet(P) /\ Cardinality(P) \in 0..Cardinality(Granted)
<1>1. IsFiniteSet({})
  BY FS_EmptySet
<1>2. IsFiniteSet({} \cup {"request:read:any"})
  BY <1>1, FS_AddElement
<1>3. IsFiniteSet({} \cup {"request:read:any"} \cup {"request:read:own"})
  BY <1>2, FS_AddElement
<1>4. IsFiniteSet({} \cup {"request:read:any"} \cup {"request:read:own"}
                    \cup {"request:read:assigned"})
  BY <1>3, FS_AddElement
<1>5. IsFiniteSet({} \cup {"request:read:any"} \cup {"request:read:own"}
                    \cup {"request:read:assigned"} \cup {"request:read:group"})
  BY <1>4, FS_AddElement
<1>6. IsFiniteSet({} \cup {"request:read:any"} \cup {"request:read:own"}
                    \cup {"request:read:assigned"} \cup {"request:read:group"}
                    \cup {"case:manage:any"})
  BY <1>5, FS_AddElement
<1>7. Permission = {} \cup {"request:read:any"} \cup {"request:read:own"}
                    \cup {"request:read:assigned"} \cup {"request:read:group"}
                    \cup {"case:manage:any"}
  BY DEF Permission
<1>8. IsFiniteSet(Granted)
  BY <1>6, <1>7, FS_Subset, GrantedAssumption
<1>9. Cardinality(Granted) \in Nat
  BY <1>8, FS_CardinalityType
<1>10. ASSUME NEW P \in SUBSET Granted
       PROVE  IsFiniteSet(P) /\ Cardinality(P) \in 0..Cardinality(Granted)
  <2>1. IsFiniteSet(P) /\ Cardinality(P) <= Cardinality(Granted)
    BY <1>8, FS_Subset
  <2>2. Cardinality(P) \in Nat
    BY <2>1, FS_CardinalityType
  <2> QED BY <1>9, <2>1, <2>2
<1> QED BY <1>8, <1>9, <1>10

\* Permissions given to a role are counted once each.
LEMMA GivenCounts ==
    ASSUME NEW row \in RoleRow, NEW ps \in SUBSET Granted
    PROVE  /\ Given(row, ps) \in RoleRow
           /\ Given(row, ps).exists = row.exists
           /\ Given(row, ps).permissions = row.permissions \cup ps
           /\ Counts(row) => Counts(Given(row, ps))
<1> DEFINE P == row.permissions
           Q == ps \ row.permissions
           new == [row EXCEPT !.permissions = @ \cup ps,
                              !.permissionCount = @ + Cardinality(ps \ row.permissions)]
<1>1. P \in SUBSET Granted /\ Q \in SUBSET Granted /\ P \cup Q \in SUBSET Granted
  BY DEF RoleRow
<1>2. P \cap Q = {} /\ P \cup Q = P \cup ps
  OBVIOUS
<1>3. /\ Cardinality(P) \in Nat /\ Cardinality(Q) \in Nat
      /\ Cardinality(P \cup Q) \in Nat
  BY <1>1, GrantedFinite
<1>4. Cardinality(P \cup Q) = Cardinality(P) + Cardinality(Q) - Cardinality(P \cap Q)
  <2>1. IsFiniteSet(P) /\ IsFiniteSet(Q)
    BY <1>1, GrantedFinite
  <2> HIDE DEF P, Q
  <2> QED BY <2>1, FS_Union
<1>5. Cardinality(P \cap Q) = 0
  BY <1>2, FS_EmptySet
<1>6. Cardinality(P \cup ps) = Cardinality(P) + Cardinality(Q)
  <2>2. P \cup ps = P \cup Q
    BY <1>2
  <2> HIDE DEF P, Q
  <2>3. Cardinality(P \cup Q) = Cardinality(P) + Cardinality(Q)
    BY <1>3, <1>4, <1>5
  <2> QED BY <2>2, <2>3
<1>7. /\ new.permissions = P \cup ps /\ new.exists = row.exists
      /\ new.permissionCount = row.permissionCount + Cardinality(Q)
  BY DEF RoleRow
<1>8. row.permissionCount + Cardinality(Q) \in Int
  BY <1>3 DEF RoleRow
<1>9. new \in RoleRow
  BY <1>1, <1>2, <1>8 DEF RoleRow
<1> QED BY <1>6, <1>7, <1>9 DEF Given, Counts

\* Permissions taken from a role are counted once each.
LEMMA TakenCounts ==
    ASSUME NEW row \in RoleRow, NEW ps \in SUBSET Granted
    PROVE  /\ Taken(row, ps) \in RoleRow
           /\ Taken(row, ps).exists = row.exists
           /\ Taken(row, ps).permissions = row.permissions \ ps
           /\ Counts(row) => Counts(Taken(row, ps))
<1> DEFINE P == row.permissions
           new == [row EXCEPT !.permissions = @ \ ps,
                              !.permissionCount = @ - Cardinality(row.permissions \cap ps)]
<1>1. P \in SUBSET Granted /\ P \ ps \in SUBSET Granted /\ P \cap ps \in SUBSET Granted
  BY DEF RoleRow
<1>2. Cardinality(P \cap ps) \in Nat
  BY <1>1, GrantedFinite
<1>3. Cardinality(P \ ps) = Cardinality(P) - Cardinality(P \cap ps)
  BY <1>1, GrantedFinite, FS_Difference
<1>5. /\ new.permissions = P \ ps /\ new.exists = row.exists
      /\ new.permissionCount = row.permissionCount - Cardinality(P \cap ps)
  BY DEF RoleRow
<1>6. row.permissionCount - Cardinality(P \cap ps) \in Int
  BY <1>2 DEF RoleRow
<1>7. new \in RoleRow
  BY <1>1, <1>6 DEF RoleRow
<1> QED BY <1>3, <1>5, <1>7 DEF Taken, Counts

\* What a call makes of its copy.
LEMMA ChangedRow ==
    ASSUME NEW call \in AdminCall, Placed(call), call.op \in RoleOps
    PROVE  /\ Changed(call) \in RoleRow /\ Changed(call).exists
           /\ Counts(call.row) => Counts(Changed(call))
           /\ Changed(call).permissions \subseteq
                call.row.permissions \cup (IF call.op = "grantRole" THEN call.arg ELSE {})
           /\ call.op = "revokeRole" => Changed(call).permissions \cap call.arg = {}
<1>1. call.row \in RoleRow /\ call.arg \in SUBSET Granted /\ call.row.exists
  BY DEF AdminCall, Placed
<1>2. CASE call.op = "grantRole"
  BY <1>1, <1>2, GivenCounts DEF Changed
<1>3. CASE call.op = "revokeRole"
  <2>1. Changed(call) = Taken(call.row, call.arg)
    BY <1>3 DEF Changed
  <2> QED BY <1>1, <1>3, <2>1, TakenCounts
<1>4. CASE call.op = "updateRole"
  BY <1>1, <1>4 DEF Changed
<1> QED BY <1>2, <1>3, <1>4 DEF RoleOps

\* What a save makes of the row: nothing is added that the call does not bring.
LEMMA DifferenceRow ==
    ASSUME NEW x \in RoleRow, NEW b \in RoleRow, NEW n \in RoleRow, n.exists
    PROVE  /\ Difference(x, b, n) \in RoleRow
           /\ Difference(x, b, n).permissions \subseteq x.permissions \cup n.permissions
<1>1. CASE x.exists
  <2> DEFINE P == (x.permissions \ (b.permissions \ n.permissions))
                    \cup (n.permissions \ b.permissions)
             c == IF n.permissionCount = b.permissionCount
                  THEN x.permissionCount ELSE n.permissionCount
  <2>1. Difference(x, b, n) = [x EXCEPT !.permissions = P, !.permissionCount = c]
    BY <1>1 DEF Difference
  <2>2. P \in SUBSET Granted /\ c \in Int
    BY DEF RoleRow
  <2>3. P \subseteq x.permissions \cup n.permissions
    OBVIOUS
  <2> HIDE DEF P, c
  <2> QED BY <2>1, <2>2, <2>3 DEF RoleRow
<1>2. CASE ~x.exists
  BY <1>2 DEF Difference
<1> QED BY <1>1, <1>2

\* A save of a row nobody changed since it was selected writes what it saves.
LEMMA DifferenceUnraced ==
    ASSUME NEW b \in RoleRow, NEW n \in RoleRow, b.exists
    PROVE  /\ Difference(b, b, n).permissions = n.permissions
           /\ Difference(b, b, n).permissionCount = n.permissionCount
<1> DEFINE P == (b.permissions \ (b.permissions \ n.permissions))
                  \cup (n.permissions \ b.permissions)
           c == IF n.permissionCount = b.permissionCount
                THEN b.permissionCount ELSE n.permissionCount
<1>1. Difference(b, b, n) = [b EXCEPT !.permissions = P, !.permissionCount = c]
  BY DEF Difference
<1>2. P = n.permissions /\ c = n.permissionCount
  OBVIOUS
<1> HIDE DEF P, c
<1> QED BY <1>1, <1>2 DEF RoleRow

\* For any permissions, a row is only listed when the ability can read it.
LEMMA ListsOnlyReadable ==
    ASSUME NEW P \in SUBSET Permission, GuardPasses(P), NEW row \in Row, Lists(P, row)
    PROVE  CanRead(P, row)
<1> DEFINE matching == {p \in P : ActionOf(p) = "read"}
<1>1. CASE matching = {}
  <2>1. PICK p \in P : ActionOf(p) \in {"read", "manage"}
    BY DEF GuardPasses
  <2>2. p = "case:manage:any"
    BY <1>1, <2>1 DEF ActionOf
  <2> QED BY <2>1, <2>2 DEF CanRead, Meets
<1>2. CASE \E p \in matching : ~Restricts(p)
  <2>1. PICK p \in matching : ~Restricts(p)
    BY <1>2
  <2>2. p \in P /\ p = "request:read:any"
    BY <2>1 DEF Restricts, ActionOf
  <2>3. ActionOf(p) = "read" /\ Meets(row, p)
    BY <2>1, <2>2 DEF Meets
  <2> QED BY <2>2, <2>3 DEF CanRead
<1>3. CASE matching # {} /\ \A p \in matching : Restricts(p)
  <2>1. \E p \in matching : Meets(row, p)
    BY <1>3 DEF Lists
  <2> QED BY <2>1 DEF CanRead
<1> QED BY <1>1, <1>2, <1>3

-----------------------------------------------------------------------------
LEMMA BlankTyped ==
    /\ NewRole \in RoleRow /\ NoRole \in RoleRow /\ Counts(NewRole) /\ Counts(NoRole)
    /\ NewRole.permissions = {} /\ NoRole.permissions = {}
    /\ NewUser \in UserRow
    /\ Idle \in AdminCall /\ Placed(Idle) /\ Idle.op = "idle"
    /\ NotAsked \in ReaderCall /\ NotAsked.pc = "idle"
<1>0. Cardinality({}) = 0
  BY FS_EmptySet
<1>1. NewRole \in RoleRow /\ Counts(NewRole) /\ NewRole.permissions = {}
  BY <1>0 DEF NewRole, RoleRow, Counts
<1>2. NoRole \in RoleRow /\ Counts(NoRole) /\ NoRole.permissions = {}
  <2>1. NoRole.permissions = NewRole.permissions
        /\ NoRole.permissionCount = NewRole.permissionCount
    BY <1>1 DEF NoRole, RoleRow
  <2>2. NoRole \in RoleRow
    BY <1>1 DEF NoRole, RoleRow
  <2> QED BY <1>1, <2>1, <2>2 DEF Counts
<1>3. Idle \in AdminCall /\ Idle.op = "idle"
  BY <1>2 DEF Idle, AdminCall, AnyOp, AnyList
<1>4. Placed(Idle)
  BY <1>2 DEF Idle, Placed, RoleOps, UserOps, UserRoleOps
<1> QED BY <1>1, <1>2, <1>3, <1>4 DEF NewUser, UserRow, NotAsked, ReaderCall

THEOREM InitInv == Init => IInv
<1> SUFFICES ASSUME Init PROVE IInv
  OBVIOUS
<1>1. role \in [Role -> RoleRow] /\ user \in [User -> UserRow] /\ admin \in [Admin -> AdminCall]
      /\ reader \in [Reader -> ReaderCall]
  BY BlankTyped DEF Init
<1>2. cache \in [User -> Entry]
  BY TTLAssumption DEF Init, Entry
<1>3. \A a \in Admin : Placed(admin[a]) /\ admin[a].op = "idle"
  BY BlankTyped DEF Init
<1>4. \A q \in Reader : Knows(reader[q])
  BY BlankTyped DEF Init, Knows
<1>5. CountMatches
  BY BlankTyped DEF Init, CountMatches, Counts
<1>6. CopiesCount /\ NoneBringsBack
  BY <1>3 DEF CopiesCount, NoneBringsBack, Brings, RoleOps
<1>7. WithdrawnStaysOut /\ withdrawn \in [Role -> SUBSET Granted] /\ raced \subseteq Role
  BY DEF Init, WithdrawnStaysOut
<1>8. edits \in 0..MaxEdits
  BY EditsAssumption DEF Init
<1>9. Typed
  BY <1>1, <1>2, <1>3, <1>4, <1>7, <1>8 DEF Typed
<1> QED BY <1>5, <1>6, <1>7, <1>9 DEF IInv

\* An administrator's call takes a step to another typed record.
LEMMA AdminsTyped ==
    ASSUME Typed, NEW a \in Admin, NEW r \in AdminCall, Placed(r),
           admin' = [admin EXCEPT ![a] = r]
    PROVE  /\ admin' \in [Admin -> AdminCall] /\ \A b \in Admin : Placed(admin'[b])
           /\ admin'[a] = r /\ \A b \in Admin \ {a} : admin'[b] = admin[b]
<1>1. admin \in [Admin -> AdminCall] /\ \A b \in Admin : Placed(admin[b])
  BY DEF Typed
<1>2. \A b \in Admin : admin'[b] = IF b = a THEN r ELSE admin[b]
  BY <1>1
<1> QED BY <1>1, <1>2

\* A call that goes on, bringing nothing that is withdrawn and counting as the
\* row does, keeps the rest of the invariant; so does the end of a call.
LEMMA RoleKept ==
    ASSUME IInv, NEW a \in Admin, NEW call \in AdminCall, Placed(call),
           admin' = [admin EXCEPT ![a] = call],
           UNCHANGED << role, raced >>,
           withdrawn' \in [Role -> SUBSET Granted],
           \A r \in Role : withdrawn'[r] \subseteq withdrawn[r],
           call.op \in RoleOps /\ call.role \notin raced => Counts(call.row),
           \A r \in Role : Brings(call, r) \cap withdrawn'[r] = {}
    PROVE  CountMatches' /\ CopiesCount' /\ WithdrawnStaysOut' /\ NoneBringsBack'
<1>1. admin'[a] = call /\ \A b \in Admin \ {a} : admin'[b] = admin[b]
  BY AdminsTyped DEF IInv
<1>2. CountMatches'
  BY DEF IInv, CountMatches
<1>3. CopiesCount'
  BY <1>1 DEF IInv, CopiesCount
<1>4. WithdrawnStaysOut'
  BY DEF IInv, WithdrawnStaysOut
<1>5. NoneBringsBack'
  <2> SUFFICES ASSUME NEW r \in Role, NEW b \in Admin
               PROVE  Brings(admin'[b], r) \cap withdrawn'[r] = {}
    BY DEF NoneBringsBack
  <2>1. CASE b = a
    BY <1>1, <2>1
  <2>2. CASE b # a
    BY <1>1, <2>2 DEF IInv, NoneBringsBack
  <2> QED BY <2>1, <2>2
<1> QED BY <1>2, <1>3, <1>4, <1>5

\* A call on no role brings nothing to any.
LEMMA BringsNothing ==
    ASSUME NEW call, call.op \notin RoleOps
    PROVE  \A r \in Role : Brings(call, r) = {}
BY DEF Brings

-----------------------------------------------------------------------------
(* The steps of administrators. *)

LEMMA LoadRoleInv ==
    ASSUME IInv, NEW a \in Admin, LoadRole(a) PROVE IInv'
<1>0. Typed
  BY DEF IInv
<1>a. edits' \in 0..MaxEdits
  BY <1>0, EditsAssumption DEF Typed, LoadRole, Begin
<1>1. PICK r \in Role, op \in RoleOps, p \in Granted :
        IF role[r].exists
        THEN /\ admin' = [admin EXCEPT ![a] = [Idle EXCEPT
                            !.op = op, !.role = r, !.row = role[r], !.arg = {p}]]
             /\ withdrawn' = IF op = "grantRole"
                             THEN [withdrawn EXCEPT ![r] = @ \ {p}] ELSE withdrawn
        ELSE UNCHANGED << admin, withdrawn >>
  BY DEF LoadRole
<1>2. UNCHANGED << role, user, cache, reader, raced >>
  BY DEF LoadRole
<1>3. CASE role[r].exists
  <2> DEFINE call == [Idle EXCEPT !.op = op, !.role = r, !.row = role[r], !.arg = {p}]
  <2>1. role[r] \in RoleRow /\ {p} \in AnyList /\ op \in AnyOp
    BY <1>0 DEF Typed, AnyList, AnyOp
  <2>2. /\ call \in AdminCall
        /\ call.op = op /\ call.role = r /\ call.row = role[r] /\ call.arg = {p}
    BY <2>1, BlankTyped DEF AdminCall
  <2>3. admin' = [admin EXCEPT ![a] = call]
    BY <1>1, <1>3
  <2> HIDE DEF call
  <2>4. Placed(call)
    BY <1>3, <2>2 DEF Placed, RoleOps, UserOps, UserRoleOps
  <2>5. /\ withdrawn' \in [Role -> SUBSET Granted]
        /\ \A s \in Role : withdrawn'[s] \subseteq withdrawn[s]
        /\ op = "grantRole" => p \notin withdrawn'[r]
    <3>1. withdrawn \in [Role -> SUBSET Granted]
      BY <1>0 DEF Typed
    <3> QED BY <1>1, <1>3, <3>1
  <2>6. Brings(call, r) \cap withdrawn'[r] = {}
    <3>1. Brings(call, r) \subseteq role[r].permissions \cup (IF op = "grantRole" THEN {p} ELSE {})
      BY <2>2, <2>4, ChangedRow DEF Brings
    <3>2. role[r].permissions \cap withdrawn[r] = {}
      BY DEF IInv, WithdrawnStaysOut
    <3> QED BY <2>5, <3>1, <3>2
  <2>7. \A s \in Role : Brings(call, s) \cap withdrawn'[s] = {}
    BY <2>2, <2>6 DEF Brings
  <2>8. r \notin raced => Counts(role[r])
    BY DEF IInv, CountMatches, Counts
  <2>9. Typed'
    BY <1>0, <1>2, <1>a, <2>2, <2>3, <2>4, <2>5, AdminsTyped DEF Typed
  <2>10. CountMatches' /\ CopiesCount' /\ WithdrawnStaysOut' /\ NoneBringsBack'
    BY <1>2, <2>2, <2>3, <2>4, <2>5, <2>7, <2>8, RoleKept
  <2> QED BY <2>9, <2>10 DEF IInv
<1>4. CASE ~role[r].exists
  <2>1. UNCHANGED << role, user, cache, reader, raced, admin, withdrawn >>
    BY <1>1, <1>2, <1>4
  <2>2. Typed'
    BY <1>0, <1>a, <2>1 DEF Typed
  <2> QED BY <2>1, <2>2 DEF IInv, CountMatches, CopiesCount, WithdrawnStaysOut, NoneBringsBack
<1> QED BY <1>3, <1>4

LEMMA SelectRoleInv ==
    ASSUME IInv, NEW a \in Admin, SelectRole(a) PROVE IInv'
<1>0. Typed
  BY DEF IInv
<1> DEFINE call == [admin[a] EXCEPT !.saving = TRUE, !.base = role[admin[a].role]]
<1>1. admin[a] \in AdminCall /\ Placed(admin[a]) /\ admin[a].op \in RoleOps
  BY <1>0 DEF Typed, SelectRole
<1>2. role[admin[a].role] \in RoleRow
  BY <1>0, <1>1 DEF Typed, Placed
<1>3. /\ call \in AdminCall
      /\ call.op = admin[a].op /\ call.role = admin[a].role /\ call.row = admin[a].row
      /\ call.arg = admin[a].arg /\ call.list = admin[a].list /\ call.was = admin[a].was
      /\ call.user = admin[a].user
  BY <1>1, <1>2 DEF AdminCall
<1>4. admin' = [admin EXCEPT ![a] = call]
  BY <1>0 DEF SelectRole, Typed
<1>5. UNCHANGED << role, user, cache, reader, edits, raced, withdrawn >>
  BY DEF SelectRole, history
<1> HIDE DEF call
<1>6. Placed(call)
  BY <1>1, <1>3 DEF Placed
<1>7. \A r \in Role : Brings(call, r) = Brings(admin[a], r)
  BY <1>3 DEF Brings, Changed
<1>8. Typed'
  BY <1>0, <1>3, <1>4, <1>5, <1>6, AdminsTyped DEF Typed
<1>9. CountMatches' /\ CopiesCount' /\ WithdrawnStaysOut' /\ NoneBringsBack'
  <2>1. call.op \in RoleOps /\ call.role \notin raced => Counts(call.row)
    BY <1>3 DEF IInv, CopiesCount
  <2>2. \A r \in Role : Brings(call, r) \cap withdrawn'[r] = {}
    BY <1>5, <1>7 DEF IInv, NoneBringsBack
  <2>3. withdrawn' \in [Role -> SUBSET Granted] /\ \A r \in Role : withdrawn'[r] \subseteq withdrawn[r]
    BY <1>0, <1>5 DEF Typed
  <2> QED BY <1>3, <1>4, <1>5, <1>6, <2>1, <2>2, <2>3, RoleKept
<1> QED BY <1>8, <1>9 DEF IInv

LEMMA WriteRoleInv ==
    ASSUME IInv, NEW a \in Admin, WriteRole(a) PROVE IInv'
<1>0. Typed
  BY DEF IInv
<1> DEFINE call == admin[a]
           r == call.role
           new == Changed(call)
           added == new.permissions \ call.base.permissions
           fits == IF call.base.exists
                   THEN /\ added \cap role[r].permissions = {}
                        /\ added = {} \/ role[r].exists
                   ELSE ~role[r].exists
           row == IF call.base.exists THEN Difference(role[r], call.base, new) ELSE new
<1>1. call \in AdminCall /\ Placed(call) /\ call.op \in RoleOps
  BY <1>0 DEF Typed, WriteRole
<1>2. r \in Role /\ role[r] \in RoleRow /\ call.base \in RoleRow /\ call.arg \in SUBSET Granted
  BY <1>0, <1>1 DEF Typed, Placed, AdminCall
<1>3. /\ new \in RoleRow /\ new.exists
      /\ Counts(call.row) => Counts(new)
      /\ call.op = "revokeRole" => new.permissions \cap call.arg = {}
  BY <1>1, ChangedRow
<1>4. /\ role' = IF ~fits THEN role ELSE [role EXCEPT ![r] = row]
      /\ raced' = IF role[r] = call.base THEN raced ELSE raced \cup {r}
      /\ withdrawn' = IF fits /\ call.op = "revokeRole" /\ role[r] = call.base
                      THEN [withdrawn EXCEPT ![r] = @ \cup {p \in call.arg : ~Wanted(a, r, p)}]
                      ELSE withdrawn
      /\ admin' = [admin EXCEPT ![a] = Idle]
      /\ UNCHANGED << user, cache, reader, edits >>
  BY DEF WriteRole, Ends
<1>5. /\ row \in RoleRow
      /\ row.permissions \subseteq role[r].permissions \cup new.permissions
      /\ role[r] = call.base /\ fits =>
           row.permissions = new.permissions /\ row.permissionCount = new.permissionCount
  <2> HIDE DEF call, r, new
  <2>1. CASE call.base.exists
    <3> DEFINE d == Difference(role[r], call.base, new)
    <3>1. role[r] \in RoleRow /\ call.base \in RoleRow /\ new \in RoleRow /\ new.exists
      BY <1>2, <1>3
    <3>2. row = d
      BY <2>1
    <3> HIDE DEF added, fits, row
    <3>3. d \in RoleRow /\ d.permissions \subseteq role[r].permissions \cup new.permissions
      BY <3>1, DifferenceRow
    <3>4. ASSUME role[r] = call.base
          PROVE  d.permissions = new.permissions /\ d.permissionCount = new.permissionCount
      <4>1. Difference(call.base, call.base, new).permissions = new.permissions
            /\ Difference(call.base, call.base, new).permissionCount = new.permissionCount
        BY <2>1, <3>1, DifferenceUnraced
      <4> QED BY <3>4, <4>1
    <3> HIDE DEF d
    <3> QED BY <3>2, <3>3, <3>4
  <2>2. CASE ~call.base.exists
    BY <1>3, <2>2
  <2> QED BY <2>1, <2>2
<1> HIDE DEF call, r, new, added, fits, row
<1>6. role' \in [Role -> RoleRow]
      /\ \A s \in Role : role'[s] = IF s = r /\ fits THEN row ELSE role[s]
  <2>1. role \in [Role -> RoleRow]
    BY <1>0 DEF Typed
  <2> QED BY <1>2, <1>4, <1>5, <2>1
<1>7. /\ withdrawn' \in [Role -> SUBSET Granted]
      /\ \A s \in Role : s # r => withdrawn'[s] = withdrawn[s]
      /\ \A p \in withdrawn'[r] :
           \/ p \in withdrawn[r]
           \/ /\ fits /\ call.op = "revokeRole" /\ role[r] = call.base
              /\ p \in call.arg /\ ~Wanted(a, r, p)
  <2>1. withdrawn \in [Role -> SUBSET Granted]
    BY <1>0 DEF Typed
  <2> QED BY <1>2, <1>4, <2>1
<1>8. /\ admin' \in [Admin -> AdminCall] /\ \A b \in Admin : Placed(admin'[b])
      /\ admin'[a].op = "idle" /\ \A b \in Admin \ {a} : admin'[b] = admin[b]
  BY <1>0, <1>4, BlankTyped, AdminsTyped
<1>9. raced \subseteq raced' /\ raced' \subseteq Role
  BY <1>0, <1>2, <1>4 DEF Typed
<1>10. Typed'
  BY <1>0, <1>4, <1>6, <1>7, <1>8, <1>9 DEF Typed
<1>11. CountMatches'
  <2> SUFFICES ASSUME NEW s \in Role, s \notin raced' PROVE Counts(role'[s])
    BY DEF CountMatches, Counts
  <2>1. Counts(role[s])
    BY <1>9 DEF IInv, CountMatches, Counts
  <2>2. CASE s = r /\ fits
    <3>1. role[r] = call.base
      BY <1>4, <2>2
    <3>2. Counts(new)
      BY <1>1, <1>3, <1>9, <2>2 DEF IInv, CopiesCount, call, r
    <3> QED BY <1>5, <1>6, <2>2, <3>1, <3>2 DEF Counts
  <2>3. CASE ~(s = r /\ fits)
    BY <1>6, <2>1, <2>3
  <2> QED BY <2>2, <2>3
<1>12. CopiesCount'
  BY <1>8, <1>9 DEF IInv, CopiesCount, RoleOps
<1>13. new.permissions \cap withdrawn[r] = {}
  BY <1>1, <1>2 DEF IInv, NoneBringsBack, Brings, call, r, new
<1>14. WithdrawnStaysOut'
  <2> SUFFICES ASSUME NEW s \in Role, NEW p \in role'[s].permissions, p \in withdrawn'[s]
               PROVE  FALSE
    BY DEF WithdrawnStaysOut
  <2>1. role[s].permissions \cap withdrawn[s] = {}
    BY DEF IInv, WithdrawnStaysOut
  <2>2. CASE s # r
    BY <1>6, <1>7, <2>1, <2>2
  <2>3. CASE s = r /\ p \in withdrawn[r]
    BY <1>5, <1>6, <1>13, <2>1, <2>3
  <2>4. CASE s = r /\ p \notin withdrawn[r]
    <3>1. fits /\ call.op = "revokeRole" /\ role[r] = call.base /\ p \in call.arg
      BY <1>7, <2>4
    <3>2. p \in new.permissions
      BY <1>5, <1>6, <2>4, <3>1
    <3> QED BY <1>3, <3>1, <3>2
  <2> QED BY <2>2, <2>3, <2>4
<1>15. NoneBringsBack'
  <2> SUFFICES ASSUME NEW s \in Role, NEW b \in Admin, NEW p \in Brings(admin'[b], s),
                      p \in withdrawn'[s]
               PROVE  FALSE
    BY DEF NoneBringsBack
  <2>1. b # a
    BY <1>8, BringsNothing DEF RoleOps
  <2>2. p \in Brings(admin[b], s)
    BY <1>8, <2>1
  <2>3. p \notin withdrawn[s]
    BY <2>2 DEF IInv, NoneBringsBack
  <2>4. s = r /\ ~Wanted(a, r, p)
    BY <1>7, <2>3
  <2>5. admin[b].op \in RoleOps /\ admin[b].role = r /\ p \in Changed(admin[b]).permissions
    BY <2>2, <2>4 DEF Brings
  <2> QED BY <2>1, <2>4, <2>5 DEF Wanted
<1> QED BY <1>10, <1>11, <1>12, <1>14, <1>15 DEF IInv

LEMMA DeleteRoleInv ==
    ASSUME IInv, NEW a \in Admin, DeleteRole(a) PROVE IInv'
<1>0. Typed
  BY DEF IInv
<1>1. PICK r \in Role : role' = [role EXCEPT ![r] = NoRole]
  BY DEF DeleteRole
<1>2. edits' \in 0..MaxEdits /\ UNCHANGED << user, cache, admin, reader, raced, withdrawn >>
  BY <1>0, EditsAssumption DEF Typed, DeleteRole, Begin, history
<1>3. role' \in [Role -> RoleRow] /\ \A s \in Role : role'[s] = IF s = r THEN NoRole ELSE role[s]
  BY <1>0, <1>1, BlankTyped DEF Typed
<1>4. Typed'
  BY <1>0, <1>2, <1>3 DEF Typed
<1>5. CountMatches'
  BY <1>2, <1>3, BlankTyped DEF IInv, CountMatches, Counts
<1>6. WithdrawnStaysOut'
  BY <1>2, <1>3, BlankTyped DEF IInv, WithdrawnStaysOut
<1> QED BY <1>2, <1>4, <1>5, <1>6 DEF IInv, CopiesCount, NoneBringsBack

\* A step that writes no role and loads none keeps what is said of roles.
LEMMA UserCallKept ==
    ASSUME IInv, NEW a \in Admin, NEW call \in AdminCall, Placed(call), call.op \notin RoleOps,
           admin' = [admin EXCEPT ![a] = call], UNCHANGED << role, raced, withdrawn >>
    PROVE  CountMatches' /\ CopiesCount' /\ WithdrawnStaysOut' /\ NoneBringsBack'
<1>1. \A r \in Role : Brings(call, r) \cap withdrawn'[r] = {}
  BY BringsNothing
<1>2. withdrawn' \in [Role -> SUBSET Granted] /\ \A r \in Role : withdrawn'[r] \subseteq withdrawn[r]
  BY DEF IInv, Typed
<1> QED BY <1>1, <1>2, RoleKept

LEMMA LoadUserInv ==
    ASSUME IInv, NEW a \in Admin, LoadUser(a) PROVE IInv'
<1>0. Typed
  BY DEF IInv
<1>a. edits' \in 0..MaxEdits /\ UNCHANGED << role, user, cache, reader, raced, withdrawn >>
  BY <1>0, EditsAssumption DEF Typed, LoadUser, Begin, history
<1>1. PICK u \in User, op \in UserOps :
      \E arg \in (IF op \in UserRoleOps THEN SUBSET Role ELSE {{p} : p \in Granted}) :
        admin' = [admin EXCEPT ![a] = [Idle EXCEPT
                    !.op = op, !.user = u, !.arg = arg,
                    !.list = IF op \in UserRoleOps
                             THEN user[u].roles ELSE user[u].permissions]]
  BY DEF LoadUser
<1>2. PICK arg \in (IF op \in UserRoleOps THEN SUBSET Role ELSE {{p} : p \in Granted}) :
        admin' = [admin EXCEPT ![a] = [Idle EXCEPT
                    !.op = op, !.user = u, !.arg = arg,
                    !.list = IF op \in UserRoleOps
                             THEN user[u].roles ELSE user[u].permissions]]
  BY <1>1
<1> DEFINE list == IF op \in UserRoleOps THEN user[u].roles ELSE user[u].permissions
           call == [Idle EXCEPT !.op = op, !.user = u, !.arg = arg, !.list = list]
<1>3. /\ op \in UserRoleOps => list \in SUBSET Role /\ arg \in SUBSET Role
      /\ op \notin UserRoleOps => list \in SUBSET Granted /\ arg \in SUBSET Granted
  BY <1>0 DEF UserRow, Typed
<1>4. admin' = [admin EXCEPT ![a] = call]
  BY <1>2
<1> HIDE DEF list
<1>5. /\ call \in AdminCall
      /\ call.op = op /\ call.user = u /\ call.arg = arg /\ call.list = list /\ call.was = Idle.was
  <2>1. op \in AnyOp /\ list \in AnyList /\ arg \in AnyList
    BY <1>3 DEF AnyOp, AnyList
  <2> QED BY <2>1, BlankTyped DEF AdminCall
<1> HIDE DEF call
<1>6. op \notin RoleOps
  BY DEF RoleOps, UserOps, UserRoleOps
<1>7. Placed(call)
  <2>1. Idle.was = {}
    BY DEF Idle
  <2> QED BY <1>3, <1>5, <1>6, <2>1 DEF Placed
<1>8. Typed'
  BY <1>0, <1>4, <1>5, <1>7, <1>a, AdminsTyped DEF Typed
<1> QED BY <1>4, <1>5, <1>6, <1>7, <1>8, <1>a, UserCallKept DEF IInv

LEMMA SelectUserInv ==
    ASSUME IInv, NEW a \in Admin, SelectUser(a) PROVE IInv'
<1>0. Typed
  BY DEF IInv
<1> DEFINE u == admin[a].user
           was == IF admin[a].op \in UserRoleOps THEN user[u].roles ELSE user[u].permissions
           call == [admin[a] EXCEPT !.saving = TRUE, !.was = was]
<1>1. admin[a] \in AdminCall /\ Placed(admin[a]) /\ admin[a].op \in UserOps
  BY <1>0 DEF Typed, SelectUser
<1>2. u \in User /\ user[u] \in UserRow
  BY <1>0, <1>1 DEF Typed, Placed
<1>3. /\ admin[a].op \in UserRoleOps => was \in SUBSET Role
      /\ admin[a].op \notin UserRoleOps => was \in SUBSET Granted
  BY <1>2 DEF UserRow
<1>4. admin' = [admin EXCEPT ![a] = call]
  BY <1>0 DEF SelectUser, Typed
<1>5. UNCHANGED << role, user, cache, reader, edits, raced, withdrawn >>
  BY DEF SelectUser, history
<1> HIDE DEF u, was
<1>6. /\ call \in AdminCall
      /\ call.op = admin[a].op /\ call.role = admin[a].role /\ call.row = admin[a].row
      /\ call.arg = admin[a].arg /\ call.list = admin[a].list /\ call.was = was
      /\ call.user = admin[a].user
  BY <1>1, <1>3 DEF AdminCall, AnyList
<1> HIDE DEF call
<1>7. Placed(call)
  BY <1>1, <1>3, <1>6 DEF Placed
<1>8. call.op \notin RoleOps
  BY <1>1, <1>6 DEF RoleOps, UserOps, UserRoleOps
<1>9. Typed'
  BY <1>0, <1>4, <1>5, <1>6, <1>7, AdminsTyped DEF Typed
<1> QED BY <1>4, <1>5, <1>6, <1>7, <1>8, <1>9, UserCallKept DEF IInv

LEMMA WriteUserInv ==
    ASSUME IInv, NEW a \in Admin, WriteUser(a) PROVE IInv'
<1>0. Typed
  BY DEF IInv
<1> DEFINE call == admin[a]
           u == call.user
           added == NewList(call) \ call.was
           removed == call.was \ NewList(call)
<1>1. call \in AdminCall /\ Placed(call) /\ call.op \in UserOps
  BY <1>0 DEF Typed, WriteUser
<1>2. u \in User /\ user[u] \in UserRow
  BY <1>0, <1>1 DEF Typed, Placed
<1>3. /\ call.op \in UserRoleOps => added \in SUBSET Role
      /\ call.op \notin UserRoleOps => added \in SUBSET Granted
  BY <1>1 DEF NewList, Placed, UserOps, UserRoleOps
<1>4. \/ user' = user
      \/ call.op \in UserRoleOps /\ user' = [user EXCEPT ![u].roles = (@ \ removed) \cup added]
      \/ call.op \notin UserRoleOps
         /\ user' = [user EXCEPT ![u].permissions = (@ \ removed) \cup added]
  BY DEF WriteUser
<1>5. admin' = [admin EXCEPT ![a] = Idle] /\ UNCHANGED << role, cache, reader, edits, raced, withdrawn >>
  BY DEF WriteUser, Ends, history
<1> HIDE DEF call, u, added, removed
<1>6. user' \in [User -> UserRow]
  <2>1. user \in [User -> UserRow]
    BY <1>0 DEF Typed
  <2>2. added \in SUBSET Role => [user[u] EXCEPT !.roles = (@ \ removed) \cup added] \in UserRow
    BY <1>2 DEF UserRow
  <2>3. added \in SUBSET Granted =>
          [user[u] EXCEPT !.permissions = (@ \ removed) \cup added] \in UserRow
    BY <1>2 DEF UserRow
  <2> QED BY <1>2, <1>3, <1>4, <2>1, <2>2, <2>3
<1>7. Idle \in AdminCall /\ Placed(Idle) /\ Idle.op \notin RoleOps
  BY BlankTyped DEF RoleOps
<1>8. Typed'
  BY <1>0, <1>5, <1>6, <1>7, AdminsTyped DEF Typed
<1> QED BY <1>5, <1>7, <1>8, UserCallKept DEF IInv

LEMMA AdminStepInv ==
    ASSUME IInv, NEW a \in Admin, AdminStep(a) PROVE IInv'
BY LoadRoleInv, SelectRoleInv, WriteRoleInv, DeleteRoleInv, LoadUserInv, SelectUserInv,
   WriteUserInv DEF AdminStep, Save

-----------------------------------------------------------------------------
(* The steps of requests, and time. *)

\* The permissions of roles are among the granted ones.
LEMMA EffectiveGranted ==
    ASSUME Typed, NEW rs \in SUBSET Role PROVE RolePermissions(rs) \in SUBSET Granted
BY DEF Typed, RolePermissions, RoleRow

\* What a resolution starts from and what it ends with are typed.
LEMMA ResolvedTyped ==
    /\ \A r \in ReaderCall, P \in SUBSET Granted :
         r.user \in User => Resolved(r, P) \in ReaderCall /\ Knows(Resolved(r, P))
    /\ Typed => \A q \in Reader, u \in User :
         Asking(q, u) => Resolving(q, u) \in ReaderCall /\ Resolving(q, u).user = u
<1>1. ASSUME NEW r \in ReaderCall, NEW P \in SUBSET Granted, r.user \in User
      PROVE  Resolved(r, P) \in ReaderCall /\ Knows(Resolved(r, P))
  <2>1. CASE r.guarded
    <3>1. [r EXCEPT !.pc = "answered", !.roles = {}, !.permissions = P] \in ReaderCall
      BY DEF ReaderCall
    <3>2. [r EXCEPT !.pc = "answered", !.roles = {}, !.permissions = P].user = r.user
      BY DEF ReaderCall
    <3> QED BY <1>1, <2>1, <3>1, <3>2 DEF Resolved, Knows
  <2>2. CASE ~r.guarded /\ GuardPasses(P)
    <3> DEFINE s == [r EXCEPT !.pc = "guarded", !.roles = {}, !.permissions = {},
                              !.guarded = TRUE]
    <3>1. s \in ReaderCall /\ s.user = r.user
      BY DEF ReaderCall
    <3>2. Resolved(r, P) = s
      BY <2>2 DEF Resolved
    <3> HIDE DEF s
    <3> QED BY <1>1, <3>1, <3>2 DEF Knows
  <2>3. CASE ~r.guarded /\ ~GuardPasses(P)
    BY <2>3, BlankTyped DEF Resolved, Knows
  <2> QED BY <2>1, <2>2, <2>3
<1>2. ASSUME Typed, NEW q \in Reader, NEW u \in User, Asking(q, u)
      PROVE  Resolving(q, u) \in ReaderCall /\ Resolving(q, u).user = u
  <2>1. reader[q] \in ReaderCall
    BY <1>2 DEF Typed
  <2>2. CASE reader[q].pc = "guarded"
    BY <1>2, <2>1, <2>2 DEF Resolving, Asking
  <2>3. CASE reader[q].pc # "guarded"
    <3>1. [NotAsked EXCEPT !.user = u] \in ReaderCall /\ [NotAsked EXCEPT !.user = u].user = u
      BY BlankTyped DEF ReaderCall
    <3> QED BY <2>3, <3>1 DEF Resolving
  <2> QED BY <2>2, <2>3
<1> QED BY <1>1, <1>2

\* A request takes a step to another typed record, or time passes.
LEMMA ReadersKept ==
    ASSUME IInv, UNCHANGED << role, user, admin, edits, raced, withdrawn >>,
           cache' \in [User -> Entry],
           \/ reader' = reader
           \/ \E q \in Reader, r \in ReaderCall : Knows(r) /\ reader' = [reader EXCEPT ![q] = r]
    PROVE  IInv'
<1>0. reader \in [Reader -> ReaderCall] /\ \A x \in Reader : Knows(reader[x])
  BY DEF IInv, Typed
<1>1. reader' \in [Reader -> ReaderCall] /\ \A x \in Reader : Knows(reader'[x])
  <2>1. CASE reader' = reader
    BY <1>0, <2>1
  <2>2. CASE \E q \in Reader, r \in ReaderCall : Knows(r) /\ reader' = [reader EXCEPT ![q] = r]
    <3>1. PICK q \in Reader, r \in ReaderCall : Knows(r) /\ reader' = [reader EXCEPT ![q] = r]
      BY <2>2
    <3>2. \A x \in Reader : reader'[x] = IF x = q THEN r ELSE reader[x]
      BY <1>0, <3>1
    <3> QED BY <1>0, <3>1, <3>2
  <2> QED BY <2>1, <2>2
<1>2. Typed'
  BY <1>1 DEF IInv, Typed
<1> QED BY <1>2 DEF IInv, CountMatches, CopiesCount, WithdrawnStaysOut, NoneBringsBack

LEMMA ReaderStepInv ==
    ASSUME IInv, NEW q \in Reader, ReaderStep(q) PROVE IInv'
<1>0. /\ Typed /\ user \in [User -> UserRow] /\ cache \in [User -> Entry]
      /\ reader \in [Reader -> ReaderCall] /\ reader[q] \in ReaderCall /\ Knows(reader[q])
  BY DEF IInv, Typed
<1> USE DEF history
<1>1. CASE Hit(q)
  <2>1. PICK u \in User : /\ Asking(q, u)
                          /\ reader' = [reader EXCEPT ![q] =
                                         Resolved(Resolving(q, u), cache[u].data)]
    BY <1>1 DEF Hit
  <2>2. cache[u].data \in SUBSET Granted
    BY <1>0 DEF Entry
  <2>3. /\ Resolved(Resolving(q, u), cache[u].data) \in ReaderCall
        /\ Knows(Resolved(Resolving(q, u), cache[u].data))
    BY <1>0, <2>1, <2>2, ResolvedTyped
  <2> QED BY <1>0, <1>1, <2>1, <2>3, ReadersKept DEF Hit
<1>2. CASE FindRoles(q)
  <2>1. PICK u \in User : /\ Asking(q, u)
                          /\ reader' = [reader EXCEPT ![q] = [Resolving(q, u) EXCEPT
                                !.pc = "roles", !.roles = user[u].roles]]
    BY <1>2 DEF FindRoles
  <2> DEFINE r == [Resolving(q, u) EXCEPT !.pc = "roles", !.roles = user[u].roles]
  <2>2. Resolving(q, u) \in ReaderCall /\ Resolving(q, u).user = u
    BY <1>0, <2>1, ResolvedTyped
  <2>3. r \in ReaderCall /\ r.user = u
    BY <1>0, <2>2 DEF ReaderCall, UserRow
  <2>4. reader' = [reader EXCEPT ![q] = r]
    BY <2>1
  <2> HIDE DEF r
  <2>5. Knows(r)
    BY <2>3 DEF Knows
  <2> QED BY <1>0, <1>2, <2>3, <2>4, <2>5, ReadersKept DEF FindRoles
<1>3. CASE FindRolePermissions(q)
  <2> DEFINE P == RolePermissions(reader[q].roles)
             r == [reader[q] EXCEPT !.pc = "rolePermissions", !.roles = {}, !.permissions = P]
  <2>1. P \in SUBSET Granted
    BY <1>0, EffectiveGranted DEF ReaderCall
  <2>2. reader' = [reader EXCEPT ![q] = r]
    BY <1>0, <1>3 DEF FindRolePermissions
  <2> HIDE DEF P
  <2>3. r \in ReaderCall /\ r.user = reader[q].user
    BY <1>0, <2>1 DEF ReaderCall
  <2> HIDE DEF r
  <2>4. Knows(r)
    BY <1>0, <1>3, <2>3 DEF Knows, FindRolePermissions
  <2> QED BY <1>0, <1>3, <2>2, <2>3, <2>4, ReadersKept DEF FindRolePermissions
<1>4. CASE FindUserPermissions(q)
  <2> DEFINE P == user[reader[q].user].permissions
             r == [reader[q] EXCEPT !.pc = "found", !.permissions = @ \cup P]
  <2>1. reader[q].user \in User /\ P \in SUBSET Granted
    BY <1>0, <1>4 DEF FindUserPermissions, UserRow, Knows
  <2>2. reader' = [reader EXCEPT ![q] = r]
    BY <1>0, <1>4 DEF FindUserPermissions
  <2> HIDE DEF P
  <2>3. r \in ReaderCall /\ r.user = reader[q].user
    BY <1>0, <2>1 DEF ReaderCall
  <2> HIDE DEF r
  <2>4. Knows(r)
    BY <2>1, <2>3 DEF Knows
  <2> QED BY <1>0, <1>4, <2>2, <2>3, <2>4, ReadersKept DEF FindUserPermissions
<1>5. CASE Keep(q)
  <2> DEFINE P == reader[q].permissions
             entry == [data |-> P, left |-> TTL]
  <2>1. P \in SUBSET Granted /\ reader[q].user \in User
    BY <1>0, <1>5 DEF ReaderCall, Keep, Knows
  <2>2. entry \in Entry
    BY <2>1, TTLAssumption DEF Entry
  <2>3. cache' = [cache EXCEPT ![reader[q].user] = entry]
        /\ reader' = [reader EXCEPT ![q] = Resolved(reader[q], P)]
    BY <1>5 DEF Keep
  <2>4. Resolved(reader[q], P) \in ReaderCall /\ Knows(Resolved(reader[q], P))
    BY <1>0, <2>1, ResolvedTyped
  <2> HIDE DEF P, entry
  <2>5. cache' \in [User -> Entry]
    BY <1>0, <2>1, <2>2, <2>3
  <2>6. UNCHANGED << role, user, admin, edits, raced, withdrawn >>
    BY <1>5 DEF Keep
  <2> QED BY <2>3, <2>4, <2>5, <2>6, ReadersKept
<1> QED BY <1>1, <1>2, <1>3, <1>4, <1>5 DEF ReaderStep, Resolve

LEMMA TickInv == IInv /\ Tick => IInv'
<1> SUFFICES ASSUME IInv, Tick PROVE IInv'
  OBVIOUS
<1>0. cache \in [User -> Entry]
  BY DEF IInv, Typed
<1>1. ASSUME NEW u \in User
      PROVE  (IF cache[u].left <= 1 THEN [data |-> {}, left |-> 0]
              ELSE [cache[u] EXCEPT !.left = @ - 1]) \in Entry
  BY <1>0, TTLAssumption DEF Entry
<1>2. cache' \in [User -> Entry]
  BY <1>1 DEF Tick
<1> QED BY <1>2, ReadersKept DEF Tick, history

THEOREM StepInv == IInv /\ [Next]_vars => IInv'
<1>1. ASSUME IInv, UNCHANGED vars PROVE IInv'
  BY <1>1 DEF IInv, Typed, vars, CountMatches, CopiesCount, WithdrawnStaysOut, NoneBringsBack
<1> QED BY <1>1, AdminStepInv, ReaderStepInv, TickInv DEF Next

THEOREM Invariance == Spec => []IInv
BY InitInv, StepInv, PTL DEF Spec

-----------------------------------------------------------------------------
(* In every behaviour the roles, users, cache entries and calls have the    *)
(* shape the code gives them (iam/permissions, iam/users, core/).           *)
THEOREM IamAccessTyped == Spec => []TypeOK
<1>1. IInv => TypeOK
  BY DEF IInv, Typed, TypeOK, RoleRow, UserRow, AdminCall, AnyOp, AnyList, ReaderCall, Entry
<1> QED BY <1>1, Invariance, PTL

(* However many calls grant, revoke, edit and delete roles at the same time *)
(* (permissions.service.ts, roles.service.ts), permissionCount is the       *)
(* number of the permissions of every role to which nothing was written     *)
(* between the select and the write of a save.                              *)
THEOREM CountsMatchUnlessRaced == Spec => []CountMatches
<1>1. IInv => CountMatches
  BY DEF IInv
<1> QED BY <1>1, Invariance, PTL

(* A permission revoked from a role (permissions.service.ts:66), with no    *)
(* other call holding it for the role, is not brought back by a save of an  *)
(* older copy, by a failed save, or with a deleted role.                    *)
THEOREM RevocationsHold == Spec => []WithdrawnStaysOut
<1>1. IInv => WithdrawnStaysOut
  BY DEF IInv
<1> QED BY <1>1, Invariance, PTL

(* For any permissions the filter of a list was made from and the guard     *)
(* would let through, the filter (extractConditions) returns no row that    *)
(* the ability of the same permissions (casl-ability.factory.ts) refuses.   *)
THEOREM NothingListedThatIsRefused == Spec => []ListsWhatGuardAllows
<1>1. IInv => ListsWhatGuardAllows
  <2> SUFFICES ASSUME IInv, NEW q \in Reader, GuardPasses(reader[q].permissions),
                      NEW row \in Row, Lists(reader[q].permissions, row)
               PROVE  CanRead(reader[q].permissions, row)
    BY DEF ListsWhatGuardAllows
  <2>1. reader[q].permissions \in SUBSET Permission
    BY GrantedAssumption DEF IInv, Typed, ReaderCall
  <2> QED BY <2>1, ListsOnlyReadable
<1> QED BY <1>1, Invariance, PTL
=============================================================================

-------------------------- MODULE RequestFulfilment --------------------------
(***************************************************************************)
(* How a catalog request becomes a case: RequestService.createRequest, the *)
(* three listeners behind 'request.created', 'request.approved' and        *)
(* 'case.status.changed', ApprovalService.approveRequest / rejectRequest,  *)
(* the agents' edits of requests and cases, and the replacement of a       *)
(* card's approval steps.                                                  *)
(*                                                                         *)
(* The server is one Node.js process, so code runs atomically from one     *)
(* await to the next and every await is a point where other handlers run.  *)
(* An action is therefore one database operation and the synchronous code  *)
(* behind it.  A row a handler has loaded lives on in the handler's own    *)
(* record, and Repository.save(entity) writes all its columns back,        *)
(* whatever other handlers committed in between.                           *)
(*                                                                         *)
(* EventEmitter2.emit starts each listener and does not wait for it.  When *)
(* the emitter touches no table afterwards, the listener continues in the  *)
(* emitter's record; createRequest does, so its listener has a record of   *)
(* its own (opener).                                                       *)
(***************************************************************************)
EXTENDS Integers, Sequences

CONSTANTS
    Request, User, Group, Case,
    Worker,          \* API calls that can be in flight at one time
    None,            \* SQL NULL, and the absent value
    Members,         \* [Group -> SUBSET User]: the active memberships
    Manager,         \* the requester's metadata.manager resolved, or None
    StepLists,       \* the approval configurations an administrator enters
    RequestTargets,  \* bound: the statuses agents set by updateRequest
    CaseTargets,     \* bound: the statuses agents set on a case
    MaxStepEdits,    \* bound: changes of the card's approval steps
    MaxFaults        \* bound: process crashes and failed createCase calls

RequestStatus ==
    {"Submitted", "WaitingApproval", "Assigned", "InProgress", "Resolved", "Closed"}

CaseStatus ==
    {"New", "WaitingApproval", "InProgress", "Pending", "Resolved", "Closed"}

\* The columns of table request that the properties tell apart.
Row == [status : RequestStatus, linkedCaseId : Case \cup {None},
        resolution : {"none", "rejected", "resolved"}]

\* The row createRequest inserts: column defaults, not linked, no resolution.
NewRow == [status |-> "Submitted", linkedCaseId |-> None, resolution |-> "none"]

\* A row of table case.  origin and via are history: the request the case was
\* created for and by which path; via = "none" says that the row does not exist.
CaseRow == [status : CaseStatus, origin : Request \cup {None},
            via : {"none", "create", "approval"}]

Decision == {"none", "pending", "approved", "rejected"}

Step == [type : {"direct", "manager", "group"}, user : User \cup {None},
         group : Group \cup {None}, requireAll : BOOLEAN]

ASSUME StepListsAssumption == StepLists \subseteq Seq(Step)
ASSUME MembersAssumption == Members \in [Group -> SUBSET User]
ASSUME ManagerAssumption == Manager \in User \cup {None}
ASSUME NoneAssumption ==
    None \notin Request /\ None \notin User /\ None \notin Case /\ None \notin Group
ASSUME BoundAssumption ==
    /\ RequestTargets \subseteq RequestStatus /\ CaseTargets \subseteq CaseStatus
    /\ MaxStepEdits \in Nat /\ MaxFaults \in Nat

VARIABLES
    steps,        \* table approval_steps: the card's steps, by order
    admin,        \* replaceApprovalSteps after its delete: the steps to insert
    requests,     \* table request
    approvals,    \* table approval_request, "none" where there is no row
    cases,        \* table case
    creator,      \* createRequest, one call per request
    opener,       \* RequestApprovalListener.handleRequestCreated
    call,         \* the other API calls, with the listeners they start
    approvedBy,   \* history: the users who ever saved an approval
    stepEdits,    \* counts the edits of steps, up to MaxStepEdits
    faults        \* counts crashes and failures, up to MaxFaults

tables == <<steps, requests, approvals, cases>>
vars == <<steps, admin, requests, approvals, cases, creator, opener, call,
          approvedBy, stepEdits, faults>>

IdleCall == [pc |-> "idle", req |-> None, user |-> None, row |-> NewRow,
             case |-> None, to |-> "New", seen |-> FALSE]

DecisionPC == {"approve", "recheck", "tally", "close", "approved", "route",
               "link", "reject", "closeRejected"}
CasePC == {"saveCase", "saveCaseQuietly", "sync", "saveSync"}
CallPC == {"idle", "saveRequest"} \cup DecisionPC \cup CasePC

Call == [pc : CallPC, req : Request \cup {None}, user : User \cup {None},
         row : Row, case : Case \cup {None}, to : CaseStatus, seen : BOOLEAN]

Creator == [pc : {"unsent", "inserted", "routing", "linking", "done"},
            group : BOOLEAN, case : Case \cup {None}]

Opener == [pc : {"idle", "emitted", "loaded", "saving", "inserting", "done"},
           row : Row, approvers : SUBSET User]

\* The records of handlers that have not begun or have returned.
Creating(pc) == [pc |-> pc, group |-> FALSE, case |-> None]
Opening(pc) == [pc |-> pc, row |-> NewRow, approvers |-> {}]

Exists(r) == creator[r].pc # "unsent"
Voters(r) == {u \in User : approvals[r][u] # "none"}
CasesOf(r, path) == {c \in Case : cases[c].origin = r /\ cases[c].via = path}
FreeCases == {c \in Case : cases[c].via = "none"}

Init ==
    /\ steps \in StepLists
    /\ admin = None
    /\ requests = [r \in Request |-> NewRow]
    /\ approvals = [r \in Request |-> [u \in User |-> "none"]]
    /\ cases = [c \in Case |-> [status |-> "New", origin |-> None, via |-> "none"]]
    /\ creator = [r \in Request |-> Creating("unsent")]
    /\ opener = [r \in Request |-> Opening("idle")]
    /\ call = [w \in Worker |-> IdleCall]
    /\ approvedBy = [r \in Request |-> {}]
    /\ stepEdits = 0
    /\ faults = 0

-----------------------------------------------------------------------------
(* CaseService.createCase: the number is drawn and the row is inserted with *)
(* status New.                                                              *)
CreateCase(c, r, path) ==
    /\ c \in FreeCases
    /\ cases' = [cases EXCEPT ![c] = [status |-> "New", origin |-> r, via |-> path]]

(* RequestService.createRequest.  The validated request is inserted; hasGroup *)
(* says whether an assignment group was found (card default or help desk).    *)
InsertRequest(r, hasGroup) ==
    /\ creator[r].pc = "unsent"
    /\ requests' = [requests EXCEPT ![r] = NewRow]
    /\ creator' = [creator EXCEPT ![r] = [Creating("inserted") EXCEPT !.group = hasGroup]]
    /\ UNCHANGED <<steps, admin, approvals, cases, opener, call, approvedBy,
                   stepEdits, faults>>

(* checkIfApprovalRequired counts the steps; 'request.created' is emitted in *)
(* either case, and the request is routed only when there are none.          *)
\* Mutants: the count is compared off by one; the event is emitted only when
\* createRequest routes the request itself.
NeedsApprovalOffByOne == Len(steps) > 1

CountStepsEmitsWhenRouting(r) ==
    /\ creator[r].pc = "inserted"
    /\ creator' = [creator EXCEPT ![r] =
                       Creating(IF steps # <<>> \/ ~creator[r].group THEN "done" ELSE "routing")]
    /\ opener' = [opener EXCEPT ![r] = Opening(IF steps # <<>> THEN "idle" ELSE "emitted")]
    /\ UNCHANGED <<tables, admin, call, approvedBy, stepEdits, faults>>

NeedsApproval == steps # <<>>

CountSteps(r) ==
    /\ creator[r].pc = "inserted"
    /\ opener' = [opener EXCEPT ![r] = Opening("emitted")]
    /\ creator' = [creator EXCEPT ![r] = IF NeedsApproval \/ ~creator[r].group
                                           THEN Creating("done")
                                           ELSE Creating("routing")]
    /\ UNCHANGED <<tables, admin, call, approvedBy, stepEdits, faults>>

(* routeRequest with a group: the case is created from the request. *)
RouteRequest(r) ==
    /\ creator[r].pc = "routing"
    /\ \E c \in Case :
           /\ CreateCase(c, r, "create")
           /\ creator' = [creator EXCEPT ![r] = [Creating("linking") EXCEPT !.case = c]]
    /\ UNCHANGED <<steps, admin, requests, approvals, opener, call, approvedBy,
                   stepEdits, faults>>

(* createCase throws; createRequest rethrows and the inserted row stays. *)
RouteRequestFails(r) ==
    /\ creator[r].pc = "routing"
    /\ faults < MaxFaults
    /\ faults' = faults + 1
    /\ creator' = [creator EXCEPT ![r] = Creating("done")]
    /\ UNCHANGED <<tables, admin, opener, call, approvedBy, stepEdits>>

(* The second save of the inserted entity: its status is the one the insert *)
(* returned; resolution was never loaded, so that column is left alone.     *)
LinkCreated(r) ==
    /\ creator[r].pc = "linking"
    /\ requests' = [requests EXCEPT ![r] = [@ EXCEPT !.status = "Submitted",
                                                     !.linkedCaseId = creator[r].case]]
    /\ creator' = [creator EXCEPT ![r] = Creating("done")]
    /\ UNCHANGED <<steps, admin, approvals, cases, opener, call, approvedBy,
                   stepEdits, faults>>

-----------------------------------------------------------------------------
(* RequestApprovalListener.handleRequestCreated, concurrent with createRequest. *)

LoadCreated(r) ==
    /\ opener[r].pc = "emitted"
    /\ opener' = [opener EXCEPT ![r] = [Opening("loaded") EXCEPT !.row = requests[r]]]
    /\ UNCHANGED <<tables, admin, creator, call, approvedBy, stepEdits, faults>>

(* The users a step resolves to. *)
StepApprovers(step) ==
    CASE step.type = "direct"  -> {step.user} \ {None}
      [] step.type = "manager" -> {Manager} \ {None}
      [] step.type = "group"   -> IF step.group = None THEN {} ELSE Members[step.group]

(* The listener reads the steps itself; only the first one is ever opened. *)
LoadSteps(r) ==
    /\ opener[r].pc = "loaded"
    /\ IF steps = <<>>
         THEN opener' = [opener EXCEPT ![r] = Opening("done")]
         ELSE opener' = [opener EXCEPT ![r] =
                            [@ EXCEPT !.pc = "saving", !.approvers = StepApprovers(Head(steps))]]
    /\ UNCHANGED <<tables, admin, creator, call, approvedBy, stepEdits, faults>>

SaveWaiting(r) ==
    /\ opener[r].pc = "saving"
    /\ requests' = [requests EXCEPT ![r] = [opener[r].row EXCEPT !.status = "WaitingApproval"]]
    /\ opener' = [opener EXCEPT ![r] = [@ EXCEPT !.pc = "inserting", !.row = NewRow]]
    /\ UNCHANGED <<steps, admin, approvals, cases, creator, call, approvedBy,
                   stepEdits, faults>>

(* createApprovalsForStep: one pending row per approver, or only a warning *)
(* in the log when there is none.                                          *)
InsertApprovals(r) ==
    /\ opener[r].pc = "inserting"
    /\ approvals' = [approvals EXCEPT ![r] =
                         [u \in User |-> IF u \in opener[r].approvers THEN "pending"
                                                                     ELSE @[u]]]
    /\ opener' = [opener EXCEPT ![r] = Opening("done")]
    /\ UNCHANGED <<steps, admin, requests, cases, creator, call, approvedBy,
                   stepEdits, faults>>

-----------------------------------------------------------------------------
(* ApprovalService: both decisions look for the user's own pending row. *)

\* The record of call w becomes c: its handler goes on, or returns.
Become(w, c) == call' = [call EXCEPT ![w] = c]
Finish(w) == Become(w, IdleCall)

LoadPending(w, r, u, call0) ==
    /\ call[w].pc = "idle"
    /\ approvals[r][u] = "pending"
    /\ Become(w, [call0 EXCEPT !.req = r, !.user = u])
    /\ UNCHANGED <<tables, admin, creator, opener, approvedBy, stepEdits, faults>>

Approve(w, r, u) == LoadPending(w, r, u, [IdleCall EXCEPT !.pc = "approve"])

\* rejectRequest keeps the request that is loaded with the approval row.
Reject(w, r, u) ==
    LoadPending(w, r, u, [IdleCall EXCEPT !.pc = "reject", !.row = requests[r]])

\* Mutant: approveRequest returns without checkApprovalCompletion.
SaveApprovalUnchecked(w) ==
    LET r == call[w].req  u == call[w].user IN
    /\ call[w].pc = "approve"
    /\ approvals' = [approvals EXCEPT ![r][u] = "approved"]
    /\ approvedBy' = [approvedBy EXCEPT ![r] = @ \cup {u}]
    /\ Finish(w)
    /\ UNCHANGED <<steps, admin, requests, cases, creator, opener, stepEdits, faults>>

SaveApproval(w) ==
    LET r == call[w].req  u == call[w].user IN
    /\ call[w].pc = "approve"
    /\ approvals' = [approvals EXCEPT ![r][u] = "approved"]
    /\ approvedBy' = [approvedBy EXCEPT ![r] = @ \cup {u}]
    /\ Become(w, [call[w] EXCEPT !.pc = "recheck"])
    /\ UNCHANGED <<steps, admin, requests, cases, creator, opener, stepEdits, faults>>

(* checkApprovalCompletion loads the request first ... *)
LoadForTally(w) ==
    /\ call[w].pc = "recheck"
    /\ Become(w, [call[w] EXCEPT !.pc = "tally", !.row = requests[call[w].req]])
    /\ UNCHANGED <<tables, admin, creator, opener, approvedBy, stepEdits, faults>>

AnyRejected(r) == \E u \in Voters(r) : approvals[r][u] = "rejected"

\* Mutants: some() in place of every(); a rejected row counts as decided.
SomeApproved(r) == \E u \in Voters(r) : approvals[r][u] = "approved"
NonePending(r) == Voters(r) # {} /\ \A u \in Voters(r) : approvals[r][u] # "pending"

AllApproved(r) == Voters(r) # {} /\ \A u \in Voters(r) : approvals[r][u] = "approved"

(* ... and all its approvals next: any rejection closes the request, and   *)
(* 'request.approved' is emitted when every approval is there.             *)
Tally(w) ==
    LET r == call[w].req IN
    /\ call[w].pc = "tally"
    /\ \/ /\ AnyRejected(r)
          /\ Become(w, [call[w] EXCEPT !.pc = "close"])
       \/ /\ AllApproved(r)
          /\ Become(w, [call[w] EXCEPT !.pc = "approved"])
       \/ /\ ~AnyRejected(r) /\ ~AllApproved(r)
          /\ Finish(w)
    /\ UNCHANGED <<tables, admin, creator, opener, approvedBy, stepEdits, faults>>

SaveClosed(w) ==
    /\ call[w].pc = "close"
    /\ requests' = [requests EXCEPT ![call[w].req] = [call[w].row EXCEPT !.status = "Closed"]]
    /\ Finish(w)
    /\ UNCHANGED <<steps, admin, approvals, cases, creator, opener, approvedBy,
                   stepEdits, faults>>

(* RequestApprovedListener.handleRequestApproved: load, create the case, save. *)
LoadApproved(w) ==
    /\ call[w].pc = "approved"
    /\ Become(w, [call[w] EXCEPT !.pc = "route", !.row = requests[call[w].req]])
    /\ UNCHANGED <<tables, admin, creator, opener, approvedBy, stepEdits, faults>>

RouteApproved(w) ==
    /\ call[w].pc = "route"
    /\ \E c \in Case :
           /\ CreateCase(c, call[w].req, "approval")
           /\ Become(w, [call[w] EXCEPT !.pc = "link", !.case = c])
    /\ UNCHANGED <<steps, admin, requests, approvals, creator, opener, approvedBy,
                   stepEdits, faults>>

(* No category, no subcategory or a failing insert: logged and swallowed. *)
RouteApprovedFails(w) ==
    /\ call[w].pc = "route"
    /\ faults < MaxFaults
    /\ faults' = faults + 1
    /\ Finish(w)
    /\ UNCHANGED <<tables, admin, creator, opener, approvedBy, stepEdits>>

\* Mutant: links the latest case of the path, which may be another request's.
LinkApprovedToLatest(w) ==
    /\ call[w].pc = "link"
    /\ \E c \in Case :
           /\ cases[c].via = "approval"
           /\ requests' = [requests EXCEPT ![call[w].req] =
                               [call[w].row EXCEPT !.linkedCaseId = c, !.status = "Assigned"]]
    /\ Finish(w)
    /\ UNCHANGED <<steps, admin, approvals, cases, creator, opener, approvedBy,
                   stepEdits, faults>>

LinkApproved(w) ==
    /\ call[w].pc = "link"
    /\ requests' = [requests EXCEPT ![call[w].req] =
                        [call[w].row EXCEPT !.linkedCaseId = call[w].case,
                                            !.status = "Assigned"]]
    /\ Finish(w)
    /\ UNCHANGED <<steps, admin, approvals, cases, creator, opener, approvedBy,
                   stepEdits, faults>>

SaveRejection(w) ==
    LET r == call[w].req  u == call[w].user IN
    /\ call[w].pc = "reject"
    /\ approvals' = [approvals EXCEPT ![r][u] = "rejected"]
    /\ Become(w, [call[w] EXCEPT !.pc = "closeRejected"])
    /\ UNCHANGED <<steps, admin, requests, cases, creator, opener, approvedBy,
                   stepEdits, faults>>

(* The request saved is the one loaded before the approval row was saved. *)
SaveRejected(w) ==
    /\ call[w].pc = "closeRejected"
    /\ requests' = [requests EXCEPT ![call[w].req] =
                        [call[w].row EXCEPT !.status = "Closed", !.resolution = "rejected"]]
    /\ Finish(w)
    /\ UNCHANGED <<steps, admin, approvals, cases, creator, opener, approvedBy,
                   stepEdits, faults>>

-----------------------------------------------------------------------------
(* Agents edit requests: updateRequest, resolveRequest and assignRequest all *)
(* load the request with its approvals and save the modified entity.         *)

RequestTransitions(from) ==
    CASE from = "Submitted"       -> {"WaitingApproval", "Assigned", "Closed"}
      [] from = "WaitingApproval" -> {"Assigned", "Closed"}
      [] from = "Assigned"        -> {"InProgress", "Closed"}
      [] from = "InProgress"      -> {"Resolved", "Closed"}
      [] from = "Resolved"        -> {"Closed"}
      [] OTHER                    -> {}

\* A resolution, by updateRequest or resolveRequest, forces status Resolved
\* from any status.
Resolved(row) == [row EXCEPT !.status = "Resolved", !.resolution = "resolved"]

Updated(row) ==
    {[row EXCEPT !.status = s] :
         s \in {row.status} \cup (RequestTransitions(row.status) \cap RequestTargets)}
    \cup {Resolved(row)}

LoadRequest(w, r) ==
    /\ call[w].pc = "idle"
    /\ Exists(r)
    /\ \E row \in Updated(requests[r]) :
           Become(w, [IdleCall EXCEPT !.pc = "saveRequest", !.req = r, !.row = row,
                                      !.seen = (Voters(r) # {})])
    /\ UNCHANGED <<tables, admin, creator, opener, approvedBy, stepEdits, faults>>

(* The entity carries the approvals relation it was loaded with.  Approval *)
(* rows inserted since would be detached by the save, which their NOT NULL *)
(* requestId refuses: the save fails as a whole.                           *)
SaveRequest(w) ==
    LET r == call[w].req IN
    /\ call[w].pc = "saveRequest"
    /\ IF Voters(r) # {} /\ ~call[w].seen
         THEN UNCHANGED requests
         ELSE requests' = [requests EXCEPT ![r] = call[w].row]
    /\ Finish(w)
    /\ UNCHANGED <<steps, admin, approvals, cases, creator, opener, approvedBy,
                   stepEdits, faults>>

-----------------------------------------------------------------------------
(* Agents edit cases; a status change reaches CaseStatusSyncListener. *)

CaseTransitions(from) ==
    CASE from = "New"                       -> CaseStatus
      [] from \in {"InProgress", "Pending"} -> CaseStatus \ {"New"}
      [] from = "Resolved"                  -> {"InProgress", "Resolved", "Closed"}
      [] OTHER                              -> {}

LoadCase(w, c, pc, to) ==
    /\ call[w].pc = "idle"
    /\ cases[c].via # "none"
    /\ Become(w, [IdleCall EXCEPT !.pc = pc, !.case = c, !.to = to])
    /\ UNCHANGED <<tables, admin, creator, opener, approvedBy, stepEdits, faults>>

(* changeStatus validates the transition and emits even if nothing changed. *)
ChangeStatus(w, c) ==
    \E to \in CaseTransitions(cases[c].status) \cap CaseTargets : LoadCase(w, c, "saveCase", to)

(* updateCase takes any status and emits when it differs from the loaded one; *)
(* assignCase saves the loaded status and emits no status change.             *)
UpdateCase(w, c) ==
    \E to \in CaseTargets \cup {cases[c].status} :
        LoadCase(w, c, IF to = cases[c].status THEN "saveCaseQuietly" ELSE "saveCase", to)

SaveCase(w) ==
    /\ call[w].pc \in {"saveCase", "saveCaseQuietly"}
    /\ cases' = [cases EXCEPT ![call[w].case] = [@ EXCEPT !.status = call[w].to]]
    /\ IF call[w].pc = "saveCase" THEN Become(w, [call[w] EXCEPT !.pc = "sync"])
                                  ELSE Finish(w)
    /\ UNCHANGED <<steps, admin, requests, approvals, creator, opener, approvedBy,
                   stepEdits, faults>>

\* Mutant: Pending, which requests do not have, is not translated.
RequestStatusOfUnmapped(caseStatus) == IF caseStatus = "New" THEN "Submitted" ELSE caseStatus

RequestStatusOf(caseStatus) ==
    CASE caseStatus = "New"     -> "Submitted"
      [] caseStatus = "Pending" -> "Assigned"
      [] OTHER                  -> caseStatus

Linked(c) == {r \in Request : Exists(r) /\ requests[r].linkedCaseId = c}

(* CaseStatusSyncListener loads the linked request (LinkedCaseIsOwn: there is *)
(* at most one) and saves it when its status differs.                         *)
LoadLinked(w) ==
    LET c == call[w].case  to == RequestStatusOf(call[w].to) IN
    /\ call[w].pc = "sync"
    /\ \/ /\ \A r \in Linked(c) : requests[r].status = to
          /\ Finish(w)
       \/ \E r \in Linked(c) :
              /\ requests[r].status # to
              /\ Become(w, [call[w] EXCEPT !.pc = "saveSync", !.req = r,
                                           !.row = [requests[r] EXCEPT !.status = to]])
    /\ UNCHANGED <<tables, admin, creator, opener, approvedBy, stepEdits, faults>>

SaveSync(w) ==
    /\ call[w].pc = "saveSync"
    /\ requests' = [requests EXCEPT ![call[w].req] = call[w].row]
    /\ Finish(w)
    /\ UNCHANGED <<steps, admin, approvals, cases, creator, opener, approvedBy,
                   stepEdits, faults>>

-----------------------------------------------------------------------------
(* ApprovalService.replaceApprovalSteps deletes first and inserts next. *)

\* The order numbers of new steps put them before or after the others.
Merged(list) == {steps \o list, list \o steps}

EditSteps ==
    /\ admin = None
    /\ stepEdits < MaxStepEdits
    /\ stepEdits' = stepEdits + 1
    /\ UNCHANGED <<requests, approvals, cases, creator, opener, call, approvedBy, faults>>

DeleteSteps(list) ==
    /\ EditSteps
    /\ steps' = <<>>
    /\ admin' = IF list = <<>> THEN None ELSE list

InsertSteps ==
    /\ admin # None
    /\ steps' \in Merged(admin)
    /\ admin' = None
    /\ UNCHANGED <<requests, approvals, cases, creator, opener, call, approvedBy,
                   stepEdits, faults>>

(* createApprovalSteps on its own adds to the steps that are there. *)
AppendSteps(list) ==
    /\ EditSteps
    /\ steps' \in Merged(list)
    /\ UNCHANGED admin

(* The process dies: handlers and undelivered events are gone, tables stay. *)
Crash ==
    /\ faults < MaxFaults
    /\ faults' = faults + 1
    /\ call' = [w \in Worker |-> IdleCall]
    /\ creator' = [r \in Request |->
                      IF Exists(r) THEN Creating("done") ELSE creator[r]]
    /\ opener' = [r \in Request |->
                      IF Exists(r) THEN Opening("done") ELSE opener[r]]
    /\ admin' = None
    /\ UNCHANGED <<tables, approvedBy, stepEdits>>

-----------------------------------------------------------------------------
CreatorStep(r) == CountSteps(r) \/ RouteRequest(r) \/ LinkCreated(r)
OpenerStep(r) == LoadCreated(r) \/ LoadSteps(r) \/ SaveWaiting(r) \/ InsertApprovals(r)

CallStep(w) ==
    \/ SaveApproval(w) \/ LoadForTally(w) \/ Tally(w) \/ SaveClosed(w)
    \/ LoadApproved(w) \/ RouteApproved(w) \/ LinkApproved(w)
    \/ SaveRejection(w) \/ SaveRejected(w)
    \/ SaveRequest(w) \/ SaveCase(w) \/ LoadLinked(w) \/ SaveSync(w)

ApiCall(w) ==
    \/ \E r \in Request, u \in User : Approve(w, r, u) \/ Reject(w, r, u)
    \/ \E r \in Request : LoadRequest(w, r)
    \/ \E c \in Case : ChangeStatus(w, c) \/ UpdateCase(w, c)

Fault ==
    \/ Crash
    \/ \E r \in Request : RouteRequestFails(r)
    \/ \E w \in Worker : RouteApprovedFails(w)

AdminStep ==
    \/ \E list \in StepLists : DeleteSteps(list) \/ AppendSteps(list)
    \/ InsertSteps

Next ==
    \/ \E r \in Request, hasGroup \in BOOLEAN : InsertRequest(r, hasGroup)
    \/ \E r \in Request : CreatorStep(r) \/ OpenerStep(r)
    \/ \E w \in Worker : ApiCall(w) \/ CallStep(w)
    \/ AdminStep
    \/ Fault

(* A handler that has begun is resumed by the event loop when its query     *)
(* answers; nothing forces a user to make a call.                           *)
Fairness ==
    /\ \A r \in Request : WF_vars(CreatorStep(r)) /\ WF_vars(OpenerStep(r))
    /\ \A w \in Worker : WF_vars(CallStep(w))
    /\ WF_vars(InsertSteps)

Spec == Init /\ [][Next]_vars
FairSpec == Spec /\ Fairness

-----------------------------------------------------------------------------
(* Properties. *)

(* Every variable stays in the set of values the tables and handlers allow. *)
TypeOK ==
    /\ steps \in Seq(Step)
    /\ admin \in Seq(Step) \cup {None}
    /\ requests \in [Request -> Row]
    /\ approvals \in [Request -> [User -> Decision]]
    /\ cases \in [Case -> CaseRow]
    /\ creator \in [Request -> Creator]
    /\ opener \in [Request -> Opener]
    /\ call \in [Worker -> Call]
    /\ approvedBy \in [Request -> SUBSET User]
    /\ stepEdits \in Nat /\ faults \in Nat

(* A case that came out of the approval path exists only if everyone who was *)
(* asked to approve the request has approved it at some time: no order of    *)
(* approvals, rejections, stale saves, crashes and step edits lets           *)
(* checkApprovalCompletion route a request early.                            *)
ApprovedBeforeRouting ==
    \A c \in Case : cases[c].via = "approval" =>
        LET r == cases[c].origin IN
        Voters(r) # {} /\ Voters(r) \subseteq approvedBy[r]

(* A request that points at a case points at one created for it, however many *)
(* stale rows are saved over it: rows of two requests are never mixed up.     *)
LinkedCaseIsOwn ==
    \A r \in Request : requests[r].linkedCaseId # None =>
        cases[requests[r].linkedCaseId].via # "none"
            /\ cases[requests[r].linkedCaseId].origin = r

(* The workflow of every request implements the abstract approval gate. *)
Gate == INSTANCE ApprovalGate WITH
            voters <- [r \in Request |-> Voters(r)],
            favour <- approvedBy,
            passed <- [r \in Request |-> CasesOf(r, "approval")]
ImplementsGate == Gate!Spec

(* createRequest and its listener read the approval steps separately; unless *)
(* an administrator edits the steps, they agree: a request that asks for     *)
(* approvals is not routed by createRequest as well.                         *)
ApprovalNotBypassed ==
    stepEdits = 0 => \A r \in Request : Voters(r) # {} => CasesOf(r, "create") = {}

(* No completed vote is lost: when all approvals of a request are there,     *)
(* some approver's completion check sees them all and a case comes out, or a *)
(* late rejection of the same approver overwrites one of them, or a failure  *)
(* or a stop of the process has dropped what was under way.                  *)
ApprovedEventuallyRouted ==
    \A r \in Request :
        AllApproved(r) ~> (CasesOf(r, "approval") # {} \/ AnyRejected(r) \/ faults > 0)

(* A created request does not get lost between createRequest and its         *)
(* listener: it is routed, or somebody is asked to approve it, unless it has *)
(* no group, its first step resolves to nobody, or something failed.  The    *)
(* steps must not be edited any more: between the two reads an edit can lose *)
(* it.                                                                       *)
CreatedEventuallyHandled ==
    \A r \in Request :
        creator[r].pc = "inserted" /\ creator[r].group /\ stepEdits = MaxStepEdits
            ~> (\/ CasesOf(r, "create") # {}
                \/ Voters(r) # {}
                \/ steps # <<>> /\ StepApprovers(Head(steps)) = {}
                \/ faults > 0)

(* What docs/APPROVAL_WORKFLOW.md says and the code does not do. *)

(* APPROVAL_WORKFLOW.md, verification points: "Validate case creation only   *)
(* after final approval".  Every configured step that names anybody has been *)
(* approved, by one of its approvers or by all of them as requireAll says.   *)
StepApproved(step, users) ==
    LET asked == StepApprovers(step) IN
    IF step.requireAll THEN asked \subseteq users
                       ELSE asked = {} \/ asked \cap users # {}

CaseOnlyAfterFinalApproval ==
    stepEdits = 0 =>
        \A c \in Case : cases[c].via = "approval" =>
            \A i \in DOMAIN steps : StepApproved(steps[i], approvedBy[cases[c].origin])
=============================================================================

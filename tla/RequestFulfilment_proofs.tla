----------------------- MODULE RequestFulfilment_proofs -----------------------
(***************************************************************************)
(* Type correctness and the safety invariants of RequestFulfilment, and    *)
(* that it implements ApprovalGate, for all values of the constants.  Each *)
(* invariant is proved from an inductive one that also speaks of the       *)
(* records of the handlers.                                                *)
(***************************************************************************)
EXTENDS RequestFulfilment, TLAPS

-----------------------------------------------------------------------------
(* Types. *)

(* A call works on a request, user or case from the step that stores it on. *)
LiveCall ==
    {c \in Call :
        /\ c.pc \in DecisionPC \cup {"saveRequest", "saveSync"} => c.req \in Request
        /\ c.pc \in DecisionPC => c.user \in User
        /\ c.pc \in CasePC \cup {"link"} => c.case \in Case}

LiveCreator == {c \in Creator : c.pc = "linking" => c.case \in Case}

(* The inductive form of TypeOK. *)
Typed ==
    /\ TypeOK
    /\ call \in [Worker -> LiveCall]
    /\ creator \in [Request -> LiveCreator]
-----------------------------------------------------------------------------
LEMMA RecordsTyped ==
    /\ NewRow \in Row
    /\ IdleCall \in LiveCall
    /\ Creating("done") \in LiveCreator /\ Creating("routing") \in LiveCreator
    /\ Opening("done") \in Opener /\ Opening("emitted") \in Opener
<1>1. NewRow \in Row
  BY DEF NewRow, Row, RequestStatus
<1>2. IdleCall \in LiveCall
  BY <1>1 DEF IdleCall, LiveCall, Call, CallPC, DecisionPC, CasePC, CaseStatus
<1>3. Creating("done") \in LiveCreator /\ Creating("routing") \in LiveCreator
  BY DEF Creating, LiveCreator, Creator
<1>4. Opening("done") \in Opener /\ Opening("emitted") \in Opener
  BY <1>1 DEF Opening, Opener
<1>. QED
  BY <1>1, <1>2, <1>3, <1>4

LEMMA RowUpdate ==
    ASSUME NEW row \in Row, NEW s \in RequestStatus
    PROVE  [row EXCEPT !.status = s] \in Row
BY DEF Row

LEMMA ApproversAreUsers ==
    ASSUME NEW step \in Step
    PROVE  StepApprovers(step) \subseteq User
<1>1. CASE step.type = "direct"
  BY <1>1 DEF StepApprovers, Step
<1>2. CASE step.type = "manager"
  BY <1>2, ManagerAssumption DEF StepApprovers
<1>3. CASE step.type = "group"
  BY <1>3, MembersAssumption DEF StepApprovers, Step
<1>. QED
  BY <1>1, <1>2, <1>3 DEF Step

LEMMA TypedInit == Init => Typed
<1>. SUFFICES ASSUME Init PROVE Typed
  OBVIOUS
<1>1. creator \in [Request -> LiveCreator] /\ opener \in [Request -> Opener]
  BY RecordsTyped DEF Init, Creating, LiveCreator, Creator, Opening, Opener
<1>2. cases \in [Case -> CaseRow]
  BY DEF Init, CaseRow, CaseStatus
<1>3. approvals \in [Request -> [User -> Decision]]
  BY DEF Init, Decision
<1>. QED
  BY <1>1, <1>2, <1>3, RecordsTyped, StepListsAssumption
  DEF Init, Typed, TypeOK, LiveCreator, LiveCall

(* createRequest and its listener. *)
LEMMA TypedCreator ==
    ASSUME Typed, NEW r \in Request,
           \/ \E hasGroup \in BOOLEAN : InsertRequest(r, hasGroup)
           \/ CreatorStep(r)
           \/ RouteRequestFails(r)
    PROVE  Typed'
<1>. USE DEF Typed, TypeOK
<1>1. ASSUME NEW hasGroup \in BOOLEAN, InsertRequest(r, hasGroup) PROVE Typed'
  <2>1. [Creating("inserted") EXCEPT !.group = hasGroup] \in LiveCreator
    BY DEF Creating, LiveCreator, Creator
  <2>. QED
    BY <1>1, <2>1, RecordsTyped DEF InsertRequest, LiveCreator
<1>2. CASE CountSteps(r)
  BY <1>2, RecordsTyped DEF CountSteps, tables, LiveCreator
<1>3. CASE RouteRequest(r)
  <2>. PICK c \in Case :
           /\ CreateCase(c, r, "create")
           /\ creator' = [creator EXCEPT ![r] = [Creating("linking") EXCEPT !.case = c]]
    BY <1>3 DEF RouteRequest
  <2>1. [Creating("linking") EXCEPT !.case = c] \in LiveCreator
    BY DEF Creating, LiveCreator, Creator
  <2>2. cases' \in [Case -> CaseRow]
    BY DEF CreateCase, CaseRow, CaseStatus
  <2>. QED
    BY <1>3, <2>1, <2>2 DEF RouteRequest, LiveCreator
<1>4. CASE RouteRequestFails(r)
  BY <1>4, RecordsTyped DEF RouteRequestFails, tables, LiveCreator
<1>5. CASE LinkCreated(r)
  <2>1. creator[r].case \in Case /\ requests[r] \in Row
    BY <1>5 DEF LinkCreated, LiveCreator
  <2>2. [requests[r] EXCEPT !.status = "Submitted", !.linkedCaseId = creator[r].case] \in Row
    BY <2>1 DEF Row, RequestStatus
  <2>. QED
    BY <1>5, <2>2, RecordsTyped DEF LinkCreated, LiveCreator
<1>. QED
  BY <1>1, <1>2, <1>3, <1>4, <1>5 DEF CreatorStep

LEMMA TypedOpener ==
    ASSUME Typed, NEW r \in Request, OpenerStep(r)
    PROVE  Typed'
<1>. USE DEF Typed, TypeOK
<1>1. CASE LoadCreated(r)
  <2>1. [Opening("loaded") EXCEPT !.row = requests[r]] \in Opener
    BY DEF Opening, Opener
  <2>. QED
    BY <1>1, <2>1 DEF LoadCreated, tables
<1>2. CASE LoadSteps(r)
  <2>1. steps # <<>> => StepApprovers(Head(steps)) \subseteq User
    BY ApproversAreUsers
  <2>2. opener[r] \in Opener
    OBVIOUS
  <2>3. steps # <<>> =>
            [opener[r] EXCEPT !.pc = "saving", !.approvers = StepApprovers(Head(steps))] \in Opener
    BY <2>1, <2>2 DEF Opener
  <2>. QED
    BY <1>2, <2>3, RecordsTyped DEF LoadSteps, tables
<1>3. CASE SaveWaiting(r)
  <2>1. opener[r] \in Opener
    OBVIOUS
  <2>2. opener[r].row \in Row
    BY <2>1 DEF Opener
  <2>3. [opener[r].row EXCEPT !.status = "WaitingApproval"] \in Row
    BY <2>2, RowUpdate DEF RequestStatus
  <2>4. [opener[r] EXCEPT !.pc = "inserting", !.row = NewRow] \in Opener
    BY <2>1, RecordsTyped DEF Opener
  <2>. QED
    BY <1>3, <2>3, <2>4 DEF SaveWaiting
<1>4. CASE InsertApprovals(r)
  <2>1. approvals' \in [Request -> [User -> Decision]]
    BY <1>4 DEF InsertApprovals, Decision
  <2>. QED
    BY <1>4, <2>1, RecordsTyped DEF InsertApprovals
<1>. QED
  BY <1>1, <1>2, <1>3, <1>4 DEF OpenerStep

(* A handler's record and a row of requests change together; every other *)
(* variable of the type stays.                                           *)
LEMMA TypedCall ==
    ASSUME Typed, NEW w \in Worker, CallStep(w) \/ RouteApprovedFails(w)
    PROVE  Typed'
<1>. USE DEF Typed, TypeOK
<1>. DEFINE m == call[w]
<1>a. m \in LiveCall /\ m \in Call /\ m.row \in Row /\ m.to \in CaseStatus
  BY DEF LiveCall, Call
<1>1. CASE SaveApproval(w)
  <2>1. m.req \in Request /\ m.user \in User
    BY <1>1, <1>a DEF SaveApproval, LiveCall, DecisionPC
  <2>2. [m EXCEPT !.pc = "recheck"] \in LiveCall
    BY <1>1, <1>a, <2>1 DEF SaveApproval, LiveCall, Call, CallPC, DecisionPC, CasePC
  <2>3. approvals' \in [Request -> [User -> Decision]]
    BY <1>1, <2>1 DEF SaveApproval, Decision
  <2>. QED
    BY <1>1, <2>1, <2>2, <2>3 DEF SaveApproval, Become, LiveCall
<1>2. CASE LoadForTally(w)
  <2>1. m.req \in Request /\ m.user \in User /\ requests[m.req] \in Row
    BY <1>2, <1>a DEF LoadForTally, LiveCall, DecisionPC
  <2>2. [m EXCEPT !.pc = "tally", !.row = requests[m.req]] \in LiveCall
    BY <1>a, <2>1 DEF LiveCall, Call, CallPC, DecisionPC, CasePC
  <2>. QED
    BY <1>2, <2>2 DEF LoadForTally, Become, tables, LiveCall
<1>3. CASE Tally(w)
  <2>1. m.req \in Request /\ m.user \in User
    BY <1>3, <1>a DEF Tally, LiveCall, DecisionPC
  <2>2. [m EXCEPT !.pc = "close"] \in LiveCall /\ [m EXCEPT !.pc = "approved"] \in LiveCall
    BY <1>a, <2>1 DEF LiveCall, Call, CallPC, DecisionPC, CasePC
  <2>. QED
    BY <1>3, <2>2, RecordsTyped DEF Tally, Become, Finish, tables, LiveCall
<1>4. CASE SaveClosed(w)
  <2>1. m.req \in Request /\ [m.row EXCEPT !.status = "Closed"] \in Row
    BY <1>4, <1>a, RowUpdate DEF SaveClosed, LiveCall, DecisionPC, RequestStatus
  <2>. QED
    BY <1>4, <2>1, RecordsTyped DEF SaveClosed, Become, Finish, LiveCall
<1>5. CASE LoadApproved(w)
  <2>1. m.req \in Request /\ m.user \in User /\ requests[m.req] \in Row
    BY <1>5, <1>a DEF LoadApproved, LiveCall, DecisionPC
  <2>2. [m EXCEPT !.pc = "route", !.row = requests[m.req]] \in LiveCall
    BY <1>a, <2>1 DEF LiveCall, Call, CallPC, DecisionPC, CasePC
  <2>. QED
    BY <1>5, <2>2 DEF LoadApproved, Become, tables, LiveCall
<1>6. CASE RouteApproved(w)
  <2>1. m.req \in Request /\ m.user \in User
    BY <1>6, <1>a DEF RouteApproved, LiveCall, DecisionPC
  <2>. PICK c \in Case : CreateCase(c, m.req, "approval")
                         /\ Become(w, [m EXCEPT !.pc = "link", !.case = c])
    BY <1>6 DEF RouteApproved
  <2>2. [m EXCEPT !.pc = "link", !.case = c] \in LiveCall
    BY <1>a, <2>1 DEF LiveCall, Call, CallPC, DecisionPC, CasePC
  <2>3. cases' \in [Case -> CaseRow]
    BY <2>1 DEF CreateCase, CaseRow, CaseStatus
  <2>. QED
    BY <1>6, <2>2, <2>3 DEF RouteApproved, Become, LiveCall
<1>7. CASE RouteApprovedFails(w)
  BY <1>7, RecordsTyped DEF RouteApprovedFails, Become, Finish, tables, LiveCall
<1>8. CASE LinkApproved(w)
  <2>1. m.req \in Request /\ m.case \in Case
    BY <1>8, <1>a DEF LinkApproved, LiveCall, DecisionPC
  <2>2. [m.row EXCEPT !.linkedCaseId = m.case, !.status = "Assigned"] \in Row
    BY <1>a, <2>1 DEF Row, RequestStatus
  <2>. QED
    BY <1>8, <2>1, <2>2, RecordsTyped DEF LinkApproved, Become, Finish, LiveCall
<1>9. CASE SaveRejection(w)
  <2>1. m.req \in Request /\ m.user \in User
    BY <1>9, <1>a DEF SaveRejection, LiveCall, DecisionPC
  <2>2. [m EXCEPT !.pc = "closeRejected"] \in LiveCall
    BY <1>a, <2>1 DEF LiveCall, Call, CallPC, DecisionPC, CasePC
  <2>3. approvals' \in [Request -> [User -> Decision]]
    BY <1>9, <2>1 DEF SaveRejection, Decision
  <2>. QED
    BY <1>9, <2>2, <2>3 DEF SaveRejection, Become, LiveCall
<1>10. CASE SaveRejected(w)
  <2>1. m.req \in Request
    BY <1>10, <1>a DEF SaveRejected, LiveCall, DecisionPC
  <2>2. [m.row EXCEPT !.status = "Closed", !.resolution = "rejected"] \in Row
    BY <1>a DEF Row, RequestStatus
  <2>. QED
    BY <1>10, <2>1, <2>2, RecordsTyped DEF SaveRejected, Become, Finish, LiveCall
<1>11. CASE SaveRequest(w)
  <2>1. m.req \in Request
    BY <1>11, <1>a DEF SaveRequest, LiveCall
  <2>. QED
    BY <1>11, <1>a, <2>1, RecordsTyped DEF SaveRequest, Become, Finish, LiveCall
<1>12. CASE SaveCase(w)
  <2>1. m.case \in Case /\ cases[m.case] \in CaseRow
    BY <1>12, <1>a DEF SaveCase, LiveCall, CasePC
  <2>2. [cases[m.case] EXCEPT !.status = m.to] \in CaseRow
    BY <1>a, <2>1 DEF CaseRow
  <2>3. [m EXCEPT !.pc = "sync"] \in LiveCall
    BY <1>a, <2>1 DEF LiveCall, Call, CallPC, DecisionPC, CasePC
  <2>. QED
    BY <1>12, <2>1, <2>2, <2>3, RecordsTyped DEF SaveCase, Become, Finish, LiveCall
<1>13. CASE LoadLinked(w)
  <2>1. m.case \in Case
    BY <1>13, <1>a DEF LoadLinked, LiveCall, CasePC
  <2>2. RequestStatusOf(m.to) \in RequestStatus
    BY <1>a DEF RequestStatusOf, CaseStatus, RequestStatus
  <2>3. ASSUME NEW r \in Request
        PROVE  [m EXCEPT !.pc = "saveSync", !.req = r,
                         !.row = [requests[r] EXCEPT !.status = RequestStatusOf(m.to)]] \in LiveCall
    <3>1. [requests[r] EXCEPT !.status = RequestStatusOf(m.to)] \in Row
      BY <2>2, RowUpdate
    <3>. QED
      BY <1>a, <2>1, <3>1 DEF LiveCall, Call, CallPC, DecisionPC, CasePC
  <2>. QED
    BY <1>13, <2>3, RecordsTyped DEF LoadLinked, Linked, Become, Finish, tables, LiveCall
<1>14. CASE SaveSync(w)
  <2>1. m.req \in Request
    BY <1>14, <1>a DEF SaveSync, LiveCall
  <2>. QED
    BY <1>14, <1>a, <2>1, RecordsTyped DEF SaveSync, Become, Finish, LiveCall
<1>. QED
  BY <1>1, <1>2, <1>3, <1>4, <1>5, <1>6, <1>7, <1>8, <1>9, <1>10, <1>11, <1>12, <1>13, <1>14
  DEF CallStep

LEMMA TypedApiCall ==
    ASSUME Typed, NEW w \in Worker, ApiCall(w)
    PROVE  Typed'
<1>. USE DEF Typed, TypeOK
<1>1. ASSUME NEW c \in LiveCall, Become(w, c),
             UNCHANGED <<tables, admin, creator, opener, approvedBy, stepEdits, faults>>
      PROVE  Typed'
  BY <1>1 DEF Become, tables, LiveCall
<1>2. ASSUME NEW r \in Request, NEW u \in User, Approve(w, r, u) PROVE Typed'
  <2>1. [[IdleCall EXCEPT !.pc = "approve"] EXCEPT !.req = r, !.user = u] \in LiveCall
    BY RecordsTyped DEF IdleCall, LiveCall, Call, CallPC, DecisionPC, CasePC
  <2>. QED
    BY <1>1, <1>2, <2>1 DEF Approve, LoadPending
<1>3. ASSUME NEW r \in Request, NEW u \in User, Reject(w, r, u) PROVE Typed'
  <2>1. requests[r] \in Row
    OBVIOUS
  <2>2. [[IdleCall EXCEPT !.pc = "reject", !.row = requests[r]] EXCEPT !.req = r, !.user = u]
            \in LiveCall
    BY <2>1, RecordsTyped DEF IdleCall, LiveCall, Call, CallPC, DecisionPC, CasePC
  <2>. QED
    BY <1>1, <1>3, <2>2 DEF Reject, LoadPending
<1>4. ASSUME NEW r \in Request, LoadRequest(w, r) PROVE Typed'
  <2>1. PICK row \in Updated(requests[r]) :
            Become(w, [IdleCall EXCEPT !.pc = "saveRequest", !.req = r, !.row = row,
                                       !.seen = (Voters(r) # {})])
    BY <1>4 DEF LoadRequest
  <2>2. row \in Row
    <3>1. requests[r] \in Row /\ requests[r].status \in RequestStatus
      BY DEF Row
    <3>2. Resolved(requests[r]) \in Row
      BY <3>1 DEF Resolved, Row, RequestStatus
    <3>. QED
      BY <2>1, <3>1, <3>2, RowUpdate, BoundAssumption DEF Updated
  <2>3. [IdleCall EXCEPT !.pc = "saveRequest", !.req = r, !.row = row,
                         !.seen = (Voters(r) # {})] \in LiveCall
    <3> DEFINE c == [IdleCall EXCEPT !.pc = "saveRequest", !.req = r, !.row = row,
                                     !.seen = (Voters(r) # {})]
    <3>1. IdleCall \in Call
      BY RecordsTyped DEF LiveCall
    <3>2. c \in Call /\ c.pc = "saveRequest" /\ c.req = r
      BY <2>2, <3>1 DEF Call, CallPC
    <3> HIDE DEF c
    <3>3. c \in LiveCall
      BY <3>2 DEF LiveCall, DecisionPC, CasePC
    <3> QED
      BY <3>3 DEF c
  <2>. QED
    BY <1>1, <1>4, <2>1, <2>3 DEF LoadRequest
<1>5. ASSUME NEW c \in Case, NEW to \in CaseStatus, NEW pc \in {"saveCase", "saveCaseQuietly"},
             LoadCase(w, c, pc, to)
      PROVE  Typed'
  <2>1. [IdleCall EXCEPT !.pc = pc, !.case = c, !.to = to] \in LiveCall
    BY RecordsTyped DEF IdleCall, LiveCall, Call, CallPC, DecisionPC, CasePC
  <2>. QED
    BY <1>1, <1>5, <2>1 DEF LoadCase
<1>6. ASSUME NEW c \in Case, ChangeStatus(w, c) PROVE Typed'
  BY <1>5, <1>6, BoundAssumption DEF ChangeStatus
<1>7. ASSUME NEW c \in Case, UpdateCase(w, c) PROVE Typed'
  <2>1. cases[c].status \in CaseStatus
    BY DEF CaseRow
  <2>. QED
    BY <1>5, <1>7, <2>1, BoundAssumption DEF UpdateCase
<1>. QED
  BY <1>2, <1>3, <1>4, <1>6, <1>7 DEF ApiCall

LEMMA TypedAdmin ==
    ASSUME Typed, AdminStep \/ Crash
    PROVE  Typed'
<1>. USE StepListsAssumption DEF Typed, TypeOK
<1>m. \A list \in Seq(Step) : Merged(list) \subseteq Seq(Step)
  BY DEF Merged
<1>1. ASSUME NEW list \in StepLists, DeleteSteps(list) PROVE Typed'
  BY <1>1 DEF DeleteSteps, EditSteps
<1>2. CASE InsertSteps
  BY <1>2, <1>m DEF InsertSteps
<1>3. ASSUME NEW list \in StepLists, AppendSteps(list) PROVE Typed'
  BY <1>3, <1>m DEF AppendSteps, EditSteps
<1>4. CASE Crash
  BY <1>4, RecordsTyped DEF Crash, tables, LiveCall, LiveCreator
<1>. QED
  BY <1>1, <1>2, <1>3, <1>4 DEF AdminStep

LEMMA TypedNext == Typed /\ [Next]_vars => Typed'
<1>. SUFFICES ASSUME Typed, [Next]_vars PROVE Typed'
  OBVIOUS
<1>1. CASE UNCHANGED vars
  BY <1>1 DEF vars, Typed, TypeOK
<1>. QED
  BY <1>1, TypedCreator, TypedOpener, TypedCall, TypedApiCall, TypedAdmin DEF Next, Fault

(* Every variable keeps its type: TypeOK, for all values of the constants. *)
THEOREM TypeCorrect == Spec => []TypeOK
<1>1. Typed => TypeOK
  BY DEF Typed
<1>. QED
  BY <1>1, TypedInit, TypedNext, PTL DEF Spec

-----------------------------------------------------------------------------
(* The inductive invariants. *)

(* No approval row exists before the listener has inserted its rows, and the *)
(* listener has not begun before createRequest emits.                        *)
AskedOnce ==
    \A r \in Request :
        /\ creator[r].pc \in {"unsent", "inserted"} => opener[r].pc = "idle"
        /\ opener[r].pc # "done" => Voters(r) = {}

(* Approved rows are votes that were cast. *)
VotesCast ==
    \A r \in Request, u \in User : approvals[r][u] = "approved" => u \in approvedBy[r]

Unanimous(r) == Voters(r) # {} /\ Voters(r) \subseteq approvedBy[r]

(* A call that decides holds a row that exists; one that is past the tally, *)
(* and the case it creates, have everybody's vote behind them.              *)
JustifiedCall(c) ==
    /\ c.pc \in {"approve", "reject"} => c.user \in Voters(c.req)
    /\ c.pc \in {"approved", "route", "link"} => Unanimous(c.req)

JustifiedCase(case) == case.via = "approval" => case.origin \in Request /\ Unanimous(case.origin)

(* The inductive form of ApprovedBeforeRouting. *)
GateInv ==
    /\ AskedOnce
    /\ VotesCast
    /\ \A w \in Worker : JustifiedCall(call[w])
    /\ \A c \in Case : JustifiedCase(cases[c])

(* A row of request r, in the table or in the memory of a handler, is linked *)
(* to nothing or to a case created for r.                                    *)
OwnCase(r, c) == c \in Case /\ cases[c].via # "none" /\ cases[c].origin = r
OwnLink(r, link) == link # None => OwnCase(r, link)
OwnCall(c) == OwnLink(c.req, c.row.linkedCaseId) /\ (c.pc = "link" => OwnCase(c.req, c.case))

(* The inductive form of LinkedCaseIsOwn. *)
OwnInv ==
    /\ \A r \in Request : OwnLink(r, requests[r].linkedCaseId)
    /\ \A r \in Request : OwnLink(r, opener[r].row.linkedCaseId)
    /\ \A r \in Request : creator[r].pc = "linking" => OwnCase(r, creator[r].case)
    /\ \A w \in Worker : OwnCall(call[w])

(* The inductive form of ApprovalNotBypassed: while the steps have not been *)
(* edited, either nobody is asked or nothing is routed by createRequest.    *)
Unasked(r) == Voters(r) = {} /\ opener[r].pc \notin {"saving", "inserting"}
Unrouted(r) == CasesOf(r, "create") = {} /\ creator[r].pc # "routing"

Undivided ==
    stepEdits = 0 =>
        /\ admin = None
        /\ steps = <<>> => \A r \in Request : Unasked(r)
        /\ steps # <<>> => \A r \in Request : Unrouted(r)

-----------------------------------------------------------------------------
(* Approved before routing. *)

LEMMA GateInit == Init => GateInv
<1>. SUFFICES ASSUME Init PROVE GateInv
  OBVIOUS
<1>1. \A r \in Request : Voters(r) = {}
  BY DEF Init, Voters
<1>2. AskedOnce /\ VotesCast
  BY <1>1 DEF Init, AskedOnce, VotesCast, Creating, Opening
<1>3. ASSUME NEW w \in Worker PROVE JustifiedCall(call[w])
  BY DEF Init, IdleCall, JustifiedCall
<1>4. ASSUME NEW c \in Case PROVE JustifiedCase(cases[c])
  BY DEF Init, JustifiedCase
<1>. QED
  BY <1>2, <1>3, <1>4 DEF GateInv

(* A step that changes no approval preserves the invariant when the record it *)
(* gives to a call, and the case it creates, are justified already.           *)
LEMMA GateQuiet ==
    ASSUME GateInv, UNCHANGED <<approvals, approvedBy>>, AskedOnce',
           \A w \in Worker : call'[w] = call[w] \/ JustifiedCall(call'[w]),
           \A c \in Case :
               \/ cases'[c].via = cases[c].via /\ cases'[c].origin = cases[c].origin
               \/ JustifiedCase(cases'[c])
    PROVE  GateInv'
<1>1. \A r : Voters(r)' = Voters(r) /\ (Unanimous(r)' <=> Unanimous(r))
  BY DEF Voters, Unanimous
<1>2. VotesCast'
  BY DEF GateInv, VotesCast
<1>3. ASSUME NEW w \in Worker PROVE JustifiedCall(call[w])'
  <2>1. JustifiedCall(call'[w])
    BY DEF GateInv
  <2>. QED
    BY <1>1, <2>1 DEF JustifiedCall
<1>4. ASSUME NEW c \in Case PROVE JustifiedCase(cases[c])'
  <2>1. JustifiedCase(cases'[c])
    BY DEF GateInv, JustifiedCase
  <2>. QED
    BY <1>1, <2>1 DEF JustifiedCase
<1>. QED
  BY <1>2, <1>3, <1>4 DEF GateInv

(* So does a step in which a user decides about a row of his own. *)
LEMMA GateDecision ==
    ASSUME Typed, GateInv, NEW w \in Worker, NEW r \in Request, NEW u \in User, NEW d,
           NEW c, u \in Voters(r), d # "none",
           d = "approved" => approvedBy' = [approvedBy EXCEPT ![r] = @ \cup {u}],
           d # "approved" => UNCHANGED approvedBy,
           approvals' = [approvals EXCEPT ![r][u] = d],
           Become(w, c), c.pc \notin {"approve", "reject", "approved", "route", "link"},
           UNCHANGED <<cases, creator, opener>>
    PROVE  GateInv'
<1>1. \A q \in Request : Voters(q)' = Voters(q)
  BY DEF Typed, TypeOK, Voters
<1>2. \A q \in Request : approvedBy[q] \subseteq approvedBy'[q]
  BY DEF Typed, TypeOK
<1>3. \A q \in Request : Unanimous(q) => Unanimous(q)'
  BY <1>1, <1>2 DEF Unanimous
<1>4. AskedOnce'
  BY <1>1 DEF GateInv, AskedOnce
<1>5. VotesCast'
  BY DEF Typed, TypeOK, GateInv, VotesCast
<1>6. ASSUME NEW v \in Worker PROVE JustifiedCall(call[v])'
  <2>1. CASE v = w
    BY <2>1 DEF Typed, TypeOK, Become, JustifiedCall
  <2>2. CASE v # w
    <3>1. call'[v] = call[v] /\ JustifiedCall(call[v])
      BY <2>2 DEF Typed, TypeOK, Become, GateInv
    <3>2. call[v].pc \in DecisionPC => call[v].req \in Request
      BY DEF Typed, LiveCall
    <3>. QED
      BY <1>1, <1>3, <3>1, <3>2 DEF JustifiedCall, DecisionPC
  <2>. QED
    BY <2>1, <2>2
<1>7. ASSUME NEW e \in Case PROVE JustifiedCase(cases[e])'
  BY <1>3 DEF GateInv, JustifiedCase
<1>. QED
  BY <1>4, <1>5, <1>6, <1>7 DEF GateInv

LEMMA GateNext == Typed /\ GateInv /\ [Next]_vars => GateInv'
<1>. SUFFICES ASSUME Typed, GateInv, [Next]_vars PROVE GateInv'
  OBVIOUS
<1>. USE DEF Typed, TypeOK
<1>i. JustifiedCall(IdleCall)
  BY DEF JustifiedCall, IdleCall
<1>q. ASSUME UNCHANGED <<approvals, approvedBy, cases, creator, opener>>, NEW w \in Worker,
             NEW c, Become(w, c), JustifiedCall(c)
      PROVE  GateInv'
  <2>1. AskedOnce'
    BY <1>q DEF GateInv, AskedOnce, Voters
  <2>. QED
    BY <1>q, <2>1, GateQuiet DEF Become
<1>1. ASSUME NEW r \in Request, NEW hasGroup \in BOOLEAN, InsertRequest(r, hasGroup)
      PROVE  GateInv'
  <2>1. AskedOnce'
    BY <1>1 DEF InsertRequest, Creating, GateInv, AskedOnce, Voters
  <2>. QED
    BY <1>1, <2>1, GateQuiet DEF InsertRequest
<1>2. ASSUME NEW r \in Request, CountSteps(r) PROVE GateInv'
  <2>1. AskedOnce'
    BY <1>2 DEF CountSteps, tables, Creating, Opening, GateInv, AskedOnce, Voters
  <2>. QED
    BY <1>2, <2>1, GateQuiet DEF CountSteps, tables
<1>3. ASSUME NEW r \in Request, RouteRequest(r) PROVE GateInv'
  <2>1. AskedOnce'
    BY <1>3 DEF RouteRequest, Creating, GateInv, AskedOnce, Voters
  <2>2. \A c \in Case :
            \/ cases'[c].via = cases[c].via /\ cases'[c].origin = cases[c].origin
            \/ JustifiedCase(cases'[c])
    BY <1>3 DEF RouteRequest, CreateCase, JustifiedCase
  <2>. QED
    BY <1>3, <2>1, <2>2, GateQuiet DEF RouteRequest
<1>4. ASSUME NEW r \in Request, RouteRequestFails(r) \/ LinkCreated(r) PROVE GateInv'
  <2>1. /\ creator' = [creator EXCEPT ![r] = Creating("done")]
        /\ UNCHANGED <<approvals, approvedBy, cases, opener, call>>
    BY <1>4 DEF RouteRequestFails, LinkCreated, tables
  <2>2. AskedOnce'
    BY <2>1 DEF Creating, GateInv, AskedOnce, Voters
  <2>. QED
    BY <2>1, <2>2, GateQuiet
<1>5. ASSUME NEW r \in Request, LoadCreated(r) \/ LoadSteps(r) \/ SaveWaiting(r)
      PROVE  GateInv'
  <2>1. opener[r].pc # "done" /\ opener[r].pc # "idle"
        /\ \A q \in Request \ {r} : opener'[q] = opener[q]
    BY <1>5 DEF LoadCreated, LoadSteps, SaveWaiting
  <2>2. AskedOnce'
    BY <1>5, <2>1 DEF LoadCreated, LoadSteps, SaveWaiting, tables, GateInv, AskedOnce, Voters
  <2>. QED
    BY <1>5, <2>2, GateQuiet DEF LoadCreated, LoadSteps, SaveWaiting, tables
<1>6. ASSUME NEW r \in Request, InsertApprovals(r) PROVE GateInv'
  <2>1. Voters(r) = {} /\ creator[r].pc \notin {"unsent", "inserted"}
    BY <1>6 DEF InsertApprovals, GateInv, AskedOnce
  <2>2. \A q \in Request \ {r} : Voters(q)' = Voters(q) /\ opener'[q] = opener[q]
    BY <1>6 DEF InsertApprovals, Voters
  <2>3. ~Unanimous(r) /\ \A q \in Request \ {r} : Unanimous(q) => Unanimous(q)'
    BY <1>6, <2>1, <2>2 DEF InsertApprovals, Unanimous
  <2>4. AskedOnce'
    BY <1>6, <2>1, <2>2 DEF InsertApprovals, Opening, GateInv, AskedOnce
  <2>5. VotesCast'
    BY <1>6 DEF InsertApprovals, GateInv, VotesCast
  <2>6. ASSUME NEW w \in Worker PROVE JustifiedCall(call[w])'
    <3>1. call' = call /\ JustifiedCall(call[w])
          /\ (call[w].pc \in DecisionPC => call[w].req \in Request)
      BY <1>6 DEF InsertApprovals, GateInv, LiveCall
    <3>. QED
      BY <2>1, <2>2, <2>3, <3>1 DEF JustifiedCall, DecisionPC
  <2>7. ASSUME NEW c \in Case PROVE JustifiedCase(cases[c])'
    BY <1>6, <2>3 DEF InsertApprovals, GateInv, JustifiedCase
  <2>. QED
    BY <2>4, <2>5, <2>6, <2>7 DEF GateInv
<1>7. ASSUME NEW w \in Worker, NEW r \in Request, NEW u \in User,
             Approve(w, r, u) \/ Reject(w, r, u)
      PROVE  GateInv'
  <2>1. u \in Voters(r)
    BY <1>7 DEF Approve, Reject, LoadPending, Voters
  <2>2. JustifiedCall([[IdleCall EXCEPT !.pc = "approve"] EXCEPT !.req = r, !.user = u])
    BY <2>1 DEF JustifiedCall, IdleCall
  <2>3. JustifiedCall([[IdleCall EXCEPT !.pc = "reject", !.row = requests[r]]
                          EXCEPT !.req = r, !.user = u])
    BY <2>1 DEF JustifiedCall, IdleCall
  <2>. QED
    BY <1>7, <1>q, <2>2, <2>3 DEF Approve, Reject, LoadPending, tables
<1>8. ASSUME NEW w \in Worker, SaveApproval(w) PROVE GateInv'
  <2>1. call[w].req \in Request /\ call[w].user \in User
    BY <1>8 DEF SaveApproval, LiveCall, DecisionPC
  <2>2. call[w].user \in Voters(call[w].req)
    BY <1>8 DEF SaveApproval, GateInv, JustifiedCall
  <2>3. [call[w] EXCEPT !.pc = "recheck"].pc = "recheck"
    BY DEF LiveCall, Call
  <2>. QED
    BY <1>8, <2>1, <2>2, <2>3, GateDecision DEF SaveApproval
<1>9. ASSUME NEW w \in Worker, SaveRejection(w) PROVE GateInv'
  <2>1. call[w].req \in Request /\ call[w].user \in User
    BY <1>9 DEF SaveRejection, LiveCall, DecisionPC
  <2>2. call[w].user \in Voters(call[w].req)
    BY <1>9 DEF SaveRejection, GateInv, JustifiedCall
  <2>3. [call[w] EXCEPT !.pc = "closeRejected"].pc = "closeRejected"
    BY DEF LiveCall, Call
  <2>. QED
    BY <1>9, <2>1, <2>2, <2>3, GateDecision DEF SaveRejection
<1>10. ASSUME NEW w \in Worker, Tally(w) PROVE GateInv'
  <2>. DEFINE r == call[w].req
  <2>1. r \in Request
    BY <1>10 DEF Tally, LiveCall, DecisionPC
  <2>2. AllApproved(r) => Unanimous(r)
    BY <2>1 DEF GateInv, VotesCast, AllApproved, Unanimous, Voters
  <2>3. JustifiedCall([call[w] EXCEPT !.pc = "close"])
    BY DEF JustifiedCall, LiveCall, Call
  <2>4. AllApproved(r) => JustifiedCall([call[w] EXCEPT !.pc = "approved"])
    BY <2>2 DEF JustifiedCall, LiveCall, Call
  <2>. QED
    BY <1>10, <1>i, <1>q, <2>3, <2>4 DEF Tally, Finish, tables
<1>11. ASSUME NEW w \in Worker, LoadForTally(w) PROVE GateInv'
  <2>1. JustifiedCall([call[w] EXCEPT !.pc = "tally", !.row = requests[call[w].req]])
    BY DEF JustifiedCall, LiveCall, Call
  <2>. QED
    BY <1>11, <1>q, <2>1 DEF LoadForTally, tables
<1>12. ASSUME NEW w \in Worker, LoadApproved(w) PROVE GateInv'
  <2>1. Unanimous(call[w].req)
    BY <1>12 DEF LoadApproved, GateInv, JustifiedCall
  <2>2. JustifiedCall([call[w] EXCEPT !.pc = "route", !.row = requests[call[w].req]])
    BY <2>1 DEF JustifiedCall, LiveCall, Call
  <2>. QED
    BY <1>12, <1>q, <2>2 DEF LoadApproved, tables
<1>13. ASSUME NEW w \in Worker, RouteApproved(w) PROVE GateInv'
  <2>1. call[w].req \in Request /\ Unanimous(call[w].req)
    BY <1>13 DEF RouteApproved, GateInv, JustifiedCall, LiveCall, DecisionPC
  <2>2. \A c : JustifiedCall([call[w] EXCEPT !.pc = "link", !.case = c])
    BY <2>1 DEF JustifiedCall, LiveCall, Call
  <2>3. \A v \in Worker : call'[v] = call[v] \/ JustifiedCall(call'[v])
    BY <1>13, <2>2 DEF RouteApproved, Become
  <2>4. \A c \in Case :
            \/ cases'[c].via = cases[c].via /\ cases'[c].origin = cases[c].origin
            \/ JustifiedCase(cases'[c])
    BY <1>13, <2>1 DEF RouteApproved, CreateCase, JustifiedCase
  <2>5. AskedOnce'
    BY <1>13 DEF RouteApproved, GateInv, AskedOnce, Voters
  <2>. QED
    BY <1>13, <2>3, <2>4, <2>5, GateQuiet DEF RouteApproved
<1>14. ASSUME NEW w \in Worker,
              \/ SaveClosed(w) \/ RouteApprovedFails(w) \/ LinkApproved(w)
              \/ SaveRejected(w) \/ SaveRequest(w) \/ SaveSync(w)
       PROVE  GateInv'
  BY <1>14, <1>i, <1>q DEF SaveClosed, RouteApprovedFails, LinkApproved, SaveRejected,
     SaveRequest, SaveSync, Finish, tables
<1>15. ASSUME NEW w \in Worker, NEW c \in Case, ChangeStatus(w, c) \/ UpdateCase(w, c)
       PROVE  GateInv'
  <2>1. PICK pc, to : pc \in {"saveCase", "saveCaseQuietly"} /\ LoadCase(w, c, pc, to)
    BY <1>15 DEF ChangeStatus, UpdateCase
  <2>2. JustifiedCall([IdleCall EXCEPT !.pc = pc, !.case = c, !.to = to])
    BY <2>1 DEF JustifiedCall, IdleCall
  <2>. QED
    BY <1>q, <2>1, <2>2 DEF LoadCase, tables
<1>16. ASSUME NEW w \in Worker, NEW r \in Request, LoadRequest(w, r) PROVE GateInv'
  <2>1. PICK row : Become(w, [IdleCall EXCEPT !.pc = "saveRequest", !.req = r, !.row = row,
                                             !.seen = (Voters(r) # {})])
    BY <1>16 DEF LoadRequest
  <2>2. JustifiedCall([IdleCall EXCEPT !.pc = "saveRequest", !.req = r, !.row = row,
                                       !.seen = (Voters(r) # {})])
    BY DEF JustifiedCall, IdleCall
  <2>. QED
    BY <1>16, <1>q, <2>1, <2>2 DEF LoadRequest, tables
<1>17. ASSUME NEW w \in Worker, SaveCase(w) PROVE GateInv'
  <2>1. JustifiedCall([call[w] EXCEPT !.pc = "sync"])
    BY DEF JustifiedCall, LiveCall, Call
  <2>2. \A v \in Worker : call'[v] = call[v] \/ JustifiedCall(call'[v])
    BY <1>17, <1>i, <2>1 DEF SaveCase, Become, Finish
  <2>3. \A c \in Case : cases'[c].via = cases[c].via /\ cases'[c].origin = cases[c].origin
    BY <1>17 DEF SaveCase, CaseRow
  <2>4. AskedOnce'
    BY <1>17 DEF SaveCase, GateInv, AskedOnce, Voters
  <2>. QED
    BY <1>17, <2>2, <2>3, <2>4, GateQuiet DEF SaveCase
<1>18. ASSUME NEW w \in Worker, LoadLinked(w) PROVE GateInv'
  <2>1. \A r, row : JustifiedCall([call[w] EXCEPT !.pc = "saveSync", !.req = r, !.row = row])
    BY DEF JustifiedCall, LiveCall, Call
  <2>. QED
    BY <1>18, <1>i, <1>q, <2>1 DEF LoadLinked, Finish, tables
<1>19. CASE AdminStep
  <2>1. UNCHANGED <<approvals, approvedBy, cases, creator, opener, call>>
    BY <1>19 DEF AdminStep, DeleteSteps, InsertSteps, AppendSteps, EditSteps
  <2>2. AskedOnce'
    BY <2>1 DEF GateInv, AskedOnce, Voters
  <2>. QED
    BY <2>1, <2>2, GateQuiet
<1>20. CASE Crash
  <2>1. AskedOnce'
    BY <1>20 DEF Crash, tables, Creating, Opening, Exists, GateInv, AskedOnce, Voters
  <2>2. \A w \in Worker : JustifiedCall(call'[w])
    BY <1>20, <1>i DEF Crash
  <2>. QED
    BY <1>20, <2>1, <2>2, GateQuiet DEF Crash, tables
<1>21. CASE UNCHANGED vars
  <2>1. AskedOnce'
    BY <1>21 DEF vars, GateInv, AskedOnce, Voters
  <2>. QED
    BY <1>21, <2>1, GateQuiet DEF vars
<1>. QED
  BY <1>1, <1>2, <1>3, <1>4, <1>5, <1>6, <1>7, <1>8, <1>9, <1>10, <1>11, <1>12, <1>13, <1>14,
     <1>15, <1>16, <1>17, <1>18, <1>19, <1>20, <1>21
  DEF Next, CreatorStep, OpenerStep, CallStep, ApiCall, Fault

(* checkApprovalCompletion never lets a case out before everyone who was asked *)
(* has approved: ApprovedBeforeRouting, for all values of the constants.       *)
THEOREM GateCorrect == Spec => []ApprovedBeforeRouting
<1>1. GateInv => ApprovedBeforeRouting
  BY DEF GateInv, JustifiedCase, Unanimous, ApprovedBeforeRouting
<1>. QED
  BY <1>1, TypedInit, TypedNext, GateInit, GateNext, PTL DEF Spec

-----------------------------------------------------------------------------
(* Linked cases. *)

LEMMA OwnInit == Init => OwnInv
<1>. SUFFICES ASSUME Init PROVE OwnInv
  OBVIOUS
<1>1. \A r, c : OwnLink(r, NewRow.linkedCaseId)
  BY DEF OwnLink, NewRow
<1>. QED
  BY <1>1 DEF Init, OwnInv, OwnCall, IdleCall, Creating, Opening

(* A step that creates no case preserves the invariant when the links it copies *)
(* are own already.                                                             *)
LEMMA OwnQuiet ==
    ASSUME OwnInv,
           \A c \in Case : cases'[c].via = cases[c].via /\ cases'[c].origin = cases[c].origin,
           \A r \in Request :
               \/ requests'[r] = requests[r]
               \/ OwnLink(r, requests'[r].linkedCaseId),
           \A r \in Request :
               \/ opener'[r].row.linkedCaseId = opener[r].row.linkedCaseId
               \/ OwnLink(r, opener'[r].row.linkedCaseId),
           \A r \in Request : creator'[r] = creator[r] \/ creator'[r].pc # "linking",
           \A w \in Worker : call'[w] = call[w] \/ OwnCall(call'[w])
    PROVE  OwnInv'
<1>1. \A r, c : OwnCase(r, c) => OwnCase(r, c)'
  BY DEF OwnCase
<1>2. \A r, k : OwnLink(r, k) => OwnLink(r, k)'
  BY <1>1 DEF OwnLink
<1>3. ASSUME NEW r \in Request PROVE OwnLink(r, requests[r].linkedCaseId)'
  <2>1. OwnLink(r, requests'[r].linkedCaseId)
    BY DEF OwnInv
  <2>. QED
    BY <1>1, <2>1 DEF OwnLink
<1>4. ASSUME NEW r \in Request PROVE OwnLink(r, opener[r].row.linkedCaseId)'
  <2>1. OwnLink(r, opener'[r].row.linkedCaseId)
    BY DEF OwnInv
  <2>. QED
    BY <1>1, <2>1 DEF OwnLink
<1>5. ASSUME NEW r \in Request, creator'[r].pc = "linking" PROVE OwnCase(r, creator[r].case)'
  BY <1>5 DEF OwnInv, OwnCase
<1>6. ASSUME NEW w \in Worker PROVE OwnCall(call[w])'
  <2>1. OwnCall(call'[w])
    BY DEF OwnInv
  <2>. QED
    BY <2>1 DEF OwnCall, OwnLink, OwnCase
<1>. QED
  BY <1>3, <1>4, <1>5, <1>6 DEF OwnInv

(* So does a step that creates a case, if it stores the case where it belongs. *)
LEMMA OwnCreate ==
    ASSUME Typed, OwnInv, NEW d \in Case, NEW q \in Request, NEW path,
           path # "none", CreateCase(d, q, path), UNCHANGED <<requests, opener>>,
           \A r \in Request : creator'[r] = creator[r] \/ (r = q /\ creator'[r].case = d),
           \A w \in Worker :
               \/ call'[w] = call[w]
               \/ /\ call'[w].req = q /\ call[w].req = q
                  /\ call'[w].row = call[w].row
                  /\ call'[w].case = d
    PROVE  OwnInv'
<1>. USE DEF Typed, TypeOK
<1>1. \A r, c : OwnCase(r, c) => OwnCase(r, c)'
  BY DEF OwnCase, CreateCase, FreeCases
<1>2. \A r, k : OwnLink(r, k) => OwnLink(r, k)'
  BY <1>1 DEF OwnLink
<1>3. cases'[d].via # "none" /\ cases'[d].origin = q
  BY DEF CreateCase
<1>4. ASSUME NEW r \in Request PROVE OwnLink(r, requests[r].linkedCaseId)'
                                     /\ OwnLink(r, opener[r].row.linkedCaseId)'
  BY <1>2 DEF OwnInv
<1>5. ASSUME NEW r \in Request, creator'[r].pc = "linking" PROVE OwnCase(r, creator[r].case)'
  <2>1. CASE creator'[r] = creator[r]
    BY <1>1, <1>5, <2>1 DEF OwnInv
  <2>2. CASE r = q /\ creator'[r].case = d
    BY <1>3, <2>2 DEF OwnCase
  <2>. QED
    BY <2>1, <2>2
<1>6. ASSUME NEW w \in Worker PROVE OwnCall(call[w])'
  <2>1. OwnLink(call[w].req, call[w].row.linkedCaseId)'
    <3>1. OwnLink(call[w].req, call[w].row.linkedCaseId)
      BY DEF OwnInv, OwnCall
    <3>2. call'[w].req = call[w].req /\ call'[w].row = call[w].row
      OBVIOUS
    <3>. QED
      BY <1>2, <3>1, <3>2
  <2>2. ASSUME call'[w].pc = "link" PROVE OwnCase(call[w].req, call[w].case)'
    <3>1. CASE call'[w] = call[w]
      BY <1>1, <2>2, <3>1 DEF OwnInv, OwnCall
    <3>2. CASE call'[w].req = q /\ call'[w].case = d
      BY <1>3, <3>2 DEF OwnCase
    <3>. QED
      BY <3>1, <3>2
  <2>. QED
    BY <2>1, <2>2 DEF OwnCall
<1>. QED
  BY <1>4, <1>5, <1>6 DEF OwnInv

LEMMA OwnNext == Typed /\ OwnInv /\ [Next]_vars => OwnInv'
<1>. SUFFICES ASSUME Typed, OwnInv, [Next]_vars PROVE OwnInv'
  OBVIOUS
<1>. USE DEF Typed, TypeOK
<1>n. \A r : OwnLink(r, NewRow.linkedCaseId)
  BY DEF OwnLink, NewRow
<1>i. OwnCall(IdleCall)
  BY <1>n DEF OwnCall, IdleCall
<1>r. \A r \in Request : requests[r] \in Row /\ OwnLink(r, requests[r].linkedCaseId)
  BY DEF OwnInv
<1>c. \A w \in Worker : /\ call[w] \in LiveCall /\ call[w] \in Call /\ call[w].row \in Row
                        /\ OwnCall(call[w])
  BY DEF OwnInv, LiveCall, Call
<1>q. ASSUME UNCHANGED <<requests, cases, creator, opener>>, NEW w \in Worker,
             NEW c, Become(w, c), OwnCall(c)
      PROVE  OwnInv'
  BY <1>q, OwnQuiet DEF Become
<1>s. ASSUME UNCHANGED <<cases, creator, opener>>, NEW w \in Worker, Finish(w),
             NEW r \in Request, NEW row, OwnLink(r, row.linkedCaseId),
             requests' = [requests EXCEPT ![r] = row]
      PROVE  OwnInv'
  BY <1>i, <1>s, OwnQuiet DEF Become, Finish
<1>1. ASSUME NEW r \in Request, NEW hasGroup \in BOOLEAN, InsertRequest(r, hasGroup)
      PROVE  OwnInv'
  BY <1>1, <1>n, OwnQuiet DEF InsertRequest, Creating
<1>2. ASSUME NEW r \in Request, CountSteps(r) PROVE OwnInv'
  <2>1. \A q \in Request : creator'[q] = creator[q] \/ creator'[q].pc # "linking"
    BY <1>2 DEF CountSteps, Creating
  <2>2. \A q \in Request : opener'[q].row.linkedCaseId = opener[q].row.linkedCaseId
                           \/ OwnLink(q, opener'[q].row.linkedCaseId)
    BY <1>2, <1>n DEF CountSteps, Opening
  <2>. QED
    BY <1>2, <2>1, <2>2, OwnQuiet DEF CountSteps, tables
<1>3. ASSUME NEW r \in Request, RouteRequest(r) PROVE OwnInv'
  <2>. PICK c \in Case :
           /\ CreateCase(c, r, "create")
           /\ creator' = [creator EXCEPT ![r] = [Creating("linking") EXCEPT !.case = c]]
    BY <1>3 DEF RouteRequest
  <2>1. \A q \in Request : creator'[q] = creator[q] \/ (q = r /\ creator'[q].case = c)
    BY DEF Creating
  <2>. QED
    BY <1>3, <2>1, OwnCreate DEF RouteRequest
<1>4. ASSUME NEW r \in Request, RouteRequestFails(r) PROVE OwnInv'
  BY <1>4, OwnQuiet DEF RouteRequestFails, tables, Creating
<1>5. ASSUME NEW r \in Request, LinkCreated(r) PROVE OwnInv'
  <2>1. OwnCase(r, creator[r].case)
    BY <1>5 DEF LinkCreated, OwnInv
  <2>2. requests'[r].linkedCaseId = creator[r].case
    BY <1>5, <1>r DEF LinkCreated, Row
  <2>3. \A q \in Request : requests'[q] = requests[q] \/ OwnLink(q, requests'[q].linkedCaseId)
    BY <1>5, <2>1, <2>2 DEF LinkCreated, OwnLink
  <2>4. \A q \in Request : creator'[q] = creator[q] \/ creator'[q].pc # "linking"
    BY <1>5 DEF LinkCreated, Creating
  <2>. QED
    BY <1>5, <2>3, <2>4, OwnQuiet DEF LinkCreated
<1>6. ASSUME NEW r \in Request, LoadCreated(r) PROVE OwnInv'
  <2>1. [Opening("loaded") EXCEPT !.row = requests[r]].row = requests[r]
    BY DEF Opening
  <2>2. \A q \in Request : opener'[q] = opener[q] \/ OwnLink(q, opener'[q].row.linkedCaseId)
    BY <1>6, <1>r, <2>1 DEF LoadCreated
  <2>. QED
    BY <1>6, <2>2, OwnQuiet DEF LoadCreated, tables
<1>7. ASSUME NEW r \in Request, LoadSteps(r) PROVE OwnInv'
  <2>1. opener[r] \in Opener
    OBVIOUS
  <2>2. [opener[r] EXCEPT !.pc = "saving",
                          !.approvers = StepApprovers(Head(steps))].row = opener[r].row
    BY <2>1 DEF Opener
  <2>3. Opening("done").row = NewRow
    BY DEF Opening
  <2>4. /\ \A q \in Request \ {r} : opener'[q] = opener[q]
        /\ opener'[r].row = opener[r].row \/ opener'[r].row = NewRow
    BY <1>7, <2>2, <2>3 DEF LoadSteps
  <2>5. \A q \in Request : opener'[q].row.linkedCaseId = opener[q].row.linkedCaseId
                           \/ OwnLink(q, opener'[q].row.linkedCaseId)
    BY <1>n, <2>4
  <2>. QED
    BY <1>7, <2>5, OwnQuiet DEF LoadSteps, tables
<1>8. ASSUME NEW r \in Request, SaveWaiting(r) PROVE OwnInv'
  <2>1. opener[r] \in Opener /\ OwnLink(r, opener[r].row.linkedCaseId)
    BY DEF OwnInv
  <2>2. opener[r].row \in Row
    BY <2>1 DEF Opener
  <2>3. [opener[r].row EXCEPT !.status = "WaitingApproval"].linkedCaseId
            = opener[r].row.linkedCaseId
    BY <2>2 DEF Row
  <2>4. [opener[r] EXCEPT !.pc = "inserting", !.row = NewRow].row = NewRow
    BY <2>1 DEF Opener
  <2>5. \A q \in Request : requests'[q] = requests[q] \/ OwnLink(q, requests'[q].linkedCaseId)
    BY <1>8, <2>1, <2>3 DEF SaveWaiting
  <2>6. \A q \in Request : opener'[q] = opener[q] \/ OwnLink(q, opener'[q].row.linkedCaseId)
    BY <1>8, <1>n, <2>4 DEF SaveWaiting
  <2>. QED
    BY <1>8, <2>5, <2>6, OwnQuiet DEF SaveWaiting
<1>9. ASSUME NEW r \in Request, InsertApprovals(r) PROVE OwnInv'
  <2>1. \A q \in Request : opener'[q] = opener[q] \/ OwnLink(q, opener'[q].row.linkedCaseId)
    BY <1>9, <1>n DEF InsertApprovals, Opening
  <2>. QED
    BY <1>9, <2>1, OwnQuiet DEF InsertApprovals
<1>10. ASSUME NEW w \in Worker, NEW r \in Request, NEW u \in User,
              Approve(w, r, u) \/ Reject(w, r, u)
       PROVE  OwnInv'
  <2>1. OwnCall([[IdleCall EXCEPT !.pc = "approve"] EXCEPT !.req = r, !.user = u])
    BY <1>n DEF OwnCall, IdleCall
  <2>2. OwnCall([[IdleCall EXCEPT !.pc = "reject", !.row = requests[r]]
                    EXCEPT !.req = r, !.user = u])
    BY <1>r DEF OwnCall, IdleCall
  <2>. QED
    BY <1>10, <1>q, <2>1, <2>2 DEF Approve, Reject, LoadPending, tables
<1>11. ASSUME NEW w \in Worker, NEW pc \in CallPC \ {"link"},
              Become(w, [call[w] EXCEPT !.pc = pc])
       PROVE  OwnCall(call'[w]) /\ \A v \in Worker : call'[v] = call[v] \/ OwnCall(call'[v])
  BY <1>11, <1>c DEF OwnCall, Become, Call
<1>12. ASSUME NEW w \in Worker, SaveApproval(w) \/ SaveRejection(w) PROVE OwnInv'
  BY <1>12, <1>11, OwnQuiet DEF SaveApproval, SaveRejection, CallPC, DecisionPC
<1>13. ASSUME NEW w \in Worker, Tally(w) PROVE OwnInv'
  <2>1. \A v \in Worker : call'[v] = call[v] \/ OwnCall(call'[v])
    BY <1>13, <1>11, <1>i DEF Tally, Finish, Become, CallPC, DecisionPC
  <2>. QED
    BY <1>13, <2>1, OwnQuiet DEF Tally, tables
<1>14. ASSUME NEW w \in Worker, LoadForTally(w) \/ LoadApproved(w) PROVE OwnInv'
  <2>1. call[w].req \in Request
    BY <1>14 DEF LoadForTally, LoadApproved, LiveCall, DecisionPC
  <2>2. \A pc \in {"tally", "route"} :
            OwnCall([call[w] EXCEPT !.pc = pc, !.row = requests[call[w].req]])
    BY <1>c, <1>r, <2>1 DEF OwnCall, Call
  <2>. QED
    BY <1>14, <1>q, <2>2 DEF LoadForTally, LoadApproved, tables
<1>15. ASSUME NEW w \in Worker, SaveClosed(w) PROVE OwnInv'
  <2>1. call[w].req \in Request
    BY <1>15 DEF SaveClosed, LiveCall, DecisionPC
  <2>2. OwnLink(call[w].req, [call[w].row EXCEPT !.status = "Closed"].linkedCaseId)
    BY <1>c DEF OwnCall, Row
  <2>. QED
    BY <1>15, <1>s, <2>1, <2>2 DEF SaveClosed
<1>16. ASSUME NEW w \in Worker, RouteApproved(w) PROVE OwnInv'
  <2>1. call[w].req \in Request
    BY <1>16 DEF RouteApproved, LiveCall, DecisionPC
  <2>2. PICK c \in Case : /\ CreateCase(c, call[w].req, "approval")
                          /\ Become(w, [call[w] EXCEPT !.pc = "link", !.case = c])
    BY <1>16 DEF RouteApproved
  <2>3. \A v \in Worker :
            \/ call'[v] = call[v]
            \/ /\ call'[v].req = call[w].req /\ call[v].req = call[w].req
               /\ call'[v].row = call[v].row
               /\ call'[v].case = c
    BY <1>c, <2>2 DEF Become, Call
  <2>. QED
    BY <1>16, <2>1, <2>2, <2>3, OwnCreate DEF RouteApproved
<1>17. ASSUME NEW w \in Worker, RouteApprovedFails(w) PROVE OwnInv'
  BY <1>17, <1>i, <1>q DEF RouteApprovedFails, Finish, tables
<1>18. ASSUME NEW w \in Worker, LinkApproved(w) PROVE OwnInv'
  <2>1. call[w].req \in Request /\ OwnCase(call[w].req, call[w].case)
    BY <1>18, <1>c DEF LinkApproved, LiveCall, DecisionPC, OwnCall
  <2>2. OwnLink(call[w].req, [call[w].row EXCEPT !.linkedCaseId = call[w].case,
                                                 !.status = "Assigned"].linkedCaseId)
    BY <1>c, <2>1 DEF OwnLink, Row
  <2>. QED
    BY <1>18, <1>s, <2>1, <2>2 DEF LinkApproved
<1>19. ASSUME NEW w \in Worker, SaveRejected(w) PROVE OwnInv'
  <2>1. call[w].req \in Request
    BY <1>19 DEF SaveRejected, LiveCall, DecisionPC
  <2>2. OwnLink(call[w].req, [call[w].row EXCEPT !.status = "Closed",
                                                 !.resolution = "rejected"].linkedCaseId)
    BY <1>c DEF OwnCall, Row
  <2>. QED
    BY <1>19, <1>s, <2>1, <2>2 DEF SaveRejected
<1>20. ASSUME NEW w \in Worker, NEW r \in Request, LoadRequest(w, r) PROVE OwnInv'
  <2>1. PICK row \in Updated(requests[r]) :
            Become(w, [IdleCall EXCEPT !.pc = "saveRequest", !.req = r, !.row = row,
                                       !.seen = (Voters(r) # {})])
    BY <1>20 DEF LoadRequest
  <2>2. row.linkedCaseId = requests[r].linkedCaseId
    BY <1>r, <2>1 DEF Updated, Resolved, Row
  <2>3. OwnCall([IdleCall EXCEPT !.pc = "saveRequest", !.req = r, !.row = row,
                                 !.seen = (Voters(r) # {})])
    BY <1>r, <2>2 DEF OwnCall, IdleCall
  <2>. QED
    BY <1>20, <1>q, <2>1, <2>3 DEF LoadRequest, tables
<1>21. ASSUME NEW w \in Worker, SaveRequest(w) \/ SaveSync(w) PROVE OwnInv'
  <2>1. call[w].req \in Request /\ OwnLink(call[w].req, call[w].row.linkedCaseId)
    BY <1>21, <1>c DEF SaveRequest, SaveSync, LiveCall, OwnCall
  <2>2. CASE requests' = requests
    BY <1>21, <1>i, <1>q, <2>2 DEF SaveRequest, SaveSync, Finish
  <2>3. CASE requests' = [requests EXCEPT ![call[w].req] = call[w].row]
    BY <1>21, <1>s, <2>1, <2>3 DEF SaveRequest, SaveSync
  <2>. QED
    BY <1>21, <2>2, <2>3 DEF SaveRequest, SaveSync
<1>22. ASSUME NEW w \in Worker, NEW c \in Case, ChangeStatus(w, c) \/ UpdateCase(w, c)
       PROVE  OwnInv'
  <2>1. PICK pc, to : pc \in {"saveCase", "saveCaseQuietly"} /\ LoadCase(w, c, pc, to)
    BY <1>22 DEF ChangeStatus, UpdateCase
  <2>2. OwnCall([IdleCall EXCEPT !.pc = pc, !.case = c, !.to = to])
    BY <1>n, <2>1 DEF OwnCall, IdleCall
  <2>. QED
    BY <1>q, <2>1, <2>2 DEF LoadCase, tables
<1>23. ASSUME NEW w \in Worker, SaveCase(w) PROVE OwnInv'
  <2>1. \A v \in Worker : call'[v] = call[v] \/ OwnCall(call'[v])
    BY <1>23, <1>11, <1>i DEF SaveCase, Finish, Become, CallPC, CasePC
  <2>2. \A c \in Case : cases'[c].via = cases[c].via /\ cases'[c].origin = cases[c].origin
    BY <1>23 DEF SaveCase, CaseRow
  <2>. QED
    BY <1>23, <2>1, <2>2, OwnQuiet DEF SaveCase
<1>24. ASSUME NEW w \in Worker, LoadLinked(w) PROVE OwnInv'
  <2>1. \A r \in Request : \A to :
            OwnCall([call[w] EXCEPT !.pc = "saveSync", !.req = r,
                                    !.row = [requests[r] EXCEPT !.status = to]])
    <3>. TAKE r \in Request
    <3>. TAKE to
    <3>1. OwnLink(r, [requests[r] EXCEPT !.status = to].linkedCaseId)
      BY <1>r DEF Row
    <3>. QED
      BY <1>c, <3>1 DEF OwnCall, Call
  <2>. QED
    BY <1>24, <1>i, <1>q, <2>1 DEF LoadLinked, Linked, Finish, tables
<1>25. CASE AdminStep
  <2>1. UNCHANGED <<requests, cases, creator, opener, call>>
    BY <1>25 DEF AdminStep, DeleteSteps, InsertSteps, AppendSteps, EditSteps
  <2>. QED
    BY <2>1, OwnQuiet
<1>26. CASE Crash
  <2>1. \A q \in Request : creator'[q] = creator[q] \/ creator'[q].pc # "linking"
    BY <1>26 DEF Crash, Creating
  <2>2. \A q \in Request : opener'[q] = opener[q] \/ OwnLink(q, opener'[q].row.linkedCaseId)
    BY <1>26, <1>n DEF Crash, Opening
  <2>. QED
    BY <1>26, <1>i, <2>1, <2>2, OwnQuiet DEF Crash, tables
<1>27. CASE UNCHANGED vars
  BY <1>27, OwnQuiet DEF vars
<1>. QED
  BY <1>1, <1>2, <1>3, <1>4, <1>5, <1>6, <1>7, <1>8, <1>9, <1>10, <1>12, <1>13, <1>14, <1>15,
     <1>16, <1>17, <1>18, <1>19, <1>20, <1>21, <1>22, <1>23, <1>24, <1>25, <1>26, <1>27
  DEF Next, CreatorStep, OpenerStep, CallStep, ApiCall, Fault

(* However stale the rows that handlers save, a request is only ever linked to *)
(* a case created for it: LinkedCaseIsOwn, for all values of the constants.    *)
THEOREM LinkCorrect == Spec => []LinkedCaseIsOwn
<1>1. OwnInv => LinkedCaseIsOwn
  BY DEF OwnInv, OwnLink, OwnCase, LinkedCaseIsOwn
<1>. QED
  BY <1>1, TypedInit, TypedNext, OwnInit, OwnNext, PTL DEF Spec

-----------------------------------------------------------------------------
(* Approval is not bypassed. *)

LEMMA UndividedInit == Init => Undivided
BY DEF Init, Undivided, Unasked, Unrouted, Voters, CasesOf, Creating, Opening

LEMMA UndividedNext == Typed /\ GateInv /\ Undivided /\ [Next]_vars => Undivided'
<1>. SUFFICES ASSUME Typed, GateInv, Undivided, [Next]_vars PROVE Undivided'
  OBVIOUS
<1>. USE DEF Typed, TypeOK
<1>q. ASSUME UNCHANGED <<stepEdits, steps, admin>>,
             steps = <<>> => \A r \in Request : Unasked(r) => Unasked(r)',
             steps # <<>> => \A r \in Request : Unrouted(r) => Unrouted(r)'
      PROVE  Undivided'
  BY <1>q DEF Undivided
<1>c. ASSUME UNCHANGED <<approvals, opener, cases, creator, stepEdits, steps, admin>>
      PROVE  Undivided'
  BY <1>c, <1>q DEF Unasked, Unrouted, Voters, CasesOf
<1>1. ASSUME NEW r \in Request, NEW hasGroup \in BOOLEAN, InsertRequest(r, hasGroup)
      PROVE  Undivided'
  BY <1>1, <1>q DEF InsertRequest, Creating, Unasked, Unrouted, Voters, CasesOf
<1>2. ASSUME NEW r \in Request, CountSteps(r) PROVE Undivided'
  BY <1>2, <1>q DEF CountSteps, NeedsApproval, Creating, Opening, tables,
     Unasked, Unrouted, Voters, CasesOf
<1>3. ASSUME NEW r \in Request, RouteRequest(r) PROVE Undivided'
  <2>1. stepEdits = 0 => steps = <<>>
    BY <1>3 DEF RouteRequest, Undivided, Unrouted
  <2>2. \A q \in Request : Unasked(q) => Unasked(q)'
    BY <1>3 DEF RouteRequest, Unasked, Voters
  <2>. QED
    BY <1>3, <2>1, <2>2 DEF RouteRequest, Undivided
<1>4. ASSUME NEW r \in Request, RouteRequestFails(r) \/ LinkCreated(r) PROVE Undivided'
  <2>1. /\ creator' = [creator EXCEPT ![r] = Creating("done")]
        /\ UNCHANGED <<approvals, opener, cases, stepEdits, steps, admin>>
    BY <1>4 DEF RouteRequestFails, LinkCreated, tables
  <2>. QED
    BY <1>q, <2>1 DEF Creating, Unasked, Unrouted, Voters, CasesOf
<1>5. ASSUME NEW r \in Request, LoadCreated(r) PROVE Undivided'
  BY <1>5, <1>q DEF LoadCreated, Opening, tables, Unasked, Unrouted, Voters, CasesOf
<1>6. ASSUME NEW r \in Request, LoadSteps(r) PROVE Undivided'
  BY <1>6, <1>q DEF LoadSteps, Opening, tables, Unasked, Unrouted, Voters, CasesOf
<1>7. ASSUME NEW r \in Request, SaveWaiting(r) \/ InsertApprovals(r) PROVE Undivided'
  <2>1. opener[r].pc \in {"saving", "inserting"}
    BY <1>7 DEF SaveWaiting, InsertApprovals
  <2>2. stepEdits = 0 => steps # <<>>
    BY <2>1 DEF Undivided, Unasked
  <2>3. UNCHANGED <<cases, creator, stepEdits, steps, admin>>
    BY <1>7 DEF SaveWaiting, InsertApprovals
  <2>. QED
    BY <2>2, <2>3 DEF Undivided, Unrouted, CasesOf
<1>8. ASSUME NEW w \in Worker, ApiCall(w) PROVE Undivided'
  BY <1>8, <1>c DEF ApiCall, Approve, Reject, LoadPending, LoadRequest, ChangeStatus,
     UpdateCase, LoadCase, tables
<1>9. ASSUME NEW w \in Worker, SaveApproval(w) \/ SaveRejection(w) PROVE Undivided'
  <2>. DEFINE r == call[w].req  u == call[w].user
  <2>1. r \in Request /\ u \in User /\ u \in Voters(r)
    BY <1>9 DEF SaveApproval, SaveRejection, LiveCall, DecisionPC, GateInv, JustifiedCall
  <2>2. \A q \in Request : Unrouted(q) => Unrouted(q)'
    BY <1>9 DEF SaveApproval, SaveRejection, Unrouted, CasesOf
  <2>3. ~Unasked(r)
    BY <2>1 DEF Unasked
  <2>4. UNCHANGED <<stepEdits, steps, admin>>
    BY <1>9 DEF SaveApproval, SaveRejection
  <2>. QED
    BY <2>1, <2>2, <2>3, <2>4 DEF Undivided
<1>10. ASSUME NEW w \in Worker,
              \/ LoadForTally(w) \/ Tally(w) \/ SaveClosed(w) \/ LoadApproved(w)
              \/ RouteApprovedFails(w) \/ LinkApproved(w) \/ SaveRejected(w)
              \/ SaveRequest(w) \/ LoadLinked(w) \/ SaveSync(w)
       PROVE  Undivided'
  BY <1>10, <1>c DEF LoadForTally, Tally, SaveClosed, LoadApproved, RouteApprovedFails,
     LinkApproved, SaveRejected, SaveRequest, LoadLinked, SaveSync, tables
<1>11. ASSUME NEW w \in Worker, RouteApproved(w) PROVE Undivided'
  <2>1. \A r \in Request : CasesOf(r, "create")' \subseteq CasesOf(r, "create")
    BY <1>11 DEF RouteApproved, CreateCase, CasesOf
  <2>. QED
    BY <1>11, <1>q, <2>1 DEF RouteApproved, Unasked, Unrouted, Voters
<1>12. ASSUME NEW w \in Worker, SaveCase(w) PROVE Undivided'
  <2>1. \A c \in Case : cases'[c].via = cases[c].via /\ cases'[c].origin = cases[c].origin
    BY <1>12 DEF SaveCase, CaseRow
  <2>2. \A r \in Request : CasesOf(r, "create")' = CasesOf(r, "create")
    BY <2>1 DEF CasesOf
  <2>. QED
    BY <1>12, <1>q, <2>2 DEF SaveCase, Unasked, Unrouted, Voters
<1>13. ASSUME NEW list \in StepLists, DeleteSteps(list) \/ AppendSteps(list) PROVE Undivided'
  BY <1>13 DEF DeleteSteps, AppendSteps, EditSteps, Undivided
<1>14. CASE InsertSteps
  <2>1. stepEdits # 0 /\ stepEdits' = stepEdits
    BY <1>14 DEF InsertSteps, Undivided
  <2>. QED
    BY <2>1 DEF Undivided
<1>15. CASE Crash
  <2>1. \A r \in Request : Unasked(r) => Unasked(r)'
    BY <1>15 DEF Crash, Opening, tables, Unasked, Voters
  <2>2. \A r \in Request : Unrouted(r) => Unrouted(r)'
    BY <1>15 DEF Crash, Creating, tables, Unrouted, CasesOf
  <2>. QED
    BY <1>15, <2>1, <2>2 DEF Crash, tables, Undivided
<1>16. CASE UNCHANGED vars
  BY <1>16, <1>c DEF vars
<1>. QED
  BY <1>1, <1>2, <1>3, <1>4, <1>5, <1>6, <1>7, <1>8, <1>9, <1>10, <1>11, <1>12, <1>13, <1>14,
     <1>15, <1>16
  DEF Next, CreatorStep, OpenerStep, CallStep, Fault, AdminStep

(* While nobody edits the approval steps, createRequest and its listener agree *)
(* on them: ApprovalNotBypassed, for all values of the constants.              *)
THEOREM BypassCorrect == Spec => []ApprovalNotBypassed
<1>1. Undivided => ApprovalNotBypassed
  BY DEF Undivided, Unasked, Unrouted, ApprovalNotBypassed
<1>. QED
  BY <1>1, TypedInit, TypedNext, GateInit, GateNext, UndividedInit, UndividedNext, PTL DEF Spec

-----------------------------------------------------------------------------
(* The workflow implements the abstract gate. *)

LEMMA GateInitMaps == Init => Gate!Init
<1>. SUFFICES ASSUME Init PROVE Gate!Init
  OBVIOUS
<1>1. \A r \in Request : Voters(r) = {} /\ CasesOf(r, "approval") = {}
  BY DEF Init, Voters, CasesOf
<1>2. approvedBy = [r \in Request |-> {}]
  BY DEF Init
<1>. QED
  BY <1>1, <1>2 DEF Gate!Init

(* A step shows at the gate only if it opens the gate, votes or passes. *)
LEMMA GateStepMaps == Typed /\ GateInv /\ [Next]_vars => [Gate!Next]_Gate!gate
<1>. SUFFICES ASSUME Typed, GateInv, [Next]_vars PROVE [Gate!Next]_Gate!gate
  OBVIOUS
<1>. USE DEF Typed, TypeOK
<1>q. ASSUME \A r \in Request : Voters(r)' = Voters(r), UNCHANGED approvedBy,
             \A r \in Request : CasesOf(r, "approval")' = CasesOf(r, "approval")
      PROVE  UNCHANGED Gate!gate
  BY <1>q DEF Gate!gate
<1>c. ASSUME UNCHANGED <<approvals, approvedBy, cases>>
      PROVE  UNCHANGED Gate!gate
  BY <1>c, <1>q DEF Voters, CasesOf
<1>1. ASSUME NEW r \in Request, InsertApprovals(r) PROVE [Gate!Next]_Gate!gate
  <2>1. Voters(r) = {} /\ Voters(r)' \in SUBSET User
    BY <1>1 DEF InsertApprovals, GateInv, AskedOnce, Voters
  <2>2. \A q \in Request \ {r} : Voters(q)' = Voters(q)
    BY <1>1 DEF InsertApprovals, Voters
  <2>3. [q \in Request |-> Voters(q)]' = [[q \in Request |-> Voters(q)] EXCEPT ![r] = Voters(r)']
    BY <2>2
  <2>4. UNCHANGED <<approvedBy, [q \in Request |-> CasesOf(q, "approval")]>>
    BY <1>1 DEF InsertApprovals, CasesOf
  <2>5. Gate!Open(r)
    BY <2>1, <2>3, <2>4 DEF Gate!Open
  <2>. QED
    BY <2>5 DEF Gate!Next
<1>2. ASSUME NEW w \in Worker, SaveApproval(w) PROVE [Gate!Next]_Gate!gate
  <2>. DEFINE r == call[w].req  u == call[w].user
  <2>1. r \in Request /\ u \in User /\ u \in Voters(r)
    BY <1>2 DEF SaveApproval, LiveCall, DecisionPC, GateInv, JustifiedCall
  <2>2. \A q \in Request : Voters(q)' = Voters(q) /\ CasesOf(q, "approval")' = CasesOf(q, "approval")
    BY <1>2, <2>1 DEF SaveApproval, Voters, CasesOf
  <2>3. approvedBy' = [approvedBy EXCEPT ![r] = @ \cup {u}]
    BY <1>2 DEF SaveApproval
  <2>4. UNCHANGED <<[q \in Request |-> Voters(q)], [q \in Request |-> CasesOf(q, "approval")]>>
    BY <2>2
  <2>5. Gate!Vote(r)
    BY <2>1, <2>3, <2>4 DEF Gate!Vote
  <2>. QED
    BY <2>1, <2>5 DEF Gate!Next
<1>3. ASSUME NEW w \in Worker, RouteApproved(w) PROVE [Gate!Next]_Gate!gate
  <2>1. PICK r \in Request : r = call[w].req /\ Unanimous(r)
    BY <1>3 DEF RouteApproved, LiveCall, DecisionPC, GateInv, JustifiedCall
  <2>2. PICK c \in Case : CreateCase(c, r, "approval")
    BY <1>3, <2>1 DEF RouteApproved
  <2>3. CasesOf(r, "approval")' = CasesOf(r, "approval") \cup {c}
    BY <2>2 DEF CreateCase, FreeCases, CasesOf
  <2>4. \A q \in Request \ {r} : CasesOf(q, "approval")' = CasesOf(q, "approval")
    BY <2>2 DEF CreateCase, FreeCases, CasesOf
  <2>5. [q \in Request |-> CasesOf(q, "approval")]'
            = [[q \in Request |-> CasesOf(q, "approval")] EXCEPT ![r] = @ \cup {c}]
    BY <2>3, <2>4
  <2>6. UNCHANGED <<[q \in Request |-> Voters(q)], approvedBy>>
    BY <1>3 DEF RouteApproved, Voters
  <2>7. Gate!Pass(r)
    BY <2>1, <2>5, <2>6 DEF Gate!Pass, Unanimous
  <2>. QED
    BY <2>1, <2>7 DEF Gate!Next
<1>4. ASSUME NEW r \in Request, RouteRequest(r) PROVE UNCHANGED Gate!gate
  <2>1. \A q \in Request : CasesOf(q, "approval")' = CasesOf(q, "approval")
    BY <1>4 DEF RouteRequest, CreateCase, FreeCases, CasesOf
  <2>. QED
    BY <1>4, <1>q, <2>1 DEF RouteRequest, Voters
<1>5. ASSUME NEW w \in Worker, SaveRejection(w) PROVE UNCHANGED Gate!gate
  <2>. DEFINE r == call[w].req  u == call[w].user
  <2>1. r \in Request /\ u \in User /\ u \in Voters(r)
    BY <1>5 DEF SaveRejection, LiveCall, DecisionPC, GateInv, JustifiedCall
  <2>2. \A q \in Request : Voters(q)' = Voters(q)
    BY <1>5, <2>1 DEF SaveRejection, Voters
  <2>. QED
    BY <1>5, <1>q, <2>2 DEF SaveRejection, CasesOf
<1>6. ASSUME NEW w \in Worker, SaveCase(w) PROVE UNCHANGED Gate!gate
  <2>1. \A c \in Case : cases'[c].via = cases[c].via /\ cases'[c].origin = cases[c].origin
    BY <1>6 DEF SaveCase, CaseRow
  <2>. QED
    BY <1>6, <1>q, <2>1 DEF SaveCase, Voters, CasesOf
<1>7. ASSUME NEW r \in Request,
             \/ \E hasGroup \in BOOLEAN : InsertRequest(r, hasGroup)
             \/ CountSteps(r) \/ LinkCreated(r) \/ RouteRequestFails(r)
             \/ LoadCreated(r) \/ LoadSteps(r) \/ SaveWaiting(r)
      PROVE  UNCHANGED Gate!gate
  BY <1>7, <1>c DEF InsertRequest, CountSteps, LinkCreated, RouteRequestFails, LoadCreated,
     LoadSteps, SaveWaiting, tables
<1>8. ASSUME NEW w \in Worker,
             \/ LoadForTally(w) \/ Tally(w) \/ SaveClosed(w) \/ LoadApproved(w)
             \/ RouteApprovedFails(w) \/ LinkApproved(w) \/ SaveRejected(w)
             \/ SaveRequest(w) \/ LoadLinked(w) \/ SaveSync(w)
      PROVE  UNCHANGED Gate!gate
  BY <1>8, <1>c DEF LoadForTally, Tally, SaveClosed, LoadApproved, RouteApprovedFails,
     LinkApproved, SaveRejected, SaveRequest, LoadLinked, SaveSync, tables
<1>9. ASSUME NEW w \in Worker, ApiCall(w) PROVE UNCHANGED Gate!gate
  BY <1>9, <1>c DEF ApiCall, Approve, Reject, LoadPending, LoadRequest, ChangeStatus,
     UpdateCase, LoadCase, tables
<1>10. CASE AdminStep \/ Crash \/ UNCHANGED vars
  <2>1. UNCHANGED <<approvals, approvedBy, cases>>
    BY <1>10 DEF AdminStep, DeleteSteps, AppendSteps, InsertSteps, EditSteps, Crash, vars, tables
  <2>. QED
    BY <1>c, <2>1
<1>. QED
  BY <1>1, <1>2, <1>3, <1>4, <1>5, <1>6, <1>7, <1>8, <1>9, <1>10
  DEF Next, CreatorStep, OpenerStep, CallStep, Fault

(* The tables, handlers and events bring about what ApprovalGate promises:   *)
(* ImplementsGate, for all values of the constants.                          *)
THEOREM GateImplemented == Spec => ImplementsGate
<1>. QED
  BY TypedInit, TypedNext, GateInit, GateNext, GateInitMaps, GateStepMaps, PTL
  DEF Spec, ImplementsGate, Gate!Spec
=============================================================================

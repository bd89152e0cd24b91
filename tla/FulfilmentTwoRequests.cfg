SPECIFICATION Spec
CONSTANTS
    Request = {r1, r2}
    User = {u1}
    Group = {g1}
    Case = {c1, c2}
    Worker = {w1}
    None = None
    u1 = u1
    u2 = u2
    u3 = u3
    g1 = g1
    Members <- MCMembersOne
    Manager = u1
    StepLists <- SingleStepLists
    RequestTargets = {}
    CaseTargets = {"Pending"}
    MaxStepEdits = 1
    MaxFaults = 1
SYMMETRY TwoRequests
INVARIANTS TypeOK ApprovalNotBypassed LinkedCaseIsOwn
CHECK_DEADLOCK FALSE

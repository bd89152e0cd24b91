SPECIFICATION Spec
CONSTANTS
    Request = {r1}
    User = {u1, u2, u3}
    Group = {g1}
    Case = {c1, c2}
    Worker = {w1}
    None = None
    u1 = u1
    u2 = u2
    u3 = u3
    g1 = g1
    Members <- MCMembers
    Manager = u3
    StepLists <- TwoStepLists
    RequestTargets = {}
    CaseTargets = {}
    MaxStepEdits = 0
    MaxFaults = 0
INVARIANT CaseOnlyAfterFinalApproval
CHECK_DEADLOCK FALSE

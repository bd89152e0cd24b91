SPECIFICATION FairSpec
CONSTANTS
    Request = {r1}
    User = {u1, u2}
    Group = {g1}
    Case = {c1, c2}
    Worker = {w1, w2}
    None = None
    u1 = u1
    u2 = u2
    u3 = u3
    g1 = g1
    Members <- MCMembers
    Manager = u1
    StepLists <- MixedStepLists
    RequestTargets = {"Closed"}
    CaseTargets = {}
    MaxStepEdits = 0
    MaxFaults = 1
INVARIANTS ApprovedBeforeRouting
PROPERTIES ApprovedEventuallyRouted CreatedEventuallyHandled ImplementsGate
CHECK_DEADLOCK FALSE

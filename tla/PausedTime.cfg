SPECIFICATION Spec
CONSTANTS
    Case = {k1}
    Target = {t1}
    Worker = {w1}
    Ticker = {s1}
    None = None
    t1 = t1
    Includes = {}
    Goal <- MCGoalOne
    Rules <- MCRules
    Created <- MCCreated
    Changes <- MCChanges
    Take = 2
    MaxTime = 2
    MaxChanges = 2
    MaxFaults = 0
    MaxInt = 2
INVARIANT PausedTimeIsFree
CHECK_DEADLOCK FALSE

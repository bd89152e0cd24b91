SPECIFICATION FairSpec
CONSTANTS
    Case = {k1}
    Target = {t1}
    Worker = {w1, w2}
    Ticker = {s1, s2}
    None = None
    t1 = t1
    Includes = {}
    Goal <- MCGoalOne
    Rules <- MCRules
    Created <- MCCreated
    Changes <- MCChanges
    Take = 2
    MaxTime = 2
    MaxChanges = 2
    MaxFaults = 1
    MaxInt = 2
INVARIANTS TypeOK 
PROPERTIES SettledStaysSettled RunningEventuallyEnds
CHECK_DEADLOCK FALSE

\* Two calls at a time on one user's tokens, while they and the blacklist age.
SPECIFICATION Spec

CONSTANTS
    None = None
    j1 = j1
    j2 = j2
    f1 = f1
    f2 = f2
    c1 = c1
    c2 = c2
    Access <- MCAccess
    Refresh <- MCRefresh
    Call <- MCCall
    Settings <- MCSettings
    RefreshTTL = 604800
    Moments <- MCMoments

SYMMETRY Interchangeable

INVARIANTS
    TypeOK
    LoggedOutIsRefused
    ClosedIssuesNothing

CHECK_DEADLOCK FALSE

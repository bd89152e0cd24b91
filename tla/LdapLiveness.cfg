SPECIFICATION FairSpec
CONSTANTS
    Config = {c1}
    Guid = {g1}
    Name = {n1}
    Mail = {m1}
    Attribute = {x1}
    Nameless = Nameless
    Sync = {s1, s2}
    Admin = {a1}
    None = None
    g1 = g1
    n1 = n1
    NameOf <- MCNameOf
    Settings <- MCDirect
    Options <- MCOptions
    Accounts <- MCInactive
    MaxEvents = 1
PROPERTIES DueEventuallyPlanned DirectConverges
CHECK_DEADLOCK FALSE

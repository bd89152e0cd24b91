SPECIFICATION Spec
CONSTANTS
    Config = {c1}
    Guid = {g1}
    Name = {n1}
    Mail = {m1}
    Attribute = {}
    Nameless = Nameless
    Sync = {s1, s2}
    Admin = {a1}
    None = None
    g1 = g1
    n1 = n1
    NameOf <- MCNameOf
    Settings <- MCSettings
    Options <- MCOptions
    Accounts <- MCAccounts
    MaxEvents = 1
INVARIANTS TypeOK FlagHasOwner ImportedHasUser SweepsOnlyAbsent
SYMMETRY Interchangeable
CHECK_DEADLOCK FALSE

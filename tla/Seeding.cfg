\* Two runs of the seeder, overlapping or one after the other, each stopped at
\* any point, with one edit by an administrator.
SPECIFICATION Spec

CONSTANTS
    s1 = s1
    s2 = s2
    Seeders <- MCSeeders
    MaxEdits = 1
    Deletable = {"admin", "agent"}

SYMMETRY Interchangeable

INVARIANTS
    TypeOK
    RerunRepairs
    OverlapSeedsAll

CHECK_DEADLOCK FALSE

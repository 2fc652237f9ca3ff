CONSTANTS
    m1 = m1
    s1 = s1
    s2 = s2
    s3 = s3
    a1 = a1
    a2 = a2
    q1 = q1
    q2 = q2
    None = None
    Submissions <- MCSubmissions
    Owner <- MCOwner
    VersionOf <- MCVersionOf
    Slots <- MCSlots
    LastVersion = 2
    Ids <- MCIds
    Moderators <- MCModerators
    Readers = {m1}
    Limit = 1
    MaxTime = 1
SYMMETRY Symmetry
SPECIFICATION Spec
CONSTRAINT OneListOneRace
INVARIANTS
    TypeOK
    RulingsAreFinal
    WalkIsExact

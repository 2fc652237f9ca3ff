CONSTANTS
    c1 = c1
    c2 = c2
    c3 = c3
    None = None
    Problems = {p1, p2}
    Versions = {v1, v2}
    Contents <- MCContents
    Sound <- MCSound
    LastDay = 2
    Admins = {a1, a2}
    Members = {m1}
SYMMETRY Symmetry
SPECIFICATION Spec
INVARIANT
    PublishedIsApproved

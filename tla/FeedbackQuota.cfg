CONSTANTS
    r1 = r1
    r2 = r2
    r3 = r3
    r4 = r4
    s1 = s1
    s2 = s2
    k1 = k1
    k2 = k2
    k3 = k3
    None = None
    Requests = {r1, r2, r4}
    Submissions = {s1, s2}
    Keys = {k1, k2, k3}
    SubmissionOf <- MCSubmissionOf
    KeyOf <- MCKeyOf
    Assessed = {s1}
    Faults = {}
SPECIFICATION Spec
CHECK_DEADLOCK FALSE
INVARIANT
    FirstIsFreeOnce

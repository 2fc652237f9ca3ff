CONSTANTS
    r1 = r1
    r2 = r2
    r3 = r3
    r4 = r4
    s1 = s1
    s2 = s2
    k1 = k1
    k2 = k2
    k3 = k3
    None = None
    Requests = {r1, r2, r3}
    Submissions = {s1}
    Keys = {k1, k2}
    SubmissionOf <- MCSubmissionOf
    KeyOf <- MCKeyOf
    Assessed = {s1}
    Faults = {"db", "crash"}
SPECIFICATION Spec
CHECK_DEADLOCK FALSE
INVARIANTS
    TypeOK
    JobMatchesRequest
    AnswersAreTruthful
    VersionsNeverCollide
PROPERTY
    ReservationIsSettled

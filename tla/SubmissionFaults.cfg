CONSTANTS
    r1 = r1
    r2 = r2
    r3 = r3
    k1 = k1
    d1 = d1
    d2 = d2
    None = None
    Requests = {r1, r2, r3}
    Keys = {k1}
    Digests = {d1, d2}
    Verdicts <- MCVerdicts
    KeyOf <- MCKeyOf
    DigestOf <- MCDigestOf
    Faults = {"db", "crash"}
    InsertBinds = TRUE
SPECIFICATION FairSpec
INVARIANTS
    TypeOK
    OneExecutorPerKey
    RecordMatchesSubmission
    SuccessesAgree
    RefusalsAreTruthful
PROPERTY
    ImplementsRegister
    ClaimIsReleased

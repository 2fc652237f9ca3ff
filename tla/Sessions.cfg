SPECIFICATION Spec
CONSTANTS
    a1 = a1
    a2 = a2
    c1 = c1
    c2 = c2
    t1 = t1
    t2 = t2
    terms = terms
    privacy = privacy
    None = None
    Attempts <- MCAttempts
    Callbacks <- MCCallbacks
    Tabs <- MCTabs
    Policies <- MCPolicies
    AttemptInsertParses = TRUE
SYMMETRY Symmetry
INVARIANTS
    TypeOK
    OneSessionPerAttempt
    NoBlindConsent
    NewcomersAreHeard

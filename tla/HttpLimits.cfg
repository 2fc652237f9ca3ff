SPECIFICATION Spec
CONSTANTS
    a1 = a1
    a2 = a2
    b1 = b1
    A = A
    B = B
    Clients <- MCClients
    Addresses <- MCAddresses
    AddressOf <- MCAddressOf
    None = None
    Capacity = 2
    Window = 3
    Second = 2
    MaxKeys = 2
    MaxTime = 4
SYMMETRY Symmetry
INVARIANTS
    TypeOK
    CacheKeepsTheMostRecent
    AdmissionsAreBounded
    PoliteRetrySucceeds

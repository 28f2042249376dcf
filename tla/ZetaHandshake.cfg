SPECIFICATION StorageSpec
CONSTANTS
    Alice = Alice
    Bob = Bob
    None = None
    Openers = {Alice}
    Slots = {s1}
    Kids = {k1, k2, k3}
    CacheSize = 2
    MaxFresh = 5
    MaxFaults = 1
    Punctual = FALSE
    StorageErrors = FALSE
    DebugAssertions = FALSE
    HelloRequiresRecognizedRatchet = FALSE
    InitiatorDisallowsDowngrade = TRUE
    ResponderDisallowsDowngrade = TRUE
SYMMETRY Symmetry
CHECK_DEADLOCK FALSE
INVARIANT TypeOK
INVARIANT SessionShape
INVARIANT KidsRouted
INVARIANT NoLeakedKids
INVARIANT HandshakeConsumed
PROPERTY StoreAdvances
INVARIANT KeepsPeersRatchet

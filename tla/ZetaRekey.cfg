SPECIFICATION EstablishedSpec
CONSTANTS
    Alice = Alice
    Bob = Bob
    None = None
    Openers = {Alice}
    Slots = {s1, s2}
    Kids = {k1, k2, k3}
    CacheSize = 1
    MaxFresh = 6
    MaxFaults = 1
    Punctual = FALSE
    StorageErrors = FALSE
    DebugAssertions = FALSE
    HelloRequiresRecognizedRatchet = FALSE
    InitiatorDisallowsDowngrade = FALSE
    ResponderDisallowsDowngrade = FALSE
SYMMETRY Symmetry
CHECK_DEADLOCK FALSE
INVARIANT SendKeyKnown
INVARIANT RekeyRoles
PROPERTY KeysAgreed

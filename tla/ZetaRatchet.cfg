SPECIFICATION FairSpec
CONSTANTS
    Alice = Alice
    Bob = Bob
    None = None
    Openers = {Alice}
    Slots = {s1}
    Kids = {k1, k2}
    CacheSize = 1
    MaxFresh = 6
    MaxFaults = 0
    Punctual = TRUE
    StorageErrors = TRUE
    DebugAssertions = TRUE
    HelloRequiresRecognizedRatchet = FALSE
    InitiatorDisallowsDowngrade = FALSE
    ResponderDisallowsDowngrade = FALSE
CHECK_DEADLOCK FALSE
INVARIANT CommonRatchet
PROPERTY HalfOpenEnds

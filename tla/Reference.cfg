SPECIFICATION MCSpec
CONSTANTS
    Sessions = {s1, s2}
    Kids = {k1, k2, k3, k4, k5}
    None = None
    Dead = Dead
    Distinct = TRUE
    Nonces = {n1}
    NoBuffer = NoBuffer
    MAX_FRAGMENTS = 4
    MIN_MTU = 2
    MaxMtu = 5
    MaxLen = 9
    AssemblyTimeout = 1
    MaxTime = 3
SYMMETRY Symmetry
CHECK_DEADLOCK FALSE
INVARIANT HandlersFindKeys
INVARIANT LiveSessionsServed
INVARIANT AwaitedPacketRouted
INVARIANT ReassembledWhole
INVARIANT RefusedOnlyAsCopy

SPECIFICATION Spec
CONSTANTS
    L = 2
    MAX = 7
    Modulus = 8
    Clients = {a1}
    Addresses = {r1}
    Threads = {t1, t2}
    None = None
    MaxChallenges = 2
    MaxPows = 3
    MaxMoves = 0
SYMMETRY Symmetry
CHECK_DEADLOCK FALSE
INVARIANT AcceptedOnce

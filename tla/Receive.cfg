SPECIFICATION MCSpec
CONSTANTS
    Packets = {p1, p2, p3}
    Nothing = Nothing
    L = 2
    MAX = 7
    Modulus = 8
    Clients = {a1, a2}
    Addresses = {r1, r2}
    Threads = {t1, t2}
    None = None
    MaxChallenges = 3
    MaxPows = 4
    MaxMoves = 1
    MapSize = 2
    RingSize = 5
    MaxFragments = 3
    MaxPacketSize = 2
    MaxSize = 1
    ResendTime = 1
    AssemblyTimeout = 2
    MaxTime = 2
    HEADER_SIZE = 3
    AUTH_SIZE = 1
    TAG_SIZE = 2
    MIN_MTU = 4
    MaxMtu = 5
    MaxLen = 10
    MAX_FRAGMENTS = 3
    DefragSize = 2
    MaxCounter = 3
SYMMETRY Symmetry
CHECK_DEADLOCK FALSE
INVARIANT AddressProven
PROPERTY AnswersAdvance
INVARIANT AnswerVerifies
INVARIANT RingConsistent
INVARIANT FragmentsOwned
INVARIANT AssembledWhole
INVARIANT OldestFirst
PROPERTY NotEvictedEarly
INVARIANT DeliveredAsSent
INVARIANT FragmentsFit
INVARIANT BuffersOwned

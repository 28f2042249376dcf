SPECIFICATION MCSpec
CONSTANTS
    Threads = {t1, t2}
    Sessions = {s1, s2}
    None = None
    Unordered = {"ReceivedX3", "RespondToChallenge", "DropInService"}
    L = 3
    MAX = 5
    Modulus = 10
    HardExpire = 6
    LastCounter = 6
    ExpireAfterUses = 2
    RekeyAfterUses = 1
    MaxKeys = 3
\* That every thread stops is what OrderPreventsDeadlock and OperationsReturn are about.
CHECK_DEADLOCK FALSE
INVARIANT OrderPreventsDeadlock
INVARIANT TypeOK
INVARIANT NonceUnique
INVARIANT NoReplay
INVARIANT RefusedOnlyIfLate
PROPERTY OperationsReturn

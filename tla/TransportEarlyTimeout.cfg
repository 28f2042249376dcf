SPECIFICATION Spec
CONSTANTS
    Threads = {t1, t2}
    None = None
    Modulus = 11
    HardExpire = 7
    ExpireAfterUses = 2
    RekeyAfterUses = 1
    MaxKeys = 3
SYMMETRY Symmetry
CHECK_DEADLOCK FALSE
INVARIANT EarlyTimeoutInS2

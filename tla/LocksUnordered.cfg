SPECIFICATION LocksSpec
CONSTANTS
    Threads = {t1, t2}
    Sessions = {s1}
    None = None
    Unordered = {"ReceivedX3"}
SYMMETRY Symmetry
INVARIANT DeadlockFree

SPECIFICATION FairSpec
CONSTANTS
    t1 = t1  t2 = t2  None = None
    Tab = {t1, t2}
    Kind = {"login", "register", "vendor"}
    MaxAttempts = 2
    MaxCodes = 2
INVARIANTS TypeOK SpentOnAccount SignsInOnce TriesAreCounted
PROPERTY NobodyShutOut
CHECK_DEADLOCK FALSE

\* An object that held one account is used for another.
SPECIFICATION ReuseSpec
CONSTANTS
    MAX_ONE_TIME_KEYS = 2
    MaxKeys = 2
INVARIANTS
    RehydratedIsSame

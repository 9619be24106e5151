\* Both devices may open a session, or one opens two, the second with the
\* fallback key; the limits are those of the code.
SPECIFICATION Spec
CONSTANTS
    Alice = Alice
    Bob = Bob
    NoKey = NoKey
    Slot = {s1, s2}
    OneTimeKeys = 1
    MaxOpens = 2
    MaxSends = 3
    MaxForgets = 1
    OLM_MAX_RECEIVER_CHAINS = 5
    OLM_MAX_SKIPPED_MESSAGE_KEYS = 40
    MAX_MESSAGE_GAP = 2000
SYMMETRY Symmetry
INVARIANTS
    TypeOK
    AlwaysReachable
    ReadOnce
    OneSessionPerId
    MessageKeysUnique
CHECK_DEADLOCK FALSE

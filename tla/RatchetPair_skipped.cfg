\* The smallest limits under which a skipped key outlives its chain.
SPECIFICATION Spec
CONSTANTS
    Alice = Alice
    Bob = Bob
    InitialSecret = InitialSecret
    MaxSends = 8
    OLM_MAX_RECEIVER_CHAINS = 2
    OLM_MAX_SKIPPED_MESSAGE_KEYS = 2
    MAX_MESSAGE_GAP = 2
INVARIANTS
    SkippedKeysDecode
CHECK_DEADLOCK FALSE

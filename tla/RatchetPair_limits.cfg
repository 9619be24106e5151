\* The limits of the code, which this many messages do not reach.
SPECIFICATION FairSpec
CONSTANTS
    Alice = Alice
    Bob = Bob
    InitialSecret = InitialSecret
    MaxSends = 7
    OLM_MAX_RECEIVER_CHAINS = 5
    OLM_MAX_SKIPPED_MESSAGE_KEYS = 40
    MAX_MESSAGE_GAP = 2000
INVARIANTS
    NothingLost
PROPERTIES
    AllDelivered
CHECK_DEADLOCK FALSE

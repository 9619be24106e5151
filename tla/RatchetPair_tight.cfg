\* Every limit is small enough to be hit: two receiver chains, two skipped
\* keys, gaps of at most two messages.
SPECIFICATION Spec
CONSTANTS
    Alice = Alice
    Bob = Bob
    InitialSecret = InitialSecret
    MaxSends = 8
    OLM_MAX_RECEIVER_CHAINS = 2
    OLM_MAX_SKIPPED_MESSAGE_KEYS = 2
    MAX_MESSAGE_GAP = 2
INVARIANTS
    ForwardSecrecy
    NoReplay
    MessageKeysUnique
    NextMessageDecrypts
    SkippedKeysAreOwed
    LostOnlyToLimits
    IInv
PROPERTIES
    RepliesRatchetForward
    ImplementsChannel
CHECK_DEADLOCK FALSE

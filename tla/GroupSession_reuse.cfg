\* Objects are imported into again.
SPECIFICATION ReuseSpec
CONSTANTS
    MEGOLM_RATCHET_PARTS = 3
    PartRange = 2
    SenderKey = SenderKey
    NoKey = NoKey
    MaxMessages = 1
INVARIANTS
    VerifiedIsGenuine

\* Fewer messages than half the range of the counter.
SPECIFICATION Spec
CONSTANTS
    MEGOLM_RATCHET_PARTS = 3
    PartRange = 2
    SenderKey = SenderKey
    NoKey = NoKey
    MaxMessages = 4
INVARIANTS
    TypeOK
    HistoryDecrypts
    NothingBefore
    SenderForgets
    VerifiedIsGenuine
PROPERTIES
    UseKeepsHistory

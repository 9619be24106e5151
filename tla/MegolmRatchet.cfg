\* Four parts as in the code, four values of the counter's bits for each
\* instead of 256: every carry, every jump of less than a round, and the wrap.
SPECIFICATION Spec
CONSTANTS
    MEGOLM_RATCHET_PARTS = 4
    PartRange = 4
    MaxSteps = 511
INVARIANTS
    SenderFollowsDocument
    ReceiverFollowsDocument
PROPERTIES
    NoWayBack

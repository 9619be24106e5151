\* A list of two keys overflows; a key may be replaced and lost in every way.
SPECIFICATION Spec
CONSTANTS
    MAX_ONE_TIME_KEYS = 2
    MaxKeys = 4
INVARIANTS
    IdsUnique
    IInv
    UploadedKeysAnswer
    RehydratedIsSame

SPECIFICATION Spec
CONSTANTS
  JavaObjects = {o1, o2}
  MaxNative = 3
  Together = {"OlmAccount", "OlmSession"}
INVARIANTS
  BuffersReleased
  SecretsWiped
  KeysIntact
  InputsFresh
  FailureReported
  NoDangling
PROPERTIES
  OrphansKnown

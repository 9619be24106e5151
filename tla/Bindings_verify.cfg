\* A verification that could not be made.
SPECIFICATION Spec
CONSTANTS
  JavaObjects = {o1, o2}
  MaxNative = 3
  Together = {"OlmAccount", "OlmSession"}
INVARIANTS
  VerificationReported

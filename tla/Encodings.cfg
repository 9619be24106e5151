SPECIFICATION Spec
CONSTANTS
  CounterBits = 18
  LengthBits = 22
  MaxReceiverChains = 2
  MaxSkippedMessageKeys = 2
  MaxOneTimeKeys = 2
  TrailerLength = 2
  PickleKeys = {"k1", "k2"}
  Strings <- MCStrings
  Received <- MCReceived
  Objects <- MCObjects
  Before <- MCBefore
INVARIANTS
  MessagesArrive
  FieldsAsFramed
  PicklesRestored
  TornPicklesRefused

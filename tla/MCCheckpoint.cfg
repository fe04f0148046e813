CONSTANTS
  MaxRun = 4
  MaxGen = 3
  MaxVersion = 1
  Scopes <- MCScopes
SPECIFICATION Spec
INVARIANTS
  NeverTorn
  NoLostRequest
PROPERTIES
  InputNeverOlder
CHECK_DEADLOCK FALSE

SPECIFICATION Spec
CONSTANTS
  alice = alice
  bob = bob
  NoMsg = NoMsg
  Procs <- MCTwo
  ClientOf <- MCCrossedClient
  DstOf <- MCBothToOne
  MAX_CLIENTS_NUM = 2
  MaxAttempts = 1
  CodeSize <- MCOneEach
  CounterSize = 3
  MaxObjects = 1
  MaxMishaps = 0
INVARIANT ReadyForReading
CHECK_DEADLOCK FALSE

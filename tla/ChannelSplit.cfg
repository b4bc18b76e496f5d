SPECIFICATION Spec
CONSTANTS
  alice = alice
  bob = bob
  NoMsg = NoMsg
  Procs <- MCTwo
  ClientOf <- MCCrossedClient
  DstOf <- MCCrossedDst
  MAX_CLIENTS_NUM = 2
  MaxAttempts = 1
  CodeSize <- MCOneAndNone
  CounterSize = 3
  MaxObjects = 2
  MaxMishaps = 0
INVARIANT OneObject
CHECK_DEADLOCK FALSE

SPECIFICATION Spec
CONSTANTS
  alice = alice
  bob = bob
  NoMsg = NoMsg
  Procs <- MCTwo
  ClientOf <- MCCrossedClient
  DstOf <- MCCrossedDst
  MAX_CLIENTS_NUM = 2
  MaxAttempts = 2
  CodeSize <- MCTwoAndNone
  CounterSize = 3
  MaxObjects = 1
  MaxMishaps = 0
INVARIANT OkMeansPlaced
CHECK_DEADLOCK FALSE

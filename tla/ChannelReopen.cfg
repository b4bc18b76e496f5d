SPECIFICATION Spec
CONSTANTS
  alice = alice
  bob = bob
  NoMsg = NoMsg
  Procs <- MCTwo
  ClientOf <- MCCrossedClient
  DstOf <- MCCrossedDst
  MAX_CLIENTS_NUM = 2
  MaxAttempts = 1
  CodeSize <- MCTwoAndNone
  CounterSize = 2
  MaxObjects = 2
  MaxMishaps = 0
INVARIANTS
  MessageInv
  OrderInv
CHECK_DEADLOCK FALSE

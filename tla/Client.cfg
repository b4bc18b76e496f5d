SPECIFICATION ClientSpec
CONSTANTS
  alice = alice
  bob = bob
  NoMsg = NoMsg
  Nothing = Nothing
  Garbled = Garbled
  Procs <- MCTwo
  ClientOf <- MCCrossedClient
  DstOf <- MCCrossedDst
  MAX_CLIENTS_NUM = 2
  MaxAttempts = 1
  CodeSize <- MCThreeAndNone
  CounterSize = 2
  MaxObjects = 1
  MaxMishaps = 1
INVARIANTS
  TypeOK
  ChatInv
PROPERTY IsChat
CHECK_DEADLOCK FALSE

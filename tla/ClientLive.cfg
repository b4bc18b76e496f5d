SPECIFICATION FairClientSpec
CONSTANTS
  alice = alice
  bob = bob
  NoMsg = NoMsg
  Nothing = Nothing
  Garbled = Garbled
  Procs <- MCTwo
  ClientOf <- MCCrossedClient
  DstOf <- MCCrossedDst
  MAX_CLIENTS_NUM = 2
  MaxAttempts = 1
  CodeSize <- MCOneAndNone
  CounterSize = 2
  MaxObjects = 1
  MaxMishaps = 0
PROPERTIES
  SendReturns
  CloseEnds
  LineIsFreed
  ReadyIsShown
CHECK_DEADLOCK FALSE

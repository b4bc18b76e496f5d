SPECIFICATION Spec
CONSTANTS
  UsedIkbs = {2, 3}
  Cuts = {0, 2}
  Noises = {2}
  Messages <- MCLetters
  FirstStages <- MCStarted
  FirstCuts = {0}
  MaxChanges = 1
INVARIANTS
  TypeOK
  RoundTrip
  NotMisread
  RestoredDecodes
CHECK_DEADLOCK FALSE

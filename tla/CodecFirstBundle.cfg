SPECIFICATION Spec
CONSTANTS
  UsedIkbs = {1}
  Cuts = {0}
  Noises = {2}
  Messages <- MCLetters
  FirstStages <- MCStarted
  FirstCuts = {0}
  MaxChanges = 0
INVARIANT ErrorsAreFixed
CHECK_DEADLOCK FALSE

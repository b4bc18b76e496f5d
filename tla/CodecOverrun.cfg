SPECIFICATION Spec
CONSTANTS
  UsedIkbs = {2}
  Cuts = {0, 6}
  Noises = {0}
  Messages <- MCLetters
  FirstStages <- MCStarted
  FirstCuts = {0}
  MaxChanges = 1
INVARIANT TextFits
CHECK_DEADLOCK FALSE

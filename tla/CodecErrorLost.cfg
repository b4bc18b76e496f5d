SPECIFICATION FairSpec
CONSTANTS
  UsedIkbs = {2}
  Cuts = {0, 2}
  Noises = {0}
  Messages <- MCLetters
  FirstStages <- MCStarted
  FirstCuts = {0}
  MaxChanges = 1
PROPERTY ErrorIsShown
CHECK_DEADLOCK FALSE

SPECIFICATION FairSpec
CONSTANTS
  UsedIkbs = {1, 2}
  Cuts = {0, 10}
  Noises = {0}
  Messages <- MCLoopLetters
  FirstStages <- MCAnyStage
  FirstCuts = {10}
  MaxChanges = 1
INVARIANTS
  CutInForce
  RoundTrip
PROPERTIES
  LoopsEnd
  ShownInTheEnd
CHECK_DEADLOCK FALSE

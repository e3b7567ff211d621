CONSTANTS
  MaxRuns = 2
  MaxGenerations = 2
SPECIFICATION FairSpec
INVARIANTS TypeOK OneAction RevokedIsFinished ReportedOnce ObservedByNewFrames HandledIsReal
PROPERTIES FlightEnds RunSettles
CHECK_DEADLOCK FALSE

CONSTANTS
  g1 = g1  g2 = g2
  Gens = {g1}
  NoGen = NoGen
  Streams = {"none", "Provisioned", "Recovering"}
SPECIFICATION Spec
INVARIANT PlaybackNotDemoted
CHECK_DEADLOCK FALSE

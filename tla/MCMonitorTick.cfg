CONSTANTS
  g1 = g1  g2 = g2
  Gens = {g1}
  NoGen = NoGen
  Streams = {"none", "Provisioning", "ReadyToConnect", "Provisioned", "WaitingForResources", "Recovering", "Closing", "Failed", "Closed"}
SPECIFICATION FairSpec
INVARIANT StartTimeoutSparesPlayback
PROPERTIES LoopsEnd EndIsNoticed
CHECK_DEADLOCK FALSE

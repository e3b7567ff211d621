CONSTANTS
  g1 = g1  g2 = g2
  Gens = {g1}
  NoGen = NoGen
  Streams = {"Provisioned", "ReadyToConnect"}
SPECIFICATION Spec
PROPERTY TerminalAbsorbs
CHECK_DEADLOCK FALSE

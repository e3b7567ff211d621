CONSTANTS
  g1 = g1  g2 = g2
  Gens = {g1, g2}
  NoGen = NoGen
  Streams = {"Provisioned", "Closed"}
SPECIFICATION Spec
SYMMETRY Symmetry
INVARIANT FactsAreOwn
PROPERTY NeverResurrected
CHECK_DEADLOCK FALSE

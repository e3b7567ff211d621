CONSTANTS
  a1 = a1  a2 = a2  t1 = t1  t2 = t2  i1 = i1  i2 = i2  g1 = g1  g2 = g2
  Attempts = {a1}
  Targets = {t1}
  HomeTargets = {t1}
  Ids = {i1, i2}
  Gens = {g1, g2}
  TargetOf <- MCTargetOf
  NoGen = NoGen  NoId = NoId  NoAttempt = NoAttempt  NoTarget = NoTarget
  Capacity = 4
  ReuseIds = FALSE
SPECIFICATION FairStartupSpec
PROPERTIES CancelFreesTarget StartupEnds

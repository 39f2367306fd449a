SPECIFICATION Spec
CONSTANTS
  k1 = k1
  k2 = k2
  kC = kC
  g1 = g1
  g2 = g2
  t1 = t1
  t2 = t2
  Keys = {k1, k2, kC}
  LowerKeys = {k1, k2}
  Names = {g1, g2}
  Tabs = {t1, t2}
  Seed <- SeedFile
  Reseed = FALSE
  MaxOpens = 3
  MaxCrashes = 1
SYMMETRY TabKeySymmetry
CHECK_DEADLOCK FALSE
INVARIANT TypeOK
INVARIANT RenameKeepsRepo
INVARIANT SaveReconciles
INVARIANT HumanWins

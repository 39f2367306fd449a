SPECIFICATION Spec
CONSTANTS
  token = token
  memory = memory
  model = model
  v1 = v1
  v2 = v2
  t1 = t1
  t2 = t2
  Secrets = {token}
  Settings = {memory, model}
  Values = {v1, v2}
  Default <- Catalog
  Deployed <- FirstBoot
  Reseed = FALSE
  Tabs = {t1, t2}
  MaxSaves = 3
  MaxExports = 1
  MaxBoots = 2
SYMMETRY TabSymmetry
CHECK_DEADLOCK FALSE
INVARIANT TypeOK
INVARIANT EnteredIsKept
INVARIANT BundleRestores

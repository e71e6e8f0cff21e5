CONSTANTS
  s1 = s1
  s2 = s2
  g1 = g1
  g2 = g2
  k1 = k1
  c1 = c1
  c2 = c2
  l1 = l1
  l2 = l2
  l3 = l3
  seed = seed
  Slots = {s1, s2}
  Gateways = {g1, g2}
  Schools = {k1}
  Codes = {c1, c2}
  Logos = {seed, l1, l2, l3}
  SeedLogo = seed
  MaxFaults = 1
SPECIFICATION Spec
CONSTRAINT OneTable
SYMMETRY CatalogueSymmetry
INVARIANTS
  TypeOK
  LogoExists
  EndsByRaceOrSeed
  DeletedStaysDeleted
CHECK_DEADLOCK FALSE

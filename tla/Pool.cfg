CONSTANTS
  s1 = s1
  s2 = s2
  s3 = s3
  c1 = c1
  c2 = c2
  c3 = c3
  Free = Free
  Lost = Lost
  Slots = {s1, s2, s3}
  Conns = {c1, c2, c3}
  MaxRenewals = 1
  MaxLost = 1
SPECIFICATION FairSpec
INVARIANTS
  TypeOK
  EndedHoldsNothing
  SomeoneGoesOn
PROPERTIES
  RequestsEnd

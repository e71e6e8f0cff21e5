CONSTANTS
  s1 = s1
  s2 = s2
  s3 = s3
  u1 = u1
  u2 = u2
  first = first
  second = second
  third = third
  Slots = {s1, s2}
  Users = {u1, u2}
  Plain = {first, second, third}
  First = first
  Limit = 7
  MaxHashes = 2
  MaxEdits = 1
  MaxFaults = 1
SPECIFICATION Spec
SYMMETRY Symmetry
INVARIANTS
  TypeOK
  HashedOnce
  ResetByOwnMail
  UsedHashIsDead
  ResetsDoNotRevert

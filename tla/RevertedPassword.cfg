CONSTANTS
  s1 = s1
  s2 = s2
  s3 = s3
  u1 = u1
  u2 = u2
  first = first
  second = second
  third = third
  Slots = {s1, s2}
  Users = {u1}
  Plain = {first, second}
  First = first
  Limit = 7
  MaxHashes = 1
  MaxEdits = 1
  MaxFaults = 0
SPECIFICATION Spec
INVARIANTS
  ReplacedStaysReplaced

CONSTANTS
  s1 = s1
  s2 = s2
  e1 = e1
  e2 = e2
  p1 = p1
  Slots = {s1, s2}
  Emails = {e1, e2}
  Phones = {p1}
  OtpExpires = 1
  UserExpires = 2
  MaxHashes = 3
  MaxTime = 2
  MaxFaults = 1
SPECIFICATION Spec
SYMMETRY Symmetry
INVARIANTS
  TypeOK
  OtpHasData
  ConfirmedByOwnMail
  OneUserPerPerson
  TokenIsUsable

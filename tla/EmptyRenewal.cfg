CONSTANTS
  s1 = s1
  s2 = s2
  s3 = s3
  i1 = i1
  i2 = i2
  i3 = i3
  Slots = {s1, s2}
  Invoices = {i1, i2, i3}
  Prefixes = {"01A"}
  MaxBatch = 1
  MaxSeq = 3
  RegisterPrice = 1
  EventSetting <- MCEventSetting
  Gateway <- MCGateway
  MaxPayments = 4
  MaxFaults = 0
SPECIFICATION Spec
INVARIANTS
  RegeneratedForSomeone

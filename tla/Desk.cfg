CONSTANTS
  s1 = s1
  s2 = s2
  i1 = i1
  i2 = i2
  Slots = {s1, s2}
  Invoices = {i1, i2}
  Prefixes = {"01A"}
  MaxBatch = 2
  MaxSeq = 2
  RegisterPrice = 1
  EventSetting <- MCEventSetting
  Gateway <- MCGateway
  MaxPayments = 3
  MaxFaults = 1
  MaxEdits = 1
SPECIFICATION DeskSpec
SYMMETRY SlotAndInvoiceSymmetry
INVARIANTS
  DeskTypeOK
  OnlyEditedDiffer
  EditedArePaidFor
  RoomIsTold
PROPERTIES
  HeardInTheRoom

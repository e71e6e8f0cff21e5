CONSTANTS
  MaxLength = 14
  RegisterPrice = 55
  Settings <- MCSettings
  Gateways <- MCGateways
SPECIFICATION Spec
INVARIANTS
  PriceCountsPaying
  FeeIsNearest
CHECK_DEADLOCK FALSE

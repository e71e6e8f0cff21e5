CONSTANTS
  s1 = s1
  s2 = s2
  s3 = s3
  v1 = v1
  v2 = v2
  None = None
  Slots = {s1, s2, s3}
  Values = {v1, v2}
  MaxSaves = 3
  MaxFaults = 1
SPECIFICATION Spec
SYMMETRY SettingSymmetry
INVARIANTS
  TypeOK
  StaleOnlyByOverlap
  TokenCheckIsCurrent
  KilledOnlyWithoutSetting

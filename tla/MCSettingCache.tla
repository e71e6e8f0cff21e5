--------------------------- MODULE MCSettingCache ---------------------------
(* SettingCache with the values TLC checks it for. *)
EXTENDS SettingCache, TLC

CONSTANTS s1, s2, s3, v1, v2

SettingSymmetry == Permutations(Slots) \cup Permutations(Values)
=============================================================================

--------------------------- MODULE MCRegistration ---------------------------
(* Registration with the values TLC checks it for. *)
EXTENDS Registration, TLC

CONSTANTS s1, s2, e1, e2, p1

Symmetry == Permutations(Slots) \cup Permutations(Emails)
=============================================================================

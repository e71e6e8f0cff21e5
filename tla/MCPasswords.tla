----------------------------- MODULE MCPasswords -----------------------------
(* Passwords with the values TLC checks it for. *)
EXTENDS Passwords, TLC

CONSTANTS s1, s2, s3, u1, u2, first, second, third

Symmetry == Permutations(Slots) \cup Permutations(Users)
              \cup Permutations(Plain \ {First})
=============================================================================

---------------------------- MODULE MCCatalogue ----------------------------
(* Catalogue with the values TLC checks it for. *)
EXTENDS Catalogue, TLC

CONSTANTS s1, s2, g1, g2, k1, c1, c2, l1, l2, l3, seed

CatalogueSymmetry ==
  Permutations(Slots) \cup Permutations(Gateways) \cup Permutations(Schools)
    \cup Permutations(Codes) \cup Permutations(Logos \ {SeedLogo})

(* No step reads or writes rows of both tables, so TLC does not go on where
   both have some: it follows the gateways without a school, and the school
   without a gateway.                                                      *)
OneTable ==
  \/ \A g \in Gateways : rows[g] = Unused
  \/ \A k \in Schools : rows[k] = Unused
=============================================================================

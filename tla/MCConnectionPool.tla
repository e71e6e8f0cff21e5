--------------------------- MODULE MCConnectionPool ---------------------------
(* ConnectionPool with the values TLC checks it for. *)
EXTENDS ConnectionPool

CONSTANTS s1, s2, s3, c1, c2, c3
=============================================================================

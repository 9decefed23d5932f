------------------------------ MODULE MCPkRsa -------------------------------
(***************************************************************************)
(* Small instances of PkRsa.                                               *)
(***************************************************************************)
EXTENDS PkRsaRefinement, TLC

CONSTANTS k1, k2, k3

\* A key whose modulus does not fill its last byte, one whose modulus does,
\* and one too long for pub_raw.
MCModulusBits == [k \in Key |-> IF k = k1 THEN 15 ELSE IF k = k2 THEN 24 ELSE 32]

Symmetry == Permutations(Pk) \cup Permutations(Rsa)
=============================================================================

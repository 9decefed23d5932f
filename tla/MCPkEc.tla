------------------------------- MODULE MCPkEc --------------------------------
(***************************************************************************)
(* Small instances of Ecdh, and so of PkEc and PkRsa: one RSA key, an EC   *)
(* key on a curve of the build and one on a curve that it does not have.   *)
(***************************************************************************)
EXTENDS Ecdh, TLC

CONSTANTS k1, q1, q2, g1

MCModulusBits == [k \in Key |-> 24]
MCGroupOf     == [k \in EcKey |-> IF k = q1 THEN g1 ELSE NoGroup]

Symmetry == Permutations(Pk) \cup Permutations(Rsa) \cup Permutations(Ec)
=============================================================================

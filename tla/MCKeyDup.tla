------------------------------ MODULE MCKeyDup -------------------------------
(***************************************************************************)
(* Two keys with moduli of different sizes for KeyDup.                     *)
(***************************************************************************)
EXTENDS KeyDup, TLC

CONSTANTS k1, k2

MCModulusBits == [k \in Key |-> IF k = k1 THEN 15 ELSE 24]
=============================================================================

---------------------------- MODULE MCKeyWriter -----------------------------
(***************************************************************************)
(* Small instances of KeyWriter.                                           *)
(***************************************************************************)
EXTENDS KeyWriter

CONSTANTS k1, k2, k3

\* The DER of k1 takes half the buffer of the PEM writer, that of k2 more, and
\* that of k3 does not fit in it.
MCModulusBits == [k \in Key |-> IF k = k1 THEN 15 ELSE IF k = k2 THEN 24 ELSE 40]
=============================================================================

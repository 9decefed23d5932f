-------------------------------- MODULE Ecdh ---------------------------------
(***************************************************************************)
(* Key exchange with the key pairs of PkEc: legacy code takes the group    *)
(* and the private number of the pair that mbedtls_pk_ec gives it to       *)
(* mbedtls_ecdh_compute_shared of src/src/ecdh.c, with a point that the    *)
(* other side sent.                                                        *)
(*                                                                         *)
(* A point is the public point of a key, Zero, or Small, which stands for  *)
(* the points of small order that a curve with a cofactor has.             *)
(***************************************************************************)
EXTENDS PkEc

CONSTANT Small  \* a point of small order

ASSUME EcdhAssumption == Small \notin EcKey \cup {Null, Zero}

VARIABLE last   \* the last call, if it was an mbedtls_ecdh_compute_shared that succeeded

ecdhVars == <<pk, heap, cache, out, ecOf, ecHeap, ecCache, last>>

Point == EcKey \cup {Zero, Small}

NotEcdh == [pk |-> Null, Q |-> Null, P |-> Null]

-----------------------------------------------------------------------------
IsOnCurve(Q, g) == Q = Small \/ (Q \in EcKey /\ GroupOf[Q] = g)

\* What the external mbedtls_ecp_mul_restartable makes of the number of the
\* pair c and the point Q: it refuses a pair without group or number and a
\* point that is not on the curve.  A point of small order is multiplied to
\* Zero or to another; the product of two keys is the same for both sides.
Products(c, Q) ==
  When(c.grp # NoGroup /\ c.d # Zero /\ IsOnCurve(Q, c.grp),
       IF Q = Small THEN {Zero, Small} ELSE {{c.d, Q}})

\* Mutant: the product is not looked at.
NoPoint(P) == FALSE

is_zero(P) == P = Zero

\* The points whose X the caller may be given; Null is a call that fails.
mbedtls_ecdh_compute_shared(c, Q) ==
  LET products == Products(c, Q)
      fails    == MayFail \/ products = {} \/ \E P \in products : is_zero(P)
  IN  {P \in products : ~is_zero(P)} \cup When(fails, {Null})

ComputeShared(e) ==
  /\ \E Q \in Point : \E P \in mbedtls_ecdh_compute_shared(ecHeap[e.ec], Q) :
       last' = IF P = Null THEN NotEcdh ELSE [pk |-> e.pk, Q |-> Q, P |-> P]
  /\ out' = Quiet
  /\ UNCHANGED <<pk, heap, cache, ecVars>>

-----------------------------------------------------------------------------
EcdhInit == EcInit /\ last = NotEcdh

EcdhNext ==
  \/ EcNext /\ last' = NotEcdh
  \/ \E e \in ecCache : ComputeShared(e)

EcdhSpec == EcdhInit /\ [][EcdhNext]_ecdhVars

-----------------------------------------------------------------------------
(* Properties.                                                             *)

\* A secret that is computed with the pair of a pk context is the one of the
\* key in its PSA slot and the point of the other side: not of a key that was
\* at the address before, not of the empty pair or the public half that a caller
\* of mbedtls_pk_ec can be given, and not the zero point, which is what a point
\* of small order can give with the right key.
SecretIsOfTheKey ==
  LET x == ecOf[last.pk]
  IN  last.P \notin {Null, Small} /\ HasEcKey(x) => last.P = {x.priv, last.Q}
=============================================================================

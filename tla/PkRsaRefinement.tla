--------------------------- MODULE PkRsaRefinement ---------------------------
(***************************************************************************)
(* PkRsa implements LegacyPk: materialization is invisible.  The context   *)
(* that a pk context owns is the cached one and, before it is materialized,*)
(* the one that its PSA slot or pub_raw stands for.                        *)
(***************************************************************************)
EXTENDS PkRsa

\* The RSA key that the pk context x stands for while nothing is cached.
Unmaterialized(x) ==
  CASE x.priv # Null -> PrivateCtx(x.priv)
    [] x.priv = Null /\ x.pub # Null ->
         [mpi |-> [f \in Field |-> IF f \in {"N", "E"} THEN x.pub ELSE Zero],
          len |-> Size(x.pub)]
    [] OTHER -> EmptyCtx

OwnedContexts ==
  [p \in Pk |->
     IF ~pk_is_rsa(pk[p]) THEN Free
     ELSE IF IsCached(p) THEN heap[(CHOOSE e \in cache : e.pk = p).rsa]
     ELSE Unmaterialized(pk[p])]

Legacy == INSTANCE LegacyPk WITH own <- OwnedContexts, Absent <- Free

\* What legacy code sees of pk_rsa.c is what it would see if each pk context
\* simply owned an RSA context: whenever a context is materialized, from
\* whichever source, after whichever failures, every call that uses a key
\* uses the one that belongs to its pk context (mbedtls_v3_shim_pk_rsa and
\* the calls of pk.h that lead to it).
ImplementsLegacyPk == Legacy!Spec
=============================================================================

------------------------------ MODULE LegacyPk ------------------------------
(***************************************************************************)
(* What legacy code expects of its pk contexts, as the mbedtls v3          *)
(* interface had them and as the shim promises them again: each RSA pk     *)
(* context owns one transparent RSA context from mbedtls_pk_setup or       *)
(* mbedtls_pk_parse_key to mbedtls_pk_free; only imports into it and its   *)
(* completion change it; and whatever answers a call answers with the key  *)
(* in it.  There is no cache, no PSA slot and no pub_raw.                  *)
(***************************************************************************)
EXTENDS RsaContext

CONSTANTS
  Pk,       \* addresses of pk contexts
  Null,     \* the absence of a key or of a pk context
  Absent,   \* the content of a pk context that holds no RSA key
  Imports   \* sets of components that callers import together

VARIABLES
  own,      \* own[p] is the RSA context of p, or Absent
  out       \* what the last call told its caller

vars == <<own, out>>

PublicCtx(k) ==
  [mpi |-> [f \in Field |-> IF f \in {"N", "E"} THEN k ELSE Zero],
   len |-> Size(k)]

HoldsKey(c) == c # Absent /\ Have(c, "N") /\ Have(c, "E")

Say(op, p, rc, k) == out' = [op |-> op, pk |-> p, rc |-> rc, key |-> k]
SayNothing        == Say("none", Null, "ok", Null)

-----------------------------------------------------------------------------
\* A context that is empty, to be filled by imports.
Setup(p) ==
  /\ own[p] = Absent
  /\ own' = [own EXCEPT ![p] = EmptyCtx]
  /\ SayNothing

Parse(p) ==
  /\ own[p] = Absent
  /\ \E k \in Key : \/ own' = [own EXCEPT ![p] = PrivateCtx(k)]
                    \/ own' = [own EXCEPT ![p] = PublicCtx(k)]
  /\ SayNothing

Import(p) ==
  /\ own[p] # Absent
  /\ \E k \in Key, S \in Imports :
       \E o \in mbedtls_rsa_import(own[p], PartsOf(k), S)
                  \cup mbedtls_rsa_import_raw(own[p], PartsOf(k), S) :
         own' = [own EXCEPT ![p] = o.ctx]
  /\ SayNothing

\* A completion that succeeds tells which public key verifies from now on.
Complete(p) ==
  /\ own[p] # Absent
  /\ \E o \in mbedtls_rsa_complete(own[p]) :
       /\ own' = [own EXCEPT ![p] = o.ctx]
       /\ IF o.ok THEN Say("complete", p, "ok", PublicOf(o.ctx))
                  ELSE Say("complete", p, "error", Null)

\* A call that reads p says nothing of the key, or uses the key in its own
\* context.  It never changes the context, and it may fail.
Read(p) ==
  /\ own[p] # Absent
  /\ \/ SayNothing
     \/ \E op \in {"verify", "sign", "encrypt", "decrypt"} :
          \/ \E rc \in {"error", "length"} : Say(op, p, rc, Null)
          \/ \E k \in Key \cup {Zero, Junk} :
               /\ HoldsKey(own[p]) => k = PublicOf(own[p])
               /\ Say(op, p, "ok", k)
  /\ UNCHANGED own

Release(p) ==
  /\ own' = [own EXCEPT ![p] = Absent]
  /\ SayNothing

\* A call on a context without an RSA key.
NotRsa(p) == own[p] = Absent /\ SayNothing /\ UNCHANGED own

-----------------------------------------------------------------------------
Init ==
  /\ own = [p \in Pk |-> Absent]
  /\ out = [op |-> "none", pk |-> Null, rc |-> "ok", key |-> Null]

Next ==
  \E p \in Pk : \/ Setup(p) \/ Parse(p) \/ Import(p) \/ Complete(p)
                \/ Read(p) \/ Release(p) \/ NotRsa(p)

Spec == Init /\ [][Next]_vars
=============================================================================

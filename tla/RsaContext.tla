----------------------------- MODULE RsaContext -----------------------------
(***************************************************************************)
(* The progressive construction of an mbedtls_rsa_context: the operations  *)
(* mbedtls_rsa_import, mbedtls_rsa_import_raw and mbedtls_rsa_complete of  *)
(* src/src/rsa_import_export.c, as operators from a context to the set of  *)
(* outcomes a call on it can have.                                         *)
(*                                                                         *)
(* A multi-precision integer is abstracted to what it is: a component of   *)
(* the key k (the value k), the number 0 (Zero), or a number that belongs  *)
(* to no key (Junk).  DP, DQ and QP are the one field "CRT", which is Zero *)
(* unless all three are set: rsa_complete reads them only together.        *)
(***************************************************************************)
EXTENDS Integers

CONSTANTS
  Key,          \* the RSA keys
  Zero,         \* the integer 0: a component that is not set
  Junk,         \* a non-zero integer that is no component of any key
  ModulusBits,  \* ModulusBits[k] is the bit length of the modulus of k
  MpiMaxSize,   \* MBEDTLS_MPI_MAX_SIZE
  MayFail       \* whether memory and PSA calls can fail

ASSUME RsaContextAssumption ==
  /\ Zero \notin Key
  /\ Junk \notin Key
  /\ Zero # Junk
  /\ ModulusBits \in [Key -> Nat \ {0}]
  /\ MpiMaxSize \in Nat
  /\ MayFail \in BOOLEAN

Part  == {"N", "P", "Q", "D", "E"}     \* what a caller can import
Field == Part \cup {"CRT"}
Value == Key \cup {Zero, Junk}
Ctx   == [mpi : [Field -> Value], len : Nat]
Outcome == [ctx : Ctx, ok : BOOLEAN]

-----------------------------------------------------------------------------
(* Sizes: mbedtls_mpi_bitlen and mbedtls_mpi_size.  The size of a Junk     *)
(* modulus matters to nothing but the comparison of len with it.           *)

Bits(v) == IF v \in Key THEN ModulusBits[v] ELSE IF v = Junk THEN 1 ELSE 0
Size(v) == (Bits(v) + 7) \div 8

Have(c, f) == c.mpi[f] # Zero

\* The context after mbedtls_rsa_init, and after a successful
\* mbedtls_rsa_parse_key of a private key.
EmptyCtx      == [mpi |-> [f \in Field |-> Zero], len |-> 0]
PrivateCtx(k) == [mpi |-> [f \in Field |-> k], len |-> Size(k)]

\* What an RSAPublicKey structure written from the context says.
PublicOf(c) == IF c.mpi["N"] = c.mpi["E"] THEN c.mpi["N"] ELSE Junk

Done(c)   == [ctx |-> c, ok |-> TRUE]
Failed(c) == [ctx |-> c, ok |-> FALSE]

\* The outcomes S when the condition b holds, none otherwise.
When(b, S) == IF b THEN S ELSE {}

\* The context c with v in every field of F.
Put(c, F, v) == [c EXCEPT !.mpi = [f \in Field |-> IF f \in F THEN v ELSE @[f]]]

\* The context c with len set to n.
SetLen(c, n) == [c EXCEPT !.len = n]

-----------------------------------------------------------------------------
(* Import.  The components of S are copied in the order N, P, Q, D, E; a   *)
(* copy that fails ends the call, and what was copied before it stays.     *)

\* What a caller has who gives the components of the key k.
PartsOf(k) == [f \in Part |-> k]

\* The context c with the components F of what the caller has.
Copy(c, F, given) ==
  [c EXCEPT !.mpi = [f \in Field |-> IF f \in F THEN given[f] ELSE @[f]]]

Rank == [f \in Part |->
           CASE f = "N" -> 1 [] f = "P" -> 2 [] f = "Q" -> 3
             [] f = "D" -> 4 [] OTHER -> 5]

Before(S, f) == {g \in S : Rank[g] < Rank[f]}

\* mbedtls_rsa_import sets len only after every copy has succeeded.
mbedtls_rsa_import(c, given, S) ==
  LET all == Copy(c, S, given)
  IN  {Done(IF "N" \in S THEN SetLen(all, Size(given["N"])) ELSE all)}
        \cup When(MayFail, {Failed(Copy(c, Before(S, f), given)) : f \in S})

\* mbedtls_rsa_import_raw sets len as soon as N is read.  A read that fails
\* may leave its target as it was or empty.
mbedtls_rsa_import_raw(c, given, S) ==
  LET Read(F) == IF "N" \in F THEN SetLen(Copy(c, F, given), Size(given["N"]))
                              ELSE Copy(c, F, given)
  IN  {Done(Read(S))}
        \cup When(MayFail, {Failed(Read(Before(S, f))) : f \in S})
        \cup When(MayFail, {Failed(Put(Read(Before(S, f)), {f}, Zero)) : f \in S})

-----------------------------------------------------------------------------
(* Complete.                                                               *)

NMissing(c)  == Have(c, "P") /\ Have(c, "Q") /\ Have(c, "D") /\ Have(c, "E")
PQMissing(c) == /\ Have(c, "N") /\ Have(c, "D") /\ Have(c, "E")
                /\ ~Have(c, "P") /\ ~Have(c, "Q")
DMissing(c)  == Have(c, "P") /\ Have(c, "Q") /\ ~Have(c, "D") /\ Have(c, "E")
\* Mutant: a modulus and an exponent are taken for a public key.
IsPubUnchecked(c) == Have(c, "N") /\ Have(c, "E")

IsPub(c)     == /\ Have(c, "N") /\ Have(c, "E")
                /\ ~Have(c, "P") /\ ~Have(c, "Q") /\ ~Have(c, "D")
IsPriv(c)    == NMissing(c) \/ PQMissing(c) \/ DMissing(c)

\* The key all fields of F belong to, or Junk when there is none.
KeyOf(c, F) ==
  IF \E k \in Key : \A f \in F : c.mpi[f] = k
    THEN CHOOSE k \in Key : \A f \in F : c.mpi[f] = k
    ELSE Junk

\* A computation fails when memory runs out, and may fail when its inputs do
\* not belong to one key.
ComputationFails(v) == MayFail \/ v = Junk

\* Mutant: N is computed again when it is there.
DeduceNAgain(c) ==
  IF ~Have(c, "P") \/ ~Have(c, "Q")
    THEN {Done(c)}
    ELSE LET n == KeyOf(c, {"P", "Q"})
         IN  {Done(SetLen(Put(c, {"N"}, n), Size(n)))}
               \cup When(MayFail, {Failed(c)})

\* N = P * Q; a product is always defined.
DeduceN(c) ==
  IF Have(c, "N") \/ ~Have(c, "P") \/ ~Have(c, "Q")
    THEN {Done(c)}
    ELSE LET n == KeyOf(c, {"P", "Q"})
         IN  {Done(SetLen(Put(c, {"N"}, n), Size(n)))}
               \cup When(MayFail, {Failed(c)})

\* rsa_deduce_primes uses P for every gcd and Q for the Montgomery constant
\* of mbedtls_mpi_exp_mod, and does not clear them when it fails.  P is then
\* untouched, a gcd of no interest, or (when the last division fails) the
\* prime itself; Q is untouched or the constant.  The code also refuses a P or
\* a Q that is 0 but has memory; here the search may go on with such a one.
rsa_deduce_primes(c) ==
  LET k == KeyOf(c, {"N", "D", "E"})
      Leaving(p, q) == Failed(Put(Put(c, {"P"}, p), {"Q"}, q))
  IN  When(k # Junk, {Done(Put(c, {"P", "Q"}, k))})
        \cup When(ComputationFails(k),
                  {Failed(c), Leaving(Junk, Zero), Leaving(Junk, Junk), Leaving(k, Junk)})

\* The external mbedtls_rsa_deduce_private_exponent.  It computes a gcd in D
\* before the exponent, and a failure after that leaves the gcd there.
DeduceD(c) ==
  LET k == KeyOf(c, {"P", "Q", "E"})
  IN  {Done(Put(c, {"D"}, k))}
        \cup When(ComputationFails(k), {Failed(c), Failed(Put(c, {"D"}, Junk))})

\* The external mbedtls_rsa_deduce_crt.
DeduceCrt(c) ==
  LET k == KeyOf(c, {"P", "Q", "D"})
  IN  {Done(Put(c, {"CRT"}, k))}
        \cup When(ComputationFails(k), {Failed(c)})

\* rsa_check_context(ctx, priv, 1).  Whether a Junk number is odd is open.
rsa_check_context(c, priv) ==
  LET odd    == IF priv THEN {"N", "P", "Q"} ELSE {"N"}
      needed == IF priv THEN {"N", "P", "Q", "E", "CRT"} ELSE {"N", "E"}
      passes == /\ c.len = Size(c.mpi["N"])
                /\ c.len <= MpiMaxSize
                /\ \A f \in needed : Have(c, f)
      sure   == \A f \in odd : c.mpi[f] # Junk
  IN  When(passes, {Done(c)}) \cup When(~(passes /\ sure), {Failed(c)})

\* What is missing is decided once, on the context as the caller left it.
DeduceMissing(c, d) ==
  IF PQMissing(c) THEN rsa_deduce_primes(d)
  ELSE IF DMissing(c) THEN DeduceD(d)
  ELSE {Done(d)}

DeduceCrtIfMissing(c, d) ==
  IF IsPriv(c) /\ ~Have(c, "CRT") THEN DeduceCrt(d) ELSE {Done(d)}

CompleteN(c)   == DeduceN(c)
CompletePQD(c) == UNION {IF o.ok THEN DeduceMissing(c, o.ctx) ELSE {o} :
                           o \in CompleteN(c)}
CompleteCrt(c) == UNION {IF o.ok THEN DeduceCrtIfMissing(c, o.ctx) ELSE {o} :
                           o \in CompletePQD(c)}

mbedtls_rsa_complete(c) ==
  IF ~IsPriv(c) /\ ~IsPub(c)
    THEN {Failed(c)}
    ELSE UNION {IF o.ok THEN rsa_check_context(o.ctx, IsPriv(c)) ELSE {o} :
                  o \in CompleteCrt(c)}

-----------------------------------------------------------------------------
\* The context is the whole of k, or a public key: k with no private component
\* a caller can export.
Coherent(c, k) ==
  /\ c.mpi["N"] = k /\ c.mpi["E"] = k /\ c.len = Size(k)
  /\ \/ \A f \in Field : c.mpi[f] = k
     \/ \A f \in {"P", "Q", "D"} : c.mpi[f] = Zero
=============================================================================

-------------------------- MODULE RsaContextProofs --------------------------
(***************************************************************************)
(* What the operations of RsaContext return: an import or a completion     *)
(* turns an RSA context into an RSA context, for any set of keys; a        *)
(* completion of components of one key that succeeds gives that key; and   *)
(* no attempt, after however many failed ones, brings in another key.      *)
(***************************************************************************)
EXTENDS RsaContext, TLAPS

\* The size of a number is a natural number.
LEMMA SizeType ==
  ASSUME NEW v \in Value
  PROVE  Bits(v) \in Nat /\ Size(v) \in Nat
<1>1. Bits(v) \in Nat
  BY RsaContextAssumption DEF Bits, Value
<1> QED
  BY <1>1 DEF Size

\* A context that gets a value in some fields, with len kept or set.
LEMMA PutType ==
  ASSUME NEW c \in Ctx, NEW F, NEW v \in Value
  PROVE  /\ Put(c, F, v) \in Ctx
         /\ \A n \in Nat : SetLen(Put(c, F, v), n) \in Ctx
         /\ Put(c, F, v).len = c.len
         /\ \A f \in Field : Put(c, F, v).mpi[f] = IF f \in F THEN v ELSE c.mpi[f]
  BY DEF Put, SetLen, Ctx

\* The same of several values.
LEMMA CopyType ==
  ASSUME NEW c \in Ctx, NEW F \in SUBSET Part, NEW given \in [Part -> Value]
  PROVE  /\ Copy(c, F, given) \in Ctx
         /\ \A n \in Nat : SetLen(Copy(c, F, given), n) \in Ctx
  BY DEF Copy, SetLen, Ctx

LEMMA PartsType ==
  ASSUME NEW k \in Key
  PROVE  PartsOf(k) \in [Part -> Value]
  BY DEF PartsOf, Value

LEMMA NewContextTypes ==
  /\ EmptyCtx \in Ctx
  /\ \A k \in Key : PrivateCtx(k) \in Ctx
<1>1. EmptyCtx \in Ctx
  BY DEF EmptyCtx, Ctx, Value
<1>2. ASSUME NEW k \in Key PROVE PrivateCtx(k) \in Ctx
  <2>1. k \in Value /\ Size(k) \in Nat
    BY SizeType DEF Value
  <2> QED
    BY <2>1 DEF PrivateCtx, Ctx
<1> QED
  BY <1>1, <1>2

\* An outcome is a context and whether the call succeeded.
LEMMA OutcomeType ==
  ASSUME NEW c \in Ctx
  PROVE  /\ Done(c) \in Outcome /\ Failed(c) \in Outcome
         /\ Done(c).ok = TRUE /\ Failed(c).ok = FALSE
         /\ Done(c).ctx = c /\ Failed(c).ctx = c
  BY DEF Done, Failed, Outcome

-----------------------------------------------------------------------------
\* What is copied before f is some of what is to be copied.
LEMMA BeforeType ==
  ASSUME NEW S \in SUBSET Part, NEW f
  PROVE  Before(S, f) \in SUBSET Part
  BY DEF Before

\* mbedtls_rsa_import leaves a context, however far it comes.
LEMMA ImportType ==
  ASSUME NEW c \in Ctx, NEW given \in [Part -> Value], NEW S \in SUBSET Part
  PROVE  mbedtls_rsa_import(c, given, S) \subseteq Outcome
<1> DEFINE all == Copy(c, S, given)
           left(f) == Copy(c, Before(S, f), given)
           size == Size(given["N"])
<1>1. size \in Nat
  BY SizeType DEF Part
<1>2. all \in Ctx /\ SetLen(all, size) \in Ctx
  BY <1>1, CopyType
<1>3. \A f \in S : left(f) \in Ctx
  BY BeforeType, CopyType
<1> HIDE DEF all, left, size
<1>4. /\ Done(all) \in Outcome
      /\ Done(SetLen(all, size)) \in Outcome
      /\ \A f \in S : Failed(left(f)) \in Outcome
  BY <1>2, <1>3, OutcomeType
<1> USE DEF all, left, size
<1> QED
  BY <1>4 DEF mbedtls_rsa_import, When

\* So does mbedtls_rsa_import_raw.
LEMMA ImportRawType ==
  ASSUME NEW c \in Ctx, NEW given \in [Part -> Value], NEW S \in SUBSET Part
  PROVE  mbedtls_rsa_import_raw(c, given, S) \subseteq Outcome
<1> DEFINE Read(F) == IF "N" \in F THEN SetLen(Copy(c, F, given), Size(given["N"]))
                                   ELSE Copy(c, F, given)
           left(f) == Read(Before(S, f))
           lost(f) == Put(left(f), {f}, Zero)
<1>1. Size(given["N"]) \in Nat /\ Zero \in Value
  BY SizeType DEF Part, Value
<1>2. ASSUME NEW F \in SUBSET Part PROVE Read(F) \in Ctx
  BY <1>1, CopyType
<1>3. \A f \in S : left(f) \in Ctx
  BY <1>2, BeforeType
<1>4. \A f \in S : lost(f) \in Ctx
  <2> HIDE DEF left
  <2> QED
    BY <1>1, <1>3, PutType
<1>5. Read(S) \in Ctx
  BY <1>2
<1>6. mbedtls_rsa_import_raw(c, given, S) =
        {Done(Read(S))}
          \cup When(MayFail, {Failed(left(f)) : f \in S})
          \cup When(MayFail, {Failed(lost(f)) : f \in S})
  BY DEF mbedtls_rsa_import_raw
<1> HIDE DEF Read, left, lost
<1>7. Done(Read(S)) \in Outcome
  BY <1>5, OutcomeType
<1>8. \A f \in S : Failed(left(f)) \in Outcome /\ Failed(lost(f)) \in Outcome
  BY <1>3, <1>4, OutcomeType
<1> QED
  BY <1>6, <1>7, <1>8 DEF When

-----------------------------------------------------------------------------
\* A computed component is a number.
LEMMA KeyOfType ==
  ASSUME NEW c \in Ctx, NEW F
  PROVE  KeyOf(c, F) \in Key \cup {Junk} /\ KeyOf(c, F) \in Value
  BY DEF KeyOf, Value

\* Each stage of mbedtls_rsa_complete leaves a context.
LEMMA DeduceTypes ==
  ASSUME NEW c \in Ctx
  PROVE  /\ DeduceN(c) \subseteq Outcome
         /\ rsa_deduce_primes(c) \subseteq Outcome
         /\ DeduceD(c) \subseteq Outcome
         /\ DeduceCrt(c) \subseteq Outcome
<1>0. Done(c) \in Outcome /\ Failed(c) \in Outcome
  BY OutcomeType
<1>1. DeduceN(c) \subseteq Outcome
  <2> DEFINE n == KeyOf(c, {"P", "Q"})
             d == SetLen(Put(c, {"N"}, n), Size(n))
  <2>1. d \in Ctx
    <3>1. n \in Value /\ Size(n) \in Nat
      BY KeyOfType, SizeType
    <3> HIDE DEF n
    <3> QED
      BY <3>1, PutType
  <2> HIDE DEF d
  <2>2. Done(d) \in Outcome
    BY <2>1, OutcomeType
  <2> USE DEF d
  <2> QED
    BY <1>0, <2>2 DEF DeduceN, When
<1>2. rsa_deduce_primes(c) \subseteq Outcome
  <2> DEFINE k == KeyOf(c, {"N", "D", "E"})
             left(p, q) == Put(Put(c, {"P"}, p), {"Q"}, q)
  <2>1. k \in Value /\ Zero \in Value /\ Junk \in Value
    BY KeyOfType DEF Value
  <2> HIDE DEF k
  <2>2. \A p, q \in Value : left(p, q) \in Ctx
    BY PutType
  <2>3. Put(c, {"P", "Q"}, k) \in Ctx
    BY <2>1, PutType
  <2> HIDE DEF left
  <2>4. /\ Done(Put(c, {"P", "Q"}, k)) \in Outcome
        /\ \A p, q \in Value : Failed(left(p, q)) \in Outcome
    BY <2>2, <2>3, OutcomeType
  <2>5. rsa_deduce_primes(c) =
          When(k # Junk, {Done(Put(c, {"P", "Q"}, k))})
            \cup When(ComputationFails(k),
                      {Failed(c), Failed(left(Junk, Zero)),
                       Failed(left(Junk, Junk)), Failed(left(k, Junk))})
    BY DEF rsa_deduce_primes, left, k
  <2> QED
    BY <1>0, <2>1, <2>4, <2>5 DEF When
<1>3. \A F, f : Done(Put(c, {f}, KeyOf(c, F))) \in Outcome
  <2> SUFFICES ASSUME NEW F, NEW f PROVE Done(Put(c, {f}, KeyOf(c, F))) \in Outcome
    OBVIOUS
  <2>1. KeyOf(c, F) \in Value
    BY KeyOfType
  <2>2. Put(c, {f}, KeyOf(c, F)) \in Ctx
    BY <2>1, PutType
  <2> QED
    BY <2>2, OutcomeType
<1>4. DeduceD(c) \subseteq Outcome
  <2>1. Put(c, {"D"}, Junk) \in Ctx
    BY PutType DEF Value
  <2>2. Failed(Put(c, {"D"}, Junk)) \in Outcome
    BY <2>1, OutcomeType
  <2> QED
    BY <1>0, <1>3, <2>2 DEF DeduceD, When
<1>5. DeduceCrt(c) \subseteq Outcome
  BY <1>0, <1>3 DEF DeduceCrt, When
<1> QED
  BY <1>1, <1>2, <1>4, <1>5

\* mbedtls_rsa_complete leaves a context, whether it succeeds or not.
LEMMA CompleteType ==
  ASSUME NEW c \in Ctx
  PROVE  mbedtls_rsa_complete(c) \subseteq Outcome
<1>0. \A o \in Outcome : o.ctx \in Ctx
  BY DEF Outcome
<1>1. CompleteN(c) \subseteq Outcome
  BY DeduceTypes DEF CompleteN
<1>2. \A d \in Ctx : DeduceMissing(c, d) \subseteq Outcome
  BY DeduceTypes, OutcomeType DEF DeduceMissing
<1>3. \A d \in Ctx : DeduceCrtIfMissing(c, d) \subseteq Outcome
  BY DeduceTypes, OutcomeType DEF DeduceCrtIfMissing
<1>4. \A d \in Ctx : \A priv : rsa_check_context(d, priv) \subseteq Outcome
  BY OutcomeType DEF rsa_check_context, When
<1>5. CompletePQD(c) \subseteq Outcome
  BY <1>0, <1>1, <1>2 DEF CompletePQD
<1>6. CompleteCrt(c) \subseteq Outcome
  BY <1>0, <1>3, <1>5 DEF CompleteCrt
<1>7. Failed(c) \in Outcome
  BY OutcomeType
<1> QED
  BY <1>0, <1>4, <1>6, <1>7 DEF mbedtls_rsa_complete

-----------------------------------------------------------------------------
(* Contexts built from the components of one key.                          *)

\* Every component that is set is one of k.
Clean(c, k) == \A f \in Field : c.mpi[f] \in {k, Zero}

\* The same, but for what a failed deduction has left in P and Q, or in D.
CleanButScratch(c, k) ==
  \A f \in Field : \/ c.mpi[f] \in {k, Zero}
                   \/ f \in {"P", "Q", "D"} /\ c.mpi[f] = Junk

LEMMA KeyOfOne ==
  ASSUME NEW c, NEW F, NEW g \in F, NEW k \in Key, \A f \in F : c.mpi[f] = k
  PROVE  KeyOf(c, F) = k
  BY DEF KeyOf

\* What a search for the primes in a context of k leaves, found or not.
LEMMA PrimesOfOneKey ==
  ASSUME NEW d \in Ctx, NEW k \in Key, Clean(d, k),
         Have(d, "N"), Have(d, "D"), Have(d, "E"),
         NEW o \in rsa_deduce_primes(d)
  PROVE  /\ CleanButScratch(o.ctx, k)
         /\ o.ok => o.ctx = Put(d, {"P", "Q"}, k)
<1>1. KeyOf(d, {"N", "D", "E"}) = k
  <2>1. \A f \in {"N", "D", "E"} : d.mpi[f] = k
    BY DEF Clean, Have, Field, Part
  <2> QED
    BY <2>1, KeyOfOne
<1> DEFINE left(p, q) == Put(Put(d, {"P"}, p), {"Q"}, q)
<1>2. \A p, q \in {k, Zero, Junk} : CleanButScratch(left(p, q), k)
  BY DEF Clean, CleanButScratch, Put, Ctx
<1>3. CleanButScratch(d, k) /\ CleanButScratch(Put(d, {"P", "Q"}, k), k)
  BY DEF Clean, CleanButScratch, Put, Ctx
<1>4. \/ o = Done(Put(d, {"P", "Q"}, k))
      \/ o = Failed(d) \/ o = Failed(left(Junk, Zero))
      \/ o = Failed(left(Junk, Junk)) \/ o = Failed(left(k, Junk))
  BY <1>1 DEF rsa_deduce_primes, When
<1> HIDE DEF left
<1> QED
  BY <1>2, <1>3, <1>4 DEF Done, Failed

\* Every component is set: mbedtls_rsa_complete has nothing to deduce.
Full(c) == \A f \in Field : Have(c, f)

\* What the stages of a completion make of the context c of k, when they
\* succeed: all of k if c is taken for a private key, else c itself.
Deduced(c, k, d) ==
  /\ d \in Ctx
  /\ IsPriv(c) => \A f \in Field : d.mpi[f] = k
  /\ ~IsPriv(c) => d = c

LEMMA StagesOfOneKey ==
  ASSUME NEW c \in Ctx, NEW k \in Key, Clean(c, k), IsPriv(c) \/ IsPub(c),
         NEW o \in CompleteCrt(c)
  PROVE  /\ CleanButScratch(o.ctx, k)
         /\ o.ok => Deduced(c, k, o.ctx)
         /\ Full(c) => o = Done(c)
<1> USE DEF Field, Part, Have, Done, Failed
<1>0. c.mpi \in [Field -> {k, Zero}] /\ k # Zero
  BY RsaContextAssumption DEF Ctx, Clean
<1>1. ASSUME NEW a \in DeduceN(c)
      PROVE  /\ a.ctx \in Ctx /\ Clean(a.ctx, k)
             /\ \A f \in Field \ {"N"} : a.ctx.mpi[f] = c.mpi[f]
             /\ a.ok /\ IsPriv(c) => a.ctx.mpi["N"] = k
             /\ Have(c, "N") => a = Done(c)
  <2>1. CASE Have(c, "N") \/ ~Have(c, "P") \/ ~Have(c, "Q")
    <3>1. a = Done(c)
      BY <2>1 DEF DeduceN
    <3>2. IsPriv(c) => c.mpi["N"] = k
      BY <1>0, <2>1 DEF IsPriv, NMissing, PQMissing, DMissing
    <3> QED
      BY <3>1, <3>2
  <2>2. CASE ~(Have(c, "N") \/ ~Have(c, "P") \/ ~Have(c, "Q"))
    <3> DEFINE d == SetLen(Put(c, {"N"}, k), Size(k))
    <3>1. KeyOf(c, {"P", "Q"}) = k
      BY <1>0, <2>2, KeyOfOne
    <3>2. k \in Value /\ Size(k) \in Nat
      BY SizeType DEF Value
    <3>3. d \in Ctx /\ d.mpi = [f \in Field |-> IF f = "N" THEN k ELSE c.mpi[f]]
      BY <3>2 DEF Ctx, Put, SetLen
    <3> HIDE DEF d
    <3>4. a = Done(d) \/ a = Failed(c)
      BY <2>2, <3>1 DEF DeduceN, When, d
    <3> QED
      BY <1>0, <2>2, <3>3, <3>4 DEF Clean
  <2> QED
    BY <2>1, <2>2
<1>2. ASSUME NEW b \in CompletePQD(c)
      PROVE  /\ CleanButScratch(b.ctx, k)
             /\ b.ok => b.ctx \in Ctx /\ Clean(b.ctx, k)
             /\ b.ok /\ IsPriv(c) => /\ \A f \in Part : b.ctx.mpi[f] = k
                                     /\ b.ctx.mpi["CRT"] = c.mpi["CRT"]
             /\ ~IsPriv(c) \/ Full(c) => b = Done(c)
  <2>1. PICK a \in DeduceN(c) : b \in (IF a.ok THEN DeduceMissing(c, a.ctx) ELSE {a})
    BY <1>2 DEF CompletePQD, CompleteN
  <2> DEFINE d == a.ctx
  <2>2. /\ d \in Ctx /\ Clean(d, k)
        /\ \A f \in Field \ {"N"} : d.mpi[f] = c.mpi[f]
        /\ a.ok /\ IsPriv(c) => d.mpi["N"] = k
        /\ Have(c, "N") => a = Done(c)
    BY <1>1
  <2>3. Clean(d, k) => CleanButScratch(d, k)
    BY DEF Clean, CleanButScratch
  <2> HIDE DEF d
  <2>4. CASE ~a.ok
    <3>1. b = a /\ ~Have(c, "N")
      BY <2>1, <2>2, <2>4
    <3>2. ~Full(c) /\ IsPriv(c)
      BY <3>1 DEF Full, IsPub
    <3> QED
      BY <2>2, <2>3, <2>4, <3>1, <3>2 DEF d
  <2>5. CASE a.ok /\ PQMissing(c)
    <3>1. b \in rsa_deduce_primes(d)
      BY <2>1, <2>5 DEF DeduceMissing, d
    <3>2. IsPriv(c) /\ ~Full(c)
      BY <2>5 DEF IsPriv, PQMissing, Full
    <3>3. d.mpi["N"] = k /\ d.mpi["D"] = k /\ d.mpi["E"] = k
      BY <1>0, <2>2, <2>5, <3>2 DEF PQMissing
    <3>4. CleanButScratch(b.ctx, k) /\ (b.ok => b.ctx = Put(d, {"P", "Q"}, k))
      <4>1. Have(d, "N") /\ Have(d, "D") /\ Have(d, "E")
        BY <1>0, <3>3
      <4> QED
        BY <2>2, <3>1, <4>1, PrimesOfOneKey
    <3>5. k \in Value
      BY DEF Value
    <3>6. /\ Put(d, {"P", "Q"}, k) \in Ctx
          /\ \A f \in Field : Put(d, {"P", "Q"}, k).mpi[f] =
                                IF f \in {"P", "Q"} THEN k ELSE d.mpi[f]
      BY <2>2, <3>5, PutType
    <3> QED
      BY <2>2, <3>2, <3>3, <3>4, <3>6 DEF Clean
  <2>6. CASE a.ok /\ ~PQMissing(c) /\ DMissing(c)
    <3> DEFINE e == Put(d, {"D"}, k)
    <3>1. IsPriv(c) /\ ~Full(c)
      BY <2>6 DEF IsPriv, DMissing, Full
    <3>2. d.mpi["N"] = k /\ d.mpi["P"] = k /\ d.mpi["Q"] = k /\ d.mpi["E"] = k
      BY <1>0, <2>2, <2>6, <3>1 DEF DMissing
    <3>3. KeyOf(d, {"P", "Q", "E"}) = k
      BY <3>2, KeyOfOne
    <3> DEFINE g == Put(d, {"D"}, Junk)
    <3>4. b = Done(e) \/ b = Failed(d) \/ b = Failed(g)
      BY <2>1, <2>6, <3>3 DEF DeduceMissing, DeduceD, When, d
    <3>5. k \in Value /\ Junk \in Value
      BY DEF Value
    <3>6. /\ e \in Ctx /\ \A f \in Field : e.mpi[f] = IF f \in {"D"} THEN k ELSE d.mpi[f]
          /\ \A f \in Field : g.mpi[f] = IF f \in {"D"} THEN Junk ELSE d.mpi[f]
      BY <2>2, <3>5, PutType
    <3> HIDE DEF e, g
    <3> QED
      BY <2>2, <2>3, <3>1, <3>2, <3>4, <3>6 DEF Clean, CleanButScratch
  <2>7. CASE a.ok /\ ~PQMissing(c) /\ ~DMissing(c)
    <3>1. b = Done(d)
      BY <2>1, <2>7 DEF DeduceMissing, d
    <3>2. IsPriv(c) => \A f \in Part : d.mpi[f] = k
      BY <1>0, <2>2, <2>7 DEF IsPriv, NMissing
    <3>3. ~IsPriv(c) \/ Full(c) => d = c
      BY <2>2 DEF IsPub, Full, d
    <3> QED
      BY <2>2, <2>3, <3>1, <3>2, <3>3
  <2> QED
    BY <2>4, <2>5, <2>6, <2>7
<1>3. PICK b \in CompletePQD(c) :
        o \in (IF b.ok THEN DeduceCrtIfMissing(c, b.ctx) ELSE {b})
  BY DEF CompleteCrt
<1> DEFINE d == b.ctx
<1>4. /\ CleanButScratch(d, k)
      /\ b.ok => d \in Ctx /\ Clean(d, k)
      /\ b.ok /\ IsPriv(c) => /\ \A f \in Part : d.mpi[f] = k
                              /\ d.mpi["CRT"] = c.mpi["CRT"]
      /\ ~IsPriv(c) \/ Full(c) => b = Done(c)
  BY <1>2
<1> HIDE DEF d
<1>5. CASE ~b.ok
  BY <1>3, <1>4, <1>5 DEF d
<1>6. CASE b.ok /\ IsPriv(c) /\ ~Have(c, "CRT")
  <2> DEFINE e == Put(d, {"CRT"}, k)
  <2>1. KeyOf(d, {"P", "Q", "D"}) = k
    BY <1>4, <1>6, KeyOfOne
  <2>2. o = Done(e) \/ o = Failed(d)
    BY <1>3, <1>6, <2>1 DEF DeduceCrtIfMissing, DeduceCrt, When, d
  <2>3. k \in Value
    BY DEF Value
  <2>4. e \in Ctx /\ \A f \in Field : e.mpi[f] = IF f \in {"CRT"} THEN k ELSE d.mpi[f]
    BY <1>4, <1>6, <2>3, PutType
  <2> HIDE DEF e
  <2>5. ~Full(c)
    BY <1>6 DEF Full
  <2> QED
    BY <1>4, <1>6, <2>2, <2>4, <2>5 DEF Deduced, CleanButScratch
<1>7. CASE b.ok /\ ~(IsPriv(c) /\ ~Have(c, "CRT"))
  <2>1. o = Done(d)
    BY <1>3, <1>7 DEF DeduceCrtIfMissing, d
  <2>2. IsPriv(c) => \A f \in Field : d.mpi[f] = k
    BY <1>0, <1>4, <1>7
  <2> QED
    <3>1. ~IsPriv(c) \/ Full(c) => d = c
      BY <1>4 DEF d
    <3>2. d \in Ctx /\ CleanButScratch(d, k) /\ Deduced(c, k, d)
      BY <1>4, <1>7, <2>2, <3>1 DEF Deduced, d
    <3> HIDE DEF d
    <3> QED
      BY <2>1, <3>1, <3>2
<1> QED
  BY <1>5, <1>6, <1>7

\* A completion of a context that holds components of one key only leaves
\* nothing of another, and when it succeeds the context is that key.
THEOREM CompletionOfOneKey ==
  ASSUME NEW c \in Ctx, NEW k \in Key, Clean(c, k),
         NEW o \in mbedtls_rsa_complete(c)
  PROVE  /\ CleanButScratch(o.ctx, k)
         /\ o.ok => Coherent(o.ctx, k) /\ Deduced(c, k, o.ctx)
         /\ Full(c) => o.ctx = c
<1>0. Clean(c, k) => CleanButScratch(c, k)
  BY DEF Clean, CleanButScratch
<1>1. CASE ~IsPriv(c) /\ ~IsPub(c)
  <2>1. o = Failed(c)
    BY <1>1 DEF mbedtls_rsa_complete
  <2> QED
    BY <1>0, <2>1 DEF Failed
<1>2. CASE IsPriv(c) \/ IsPub(c)
  <2>1. PICK a \in CompleteCrt(c) :
          o \in (IF a.ok THEN rsa_check_context(a.ctx, IsPriv(c)) ELSE {a})
    BY <1>2 DEF mbedtls_rsa_complete
  <2>2. /\ CleanButScratch(a.ctx, k)
        /\ a.ok => Deduced(c, k, a.ctx)
        /\ Full(c) => a = Done(c)
    BY <1>2, StagesOfOneKey
  <2>3. CASE ~a.ok
    BY <2>1, <2>2, <2>3 DEF Done
  <2>4. CASE a.ok
    <3> DEFINE d == a.ctx
    <3>1. \/ o = Failed(d)
          \/ /\ o = Done(d) /\ d.len = Size(d.mpi["N"])
             /\ Have(d, "N") /\ Have(d, "E")
      BY <2>1, <2>4 DEF rsa_check_context, When
    <3>2. Deduced(c, k, d)
      BY <2>2, <2>4
    <3> HIDE DEF d
    <3>3. CASE IsPriv(c)
      BY <2>2, <3>1, <3>2, <3>3 DEF Deduced, Coherent, Done, Failed, Field, Part, d
    <3>4. CASE ~IsPriv(c)
      <4>1. d = c /\ \A f \in {"P", "Q", "D"} : c.mpi[f] = Zero
        BY <1>2, <3>2, <3>4 DEF Deduced, IsPub, Have
      <4>2. Have(c, "N") /\ Have(c, "E") => c.mpi["N"] = k /\ c.mpi["E"] = k
        BY DEF Clean, Have, Field, Part
      <4> QED
        BY <1>0, <2>2, <3>1, <3>2, <4>1, <4>2 DEF Coherent, Done, Failed
    <3> QED
      BY <3>3, <3>4
  <2> QED
    BY <2>3, <2>4
<1> QED
  BY <1>1, <1>2

\* The numbers that g has for the fields F are of V.
AreIn(g, F, V) == \A f \in F : g[f] \in V

\* An import into a context of numbers of V, however far it comes, when what is
\* imported is of V too.
LEMMA ImportStaysIn ==
  ASSUME NEW c \in Ctx, NEW V, Zero \in V, AreIn(c.mpi, Field, V),
         NEW S \in SUBSET Part, NEW given, AreIn(given, S, V),
         NEW o \in mbedtls_rsa_import(c, given, S)
                     \cup mbedtls_rsa_import_raw(c, given, S)
  PROVE  AreIn(o.ctx.mpi, Field, V) /\ o.ctx.mpi["CRT"] = c.mpi["CRT"]
<1> USE DEF AreIn
<1> DEFINE Same(d) == AreIn(d.mpi, Field, V) /\ d.mpi["CRT"] = c.mpi["CRT"]
           Read(F) == IF "N" \in F
                        THEN SetLen(Copy(c, F, given), Size(given["N"]))
                        ELSE Copy(c, F, given)
           all  == Copy(c, S, given)
           size == Size(given["N"])
           some(f) == Copy(c, Before(S, f), given)
           left(f) == Read(Before(S, f))
           lost(f) == Put(left(f), {f}, Zero)
<1> SUFFICES Same(o.ctx)
  OBVIOUS
<1>0. \A d : Done(d).ctx = d /\ Failed(d).ctx = d
  BY DEF Done, Failed
<1>1. ASSUME NEW F \in SUBSET S
      PROVE  /\ Same(Copy(c, F, given))
             /\ \A n : Same(SetLen(Copy(c, F, given), n))
             /\ Same(Read(F))
             /\ \A f \in Part : Same(Put(Read(F), {f}, Zero))
  <2> DEFINE mpi == [f \in Field |-> IF f \in F THEN given[f] ELSE c.mpi[f]]
  <2>1. /\ Copy(c, F, given).mpi = mpi
        /\ \A n : SetLen(Copy(c, F, given), n).mpi = mpi
    BY DEF Copy, SetLen, Ctx
  <2>2. Read(F).mpi = mpi
    BY <2>1
  <2>3. (\A f \in Field : mpi[f] \in V) /\ mpi["CRT"] = c.mpi["CRT"]
    BY DEF Field, Part
  <2>4. DOMAIN Copy(c, F, given) = {"mpi", "len"}
    BY DEF Copy, Ctx
  <2>5. DOMAIN Read(F) = {"mpi", "len"}
    BY <2>4 DEF SetLen
  <2> HIDE DEF mpi, Read
  <2>6. ASSUME NEW f \in Part PROVE Same(Put(Read(F), {f}, Zero))
    BY <2>2, <2>3, <2>5 DEF Put, Field, Part
  <2> QED
    BY <2>1, <2>2, <2>3, <2>6
<1>2. /\ Same(all) /\ Same(SetLen(all, size))
      /\ Same(Read(S))
  BY <1>1
<1>3. \A f \in S : Same(some(f)) /\ Same(left(f)) /\ Same(lost(f))
  BY <1>1 DEF Before
<1>4. CASE o \in mbedtls_rsa_import(c, given, S)
  <2>1. \/ o = Done(IF "N" \in S THEN SetLen(all, size) ELSE all)
        \/ \E f \in S : o = Failed(some(f))
    BY <1>4 DEF mbedtls_rsa_import, When
  <2> HIDE DEF Same, all, size, some
  <2>2. ASSUME NEW f \in S, o = Failed(some(f))
        PROVE  Same(o.ctx)
    BY <1>0, <1>3, <2>2
  <2>3. CASE o = Done(all) \/ o = Done(SetLen(all, size))
    BY <1>0, <1>2, <2>3
  <2> QED
    BY <2>1, <2>2, <2>3
<1>5. CASE o \in mbedtls_rsa_import_raw(c, given, S)
  <2>1. \/ o = Done(Read(S))
        \/ \E f \in S : o = Failed(left(f)) \/ o = Failed(lost(f))
    BY <1>5 DEF mbedtls_rsa_import_raw, When
  <2> HIDE DEF Same, Read, left, lost
  <2>2. CASE o = Done(Read(S))
    BY <1>0, <1>2, <2>2
  <2>3. ASSUME NEW f \in S, o = Failed(left(f)) \/ o = Failed(lost(f))
        PROVE  Same(o.ctx)
    BY <1>0, <1>3, <2>3
  <2> QED
    BY <2>1, <2>2, <2>3
<1> QED
  BY <1>4, <1>5

\* The same of numbers of k, or 0.
LEMMA ImportOfNumbers ==
  ASSUME NEW c \in Ctx, NEW k \in Key, Clean(c, k), NEW S \in SUBSET Part,
         NEW given, \A f \in S : given[f] \in {k, Zero},
         NEW o \in mbedtls_rsa_import(c, given, S)
                     \cup mbedtls_rsa_import_raw(c, given, S)
  PROVE  Clean(o.ctx, k) /\ o.ctx.mpi["CRT"] = c.mpi["CRT"]
<1>1. AreIn(c.mpi, Field, {k, Zero}) /\ AreIn(given, S, {k, Zero})
  BY DEF AreIn, Clean
<1>2. AreIn(o.ctx.mpi, Field, {k, Zero}) /\ o.ctx.mpi["CRT"] = c.mpi["CRT"]
  BY <1>1, ImportStaysIn
<1> QED
  BY <1>2 DEF AreIn, Clean

\* The same of components of k.
LEMMA ImportOfOneKey ==
  ASSUME NEW c \in Ctx, NEW k \in Key, Clean(c, k), NEW S \in SUBSET Part,
         NEW o \in mbedtls_rsa_import(c, PartsOf(k), S)
                     \cup mbedtls_rsa_import_raw(c, PartsOf(k), S)
  PROVE  Clean(o.ctx, k)
<1>1. \A f \in S : PartsOf(k)[f] \in {k, Zero}
  BY DEF PartsOf
<1> QED
  BY <1>1, ImportOfNumbers

\* A completion of an empty context fails and leaves it empty.
LEMMA CompletionOfNothing ==
  ASSUME NEW o \in mbedtls_rsa_complete(EmptyCtx)
  PROVE  o = Failed(EmptyCtx)
<1>1. \A f \in Field : ~Have(EmptyCtx, f)
  BY DEF EmptyCtx, Have
<1> QED
  BY <1>1 DEF mbedtls_rsa_complete, IsPriv, IsPub, NMissing, PQMissing, DMissing, Field, Part

LEMMA PrivateIsFull ==
  ASSUME NEW k \in Key
  PROVE  Full(PrivateCtx(k)) /\ Clean(PrivateCtx(k), k)
  BY RsaContextAssumption DEF Full, Clean, Have, PrivateCtx

-----------------------------------------------------------------------------
(* Contexts that a failed completion has left components of no key in.     *)

\* Every component that is set is one of k, or of no key.
CleanButJunk(c, k) == \A f \in Field : c.mpi[f] \in {k, Zero, Junk}

\* A computation on components of k and of no key has a result of k or of no key.
LEMMA KeyOfJunk ==
  ASSUME NEW c, NEW k \in Key, CleanButJunk(c, k), NEW F \in SUBSET Field, NEW g \in F
  PROVE  KeyOf(c, F) \in {k, Junk}
<1>1. ASSUME NEW j \in Key, \A f \in F : c.mpi[f] = j PROVE j = k
  <2>1. c.mpi[g] = j /\ g \in Field
    BY <1>1
  <2> QED
    BY <2>1, RsaContextAssumption DEF CleanButJunk
<1> QED
  BY <1>1 DEF KeyOf

\* A completion goes on with the context c as d: nothing of another key came in,
\* E is as it was, and so is N if it was there.
GoesOn(c, k, d) ==
  /\ d \in Ctx /\ CleanButJunk(d, k)
  /\ d.mpi["E"] = c.mpi["E"]
  /\ Have(c, "N") => d.mpi["N"] = c.mpi["N"]

\* A stage of it writes the fields F.
LEMMA PutGoesOn ==
  ASSUME NEW c, NEW k \in Key, NEW d, GoesOn(c, k, d),
         NEW F, "E" \notin F, "N" \notin F \/ ~Have(c, "N"), NEW v \in {k, Zero, Junk}
  PROVE  GoesOn(c, k, Put(d, F, v)) /\ \A n \in Nat : GoesOn(c, k, SetLen(Put(d, F, v), n))
<1>1. v \in Value /\ "E" \in Field /\ "N" \in Field
  BY DEF Value, Field, Part
<1>2. /\ Put(d, F, v) \in Ctx
      /\ \A f \in Field : Put(d, F, v).mpi[f] = IF f \in F THEN v ELSE d.mpi[f]
  BY <1>1, PutType DEF GoesOn
<1> DEFINE e == Put(d, F, v)
<1>3. GoesOn(c, k, e)
  BY <1>1, <1>2 DEF GoesOn, CleanButJunk
<1> HIDE DEF e
<1>4. \A n \in Nat : SetLen(e, n) \in Ctx /\ SetLen(e, n).mpi = e.mpi
  BY <1>3 DEF GoesOn, SetLen, Ctx
<1> QED
  BY <1>3, <1>4 DEF GoesOn, CleanButJunk, e

\* However a completion of a context of k and of no key ends, it leaves nothing
\* of another key, and N and E as they were: also a second attempt, on what the
\* first has left.
THEOREM CompletionInventsNoKey ==
  ASSUME NEW c \in Ctx, NEW k \in Key, CleanButJunk(c, k),
         NEW o \in mbedtls_rsa_complete(c)
  PROVE  GoesOn(c, k, o.ctx)
<1> DEFINE G(d) == GoesOn(c, k, d)
<1>0. \A d : Done(d).ctx = d /\ Failed(d).ctx = d
  BY DEF Done, Failed
<1>1. G(c)
  BY DEF GoesOn
<1>2. \A d : G(d) => CleanButJunk(d, k) /\ d \in Ctx
  BY DEF GoesOn
<1>3. \A d, F : G(d) /\ F \in SUBSET Field /\ F # {} => KeyOf(d, F) \in {k, Junk}
  BY <1>2, KeyOfJunk
<1>4. ASSUME NEW a \in CompleteN(c) PROVE G(a.ctx)
  <2>1. CASE a = Done(c) \/ a = Failed(c)
    BY <1>0, <1>1, <2>1
  <2>2. CASE ~Have(c, "N") /\ a = Done(SetLen(Put(c, {"N"}, KeyOf(c, {"P", "Q"})),
                                              Size(KeyOf(c, {"P", "Q"}))))
    <3> DEFINE n == KeyOf(c, {"P", "Q"})
    <3>1. n \in {k, Junk}
      BY <1>1, <1>3 DEF Field, Part
    <3>2. Size(n) \in Nat
      BY <3>1, SizeType DEF Value
    <3> HIDE DEF n
    <3>3. G(SetLen(Put(c, {"N"}, n), Size(n)))
      BY <1>1, <2>2, <3>1, <3>2, PutGoesOn
    <3> QED
      BY <1>0, <2>2, <3>3 DEF n
  <2> QED
    BY <2>1, <2>2 DEF CompleteN, DeduceN, When
<1>5. ASSUME NEW d, G(d), NEW a \in rsa_deduce_primes(d) PROVE G(a.ctx)
  <2> DEFINE j == KeyOf(d, {"N", "D", "E"})
  <2>1. j \in {k, Junk}
    BY <1>3, <1>5 DEF Field, Part
  <2>2. ASSUME NEW p \in {k, Zero, Junk}, NEW q \in {k, Zero, Junk}
        PROVE  G(Put(d, {"P", "Q"}, p)) /\ G(Put(Put(d, {"P"}, p), {"Q"}, q))
    <3>1. G(Put(d, {"P", "Q"}, p)) /\ G(Put(d, {"P"}, p))
      BY <1>5, PutGoesOn
    <3> QED
      BY <3>1, PutGoesOn
  <2> DEFINE left(p, q) == Put(Put(d, {"P"}, p), {"Q"}, q)
             both == Put(d, {"P", "Q"}, j)
  <2>3. \/ a = Done(both)
        \/ a = Failed(d) \/ a = Failed(left(Junk, Zero))
        \/ a = Failed(left(Junk, Junk)) \/ a = Failed(left(j, Junk))
    BY DEF rsa_deduce_primes, When
  <2>4. G(both) /\ G(left(Junk, Zero)) /\ G(left(Junk, Junk)) /\ G(left(j, Junk))
    BY <2>1, <2>2
  <2> HIDE DEF left, both, G
  <2> QED
    BY <1>0, <1>5, <2>3, <2>4
<1>6. ASSUME NEW d, G(d), NEW a \in DeduceD(d) \cup DeduceCrt(d) PROVE G(a.ctx)
  <2>1. KeyOf(d, {"P", "Q", "E"}) \in {k, Junk} /\ KeyOf(d, {"P", "Q", "D"}) \in {k, Junk}
    BY <1>3, <1>6 DEF Field, Part
  <2>2. \A v \in {k, Junk} : G(Put(d, {"D"}, v)) /\ G(Put(d, {"CRT"}, v))
    BY <1>6, PutGoesOn
  <2>3. \/ a = Done(Put(d, {"D"}, KeyOf(d, {"P", "Q", "E"})))
        \/ a = Done(Put(d, {"CRT"}, KeyOf(d, {"P", "Q", "D"})))
        \/ a = Failed(d) \/ a = Failed(Put(d, {"D"}, Junk))
    BY DEF DeduceD, DeduceCrt, When
  <2>4. G(Put(d, {"D"}, Junk))
    BY <1>6, PutGoesOn
  <2> HIDE DEF G
  <2> QED
    BY <1>0, <1>6, <2>1, <2>2, <2>3, <2>4
<1>7. ASSUME NEW a \in CompletePQD(c) PROVE G(a.ctx)
  <2>1. PICK b \in CompleteN(c) : a \in (IF b.ok THEN DeduceMissing(c, b.ctx) ELSE {b})
    BY DEF CompletePQD
  <2>2. a = b \/ a = Done(b.ctx) \/ a \in rsa_deduce_primes(b.ctx) \/ a \in DeduceD(b.ctx)
    BY <2>1 DEF DeduceMissing
  <2> HIDE DEF G
  <2> QED
    BY <1>0, <1>4, <1>5, <1>6, <2>2
<1>8. ASSUME NEW a \in CompleteCrt(c) PROVE G(a.ctx)
  <2>1. PICK b \in CompletePQD(c) : a \in (IF b.ok THEN DeduceCrtIfMissing(c, b.ctx) ELSE {b})
    BY DEF CompleteCrt
  <2>2. a = b \/ a = Done(b.ctx) \/ a \in DeduceCrt(b.ctx)
    BY <2>1 DEF DeduceCrtIfMissing
  <2> HIDE DEF G
  <2> QED
    BY <1>0, <1>6, <1>7, <2>2
<1>9. CASE ~IsPriv(c) /\ ~IsPub(c)
  <2>1. o = Failed(c)
    BY <1>9 DEF mbedtls_rsa_complete
  <2> QED
    BY <1>0, <1>1, <2>1
<1>10. CASE IsPriv(c) \/ IsPub(c)
  <2>1. PICK a \in CompleteCrt(c) :
          o \in (IF a.ok THEN rsa_check_context(a.ctx, IsPriv(c)) ELSE {a})
    BY <1>10 DEF mbedtls_rsa_complete
  <2>2. o = a \/ o = Done(a.ctx) \/ o = Failed(a.ctx)
    BY <2>1 DEF rsa_check_context, When
  <2> HIDE DEF G
  <2>3. G(o.ctx)
    BY <1>0, <1>8, <2>1, <2>2
  <2> QED
    BY <2>3 DEF G
<1> QED
  BY <1>9, <1>10

\* Nor does an import of components of k bring in anything of another key.
LEMMA ImportAmongJunk ==
  ASSUME NEW c \in Ctx, NEW k \in Key, CleanButJunk(c, k), NEW S \in SUBSET Part,
         NEW o \in mbedtls_rsa_import(c, PartsOf(k), S)
                     \cup mbedtls_rsa_import_raw(c, PartsOf(k), S)
  PROVE  CleanButJunk(o.ctx, k)
<1> DEFINE V == {k, Zero, Junk}
<1>1. AreIn(c.mpi, Field, V) /\ AreIn(PartsOf(k), S, V)
  BY DEF AreIn, PartsOf, CleanButJunk
<1>2. AreIn(o.ctx.mpi, Field, V)
  BY <1>1, ImportStaysIn
<1> QED
  BY <1>2 DEF AreIn, CleanButJunk

\* A modulus and an exponent that c has are in d, with the length of the modulus.
KeepsPublicHalf(c, d) ==
  /\ d \in Ctx
  /\ \A f \in {"N", "E"} : Have(c, f) => d.mpi[f] = c.mpi[f]
  /\ Have(c, "N") => d.len = c.len

LEMMA PutKeepsPublicHalf ==
  ASSUME NEW c, NEW d, KeepsPublicHalf(c, d), NEW F, F \cap {"N", "E"} = {}, NEW v \in Value
  PROVE  KeepsPublicHalf(c, Put(d, F, v))
<1>1. /\ Put(d, F, v) \in Ctx
      /\ \A f \in Field : Put(d, F, v).mpi[f] = IF f \in F THEN v ELSE d.mpi[f]
  BY PutType DEF KeepsPublicHalf
<1>2. Put(d, F, v).len = d.len
  BY DEF Put, KeepsPublicHalf, Ctx
<1> QED
  BY <1>1, <1>2 DEF KeepsPublicHalf, Field, Part

\* A completion computes a modulus only when there is none, and no exponent.
LEMMA CompletionKeeps ==
  ASSUME NEW c \in Ctx, NEW o \in mbedtls_rsa_complete(c)
  PROVE  KeepsPublicHalf(c, o.ctx)
<1> DEFINE G(d) == KeepsPublicHalf(c, d)
<1>0. \A d : Done(d).ctx = d /\ Failed(d).ctx = d
  BY DEF Done, Failed
<1>1. G(c)
  BY DEF KeepsPublicHalf
<1>2. \A d, F : G(d) => KeyOf(d, F) \in Value
  BY KeyOfType DEF KeepsPublicHalf
<1>3. \A d, F, v : G(d) /\ F \cap {"N", "E"} = {} /\ v \in Value => G(Put(d, F, v))
  BY PutKeepsPublicHalf
<1>4. ASSUME NEW a \in CompleteN(c) PROVE G(a.ctx)
  <2>1. CASE a = Done(c) \/ a = Failed(c)
    BY <1>0, <1>1, <2>1
  <2>2. CASE ~Have(c, "N") /\ a = Done(SetLen(Put(c, {"N"}, KeyOf(c, {"P", "Q"})),
                                              Size(KeyOf(c, {"P", "Q"}))))
    <3> DEFINE n == KeyOf(c, {"P", "Q"})
               e == Put(c, {"N"}, n)
    <3>1. n \in Value /\ Size(n) \in Nat
      BY <1>1, <1>2, SizeType
    <3> HIDE DEF n
    <3>2. e \in Ctx /\ e.mpi["E"] = c.mpi["E"]
      BY <3>1, PutType DEF Field, Part
    <3> HIDE DEF e
    <3>3. SetLen(e, Size(n)) \in Ctx /\ SetLen(e, Size(n)).mpi = e.mpi
      BY <3>1, <3>2 DEF SetLen, Ctx
    <3> QED
      BY <1>0, <2>2, <3>2, <3>3 DEF KeepsPublicHalf, n, e
  <2> QED
    BY <2>1, <2>2 DEF CompleteN, DeduceN, When
<1>5. ASSUME NEW d, G(d), NEW a \in rsa_deduce_primes(d) \cup DeduceD(d) \cup DeduceCrt(d)
      PROVE  G(a.ctx)
  <2>1. Zero \in Value /\ Junk \in Value
    BY DEF Value
  <2>2. PICK k \in Value, j \in Value, i \in Value :
          /\ k = KeyOf(d, {"N", "D", "E"}) /\ j = KeyOf(d, {"P", "Q", "E"})
          /\ i = KeyOf(d, {"P", "Q", "D"})
    BY <1>2, <1>5
  <2> DEFINE left(p, q) == Put(Put(d, {"P"}, p), {"Q"}, q)
             both == Put(d, {"P", "Q"}, k)
  <2>3. \/ a = Done(both) \/ a = Failed(d)
        \/ a = Failed(left(Junk, Zero)) \/ a = Failed(left(Junk, Junk))
        \/ a = Failed(left(k, Junk))
        \/ a = Done(Put(d, {"D"}, j)) \/ a = Failed(Put(d, {"D"}, Junk))
        \/ a = Done(Put(d, {"CRT"}, i))
    BY <2>2 DEF rsa_deduce_primes, DeduceD, DeduceCrt, When
  <2>4. \A v \in Value : /\ G(Put(d, {"P"}, v)) /\ G(Put(d, {"D"}, v)) /\ G(Put(d, {"CRT"}, v))
                         /\ G(Put(d, {"P", "Q"}, v))
    BY <1>3, <1>5
  <2>5. \A v, w \in Value : G(left(v, w))
    BY <1>3, <2>4
  <2> HIDE DEF left, G
  <2>6. G(both)
    BY <2>4
  <2> HIDE DEF both
  <2> QED
    BY <1>0, <1>5, <2>1, <2>3, <2>4, <2>5, <2>6
<1> HIDE DEF G
<1>6. ASSUME NEW a \in CompletePQD(c) PROVE G(a.ctx)
  <2>1. PICK b \in CompleteN(c) : a \in (IF b.ok THEN DeduceMissing(c, b.ctx) ELSE {b})
    BY DEF CompletePQD
  <2>2. a = b \/ a = Done(b.ctx) \/ a \in rsa_deduce_primes(b.ctx) \/ a \in DeduceD(b.ctx)
    BY <2>1 DEF DeduceMissing
  <2> QED
    BY <1>0, <1>4, <1>5, <2>2
<1>7. ASSUME NEW a \in CompleteCrt(c) PROVE G(a.ctx)
  <2>1. PICK b \in CompletePQD(c) : a \in (IF b.ok THEN DeduceCrtIfMissing(c, b.ctx) ELSE {b})
    BY DEF CompleteCrt
  <2>2. a = b \/ a = Done(b.ctx) \/ a \in DeduceCrt(b.ctx)
    BY <2>1 DEF DeduceCrtIfMissing
  <2> QED
    BY <1>0, <1>5, <1>6, <2>2
<1>8. CASE ~IsPriv(c) /\ ~IsPub(c)
  <2>1. o = Failed(c)
    BY <1>8 DEF mbedtls_rsa_complete
  <2> QED
    BY <1>0, <1>1, <2>1 DEF G
<1>9. CASE IsPriv(c) \/ IsPub(c)
  <2>1. PICK a \in CompleteCrt(c) :
          o \in (IF a.ok THEN rsa_check_context(a.ctx, IsPriv(c)) ELSE {a})
    BY <1>9 DEF mbedtls_rsa_complete
  <2>2. o = a \/ o = Done(a.ctx) \/ o = Failed(a.ctx)
    BY <2>1 DEF rsa_check_context, When
  <2>3. G(o.ctx)
    BY <1>0, <1>7, <2>1, <2>2
  <2> QED
    BY <2>3 DEF G
<1> QED
  BY <1>8, <1>9
=============================================================================

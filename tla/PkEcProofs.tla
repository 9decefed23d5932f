------------------------------ MODULE PkEcProofs ------------------------------
(***************************************************************************)
(* Proofs about Ecdh, and so about the two caches together: for any number *)
(* of pk contexts, EC keys, curves and addresses, and whatever fails.      *)
(*                                                                         *)
(* What is said of ownership and of pointers holds whatever callers do.    *)
(* That entries match their contexts, and what follows from it, needs pk   *)
(* contexts to be freed through the macro (~LibraryFrees).                 *)
(***************************************************************************)
EXTENDS Ecdh, PkRsaKeyProofs

EcInv == IInv /\ EcTypeOK /\ EcPairsAreOwned

-----------------------------------------------------------------------------
(* The RSA part.                                                           *)

\* The step of PkRsa that a step is, when it is none of the EC calls.
RsaStep == RsaNext \/ UNCHANGED ecdhVars

LEMMA RsaStepIsNext == RsaStep => [Next]_vars /\ UNCHANGED ecVars
  BY DEF RsaStep, RsaNext, ecdhVars, ecVars, vars, RsaCallOnPk, Next, CallOnPk, CallOnRsa

\* The EC calls that are no calls of PkRsa leave the RSA part alone.
EcOnly ==
  \/ \E p \in Pk : PkEc(p)
  \/ \E e \in ecCache : FillPair(e) \/ ComputeShared(e)

LEMMA EcdhSteps ==
  [EcdhNext]_ecdhVars =>
    RsaStep \/ EcOnly \/ \E p \in Pk : ParseAny(p) \/ SetupEc(p) \/ FreeBoth(p)
                                        \/ LibraryFreeAny(p)
  BY DEF EcdhNext, EcNext, RsaStep, EcOnly

LEMMA EcOnlyFrame ==
  ASSUME EcOnly
  PROVE  UNCHANGED <<pk, heap, cache, ecOf>> /\ out' = Quiet
  BY DEF EcOnly, PkEc, FillPair, ComputeShared, ecVars

\* These are calls of PkRsa, on the RSA part.
LEMMA FreesAndParses ==
  ASSUME NEW p \in Pk, FreeBoth(p) \/ LibraryFreeAny(p) \/ ParseAny(p)
  PROVE  Next
  BY DEF FreeBoth, LibraryFreeAny, ParseAny, Next, CallOnPk

LEMMA SetupEcStep ==
  ASSUME IInv, NEW p \in Pk, SetupEc(p)
  PROVE  IInv'
<1> DEFINE x == [pk[p] EXCEPT !.type = "other"]
<1>1. x \in PkCtx
  BY DEF IInv, StateOK, PkCtx
<1>2. pk' = [pk EXCEPT ![p] = x] /\ UNCHANGED <<heap, cache>> /\ out' = Quiet
  BY DEF SetupEc
<1>3. Quiet \in Out
  BY DEF Quiet, Out
<1> HIDE DEF x
<1> QED
  BY <1>1, <1>2, <1>3, PkChange DEF IInv

LEMMA IInvEcdh ==
  ASSUME IInv, [EcdhNext]_ecdhVars
  PROVE  IInv'
<1>1. CASE RsaStep
  BY <1>1, RsaStepIsNext, IInvNext
<1>2. CASE EcOnly
  <2>1. Quiet \in Out
    BY DEF Quiet, Out
  <2> QED
    BY <1>2, <2>1, EcOnlyFrame DEF IInv, StateOK, CacheIsAMap, HeapIsTheCache
<1>3. ASSUME NEW p \in Pk, ParseAny(p) \/ FreeBoth(p) \/ LibraryFreeAny(p) PROVE IInv'
  BY <1>3, FreesAndParses, IInvNext
<1> QED
  BY <1>1, <1>2, <1>3, SetupEcStep, EcdhSteps

-----------------------------------------------------------------------------
(* Types of pk contexts and of their EC parts.                             *)

LEMMA EcPartTypes ==
  /\ NotEc \in EcPart /\ EcTemplate \in EcPart /\ ~pk_is_ec(NotEc) /\ pk_is_ec(EcTemplate)
  /\ \A k \in EcKey : \A x \in ParsedEc(k) : x \in EcPart /\ pk_is_ec(x)
  BY DEF NotEc, EcTemplate, EcPart, ParsedEc, pk_is_ec

\* What mbedtls_v3_shim_pk_ec can make of an EC context is a key pair.
LEMMA MaterializeEcType ==
  ASSUME NEW x \in EcPart
  PROVE  materialize_ec(x) \subseteq Pair
<1>1. EmptyPair \in Pair
  BY DEF EmptyPair, Pair
<1>2. ASSUME HasEcKey(x) PROVE PairOf(x) \in Pair
  <2>1. EcKeyIn(x) \in EcKey
    BY <1>2 DEF HasEcKey, EcKeyIn, EcPart
  <2>2. pk_ec_group_id(x) \in Group \cup {NoGroup}
    BY <2>1, PkEcAssumption DEF pk_ec_group_id
  <2>3. OrZero(x.priv) \in EcKey \cup {Zero} /\ OrZero(x.pub) \in EcKey \cup {Zero}
    BY DEF OrZero, EcPart
  <2> QED
    BY <2>2, <2>3 DEF PairOf, Pair
<1> QED
  BY <1>1, <1>2 DEF materialize_ec, materialize_ec_from_psa, When

\* The calls that are in RsaNext free nothing.
LEMMA RsaStepFreesNothing ==
  ASSUME IInv, RsaStep, NEW p \in Pk, pk[p].type = "other"
  PROVE  pk'[p].type = "other"
<1>1. CASE UNCHANGED pk
  BY <1>1
<1>2. ASSUME NEW q \in Pk, RsaCallOnPk(q), q # p PROVE pk'[p] = pk[p]
  BY <1>2, OthersStay DEF RsaCallOnPk, CallOnPk, IInv
<1>3. ASSUME RsaCallOnPk(p) PROVE pk' = pk
  <2>1. ASSUME NEW r, ShimPkRsa(p, r) PROVE pk' = pk
    BY <2>1 DEF ShimPkRsa, PkRsaHit, PkRsaMiss, PkRsaNull, pk_is_rsa, IInv, StateOK
  <2>2. CASE Setup(p) \/ WritePubkey(p)
    BY <2>2 DEF Setup, WritePubkey, pk_resync_pubkey_raw_if_cached, pk_is_rsa
  <2> QED
    BY <1>3, <2>1, <2>2 DEF RsaCallOnPk, PkRsa, GetBitlen, Verify, Sign, Crypt
<1>4. ASSUME NEW r \in Rsa, CallOnRsa(r) PROVE pk'[p].type = "other"
  <2>1. CASE Import(r)
    BY <2>1 DEF Import
  <2>2. CASE Complete(r)
    <3>1. heap[r] \in Ctx
      BY <2>2 DEF Complete, Usable, IInv, StateOK
    <3>2. \A o \in mbedtls_rsa_complete(heap[r]) : o.ctx \in Ctx
      BY <3>1, CompleteType DEF Outcome
    <3>3. ASSUME NEW c \in Ctx, NEW e \in cache,
                 pk' = [pk EXCEPT ![e.pk] = pk_sync_from_rsa(@, c)]
          PROVE  pk'[p].type = "other"
      <4>1. pk_sync_from_rsa(pk[p], c).type = pk[p].type
        BY SyncType DEF IInv, StateOK
      <4> QED
        BY <3>3, <4>1 DEF IInv, StateOK
    <3> QED
      BY <2>2, <3>2, <3>3 DEF Complete, SyncFromCtx
  <2> QED
    BY <1>4, <2>1, <2>2 DEF CallOnRsa
<1> QED
  BY <1>1, <1>2, <1>3, <1>4 DEF RsaStep, RsaNext, ecdhVars

-----------------------------------------------------------------------------
(* The invariant.                                                          *)

\* A new pair, in an address that was free, with the first entry of p.
LEMMA EcMissStep ==
  ASSUME EcInv, NEW p \in Pk, NEW x, PkEcMiss(p, x), UNCHANGED <<pk, ecOf>>
  PROVE  EcTypeOK' /\ EcPairsAreOwned'
<1> DEFINE new == [pk |-> p, ec |-> x]
<1>1. PICK c \in materialize_ec(ecOf[p]) : ecHeap' = [ecHeap EXCEPT ![x] = c]
  BY DEF PkEcMiss
<1>2. c \in Pair /\ c # Free
  BY MaterializeEcType, PkEcAssumption DEF EcInv, EcTypeOK
<1>3. x \in Ec /\ ecHeap[x] = Free
  BY DEF PkEcMiss, AvailableEc
<1>4. ecCache' = ecCache \cup {new} /\ new.pk = p /\ new.ec = x /\ new \in EcEntry
  BY <1>3 DEF PkEcMiss, ec_cache_insert, EcEntry
<1>5. \A e \in ecCache : e.pk # p /\ e.ec # x
  BY <1>3 DEF PkEcMiss, ec_cache_find, EcInv, EcPairsAreOwned
<1> HIDE DEF new
<1>6. ecHeap'[x] = c /\ \A y \in Ec \ {x} : ecHeap'[y] = ecHeap[y]
  BY <1>1, <1>3 DEF EcInv, EcTypeOK
<1>7. ecHeap' \in [Ec -> Pair \cup {Free}]
  BY <1>1, <1>2, <1>3 DEF EcInv, EcTypeOK
<1>8. EcTypeOK'
  BY <1>4, <1>7 DEF EcInv, EcTypeOK
<1>9. \A y \in Ec : ecHeap'[y] # Free <=> \E e \in ecCache' : e.ec = y
  BY <1>2, <1>4, <1>5, <1>6 DEF EcInv, EcPairsAreOwned
<1>10. \A e, f \in ecCache' : e.pk = f.pk \/ e.ec = f.ec => e = f
  BY <1>4, <1>5 DEF EcInv, EcPairsAreOwned
<1> QED
  BY <1>8, <1>9, <1>10 DEF EcPairsAreOwned

LEMMA PkEcStep ==
  ASSUME EcInv, NEW p \in Pk, PkEc(p)
  PROVE  EcTypeOK' /\ EcPairsAreOwned'
<1>1. CASE UNCHANGED <<ecHeap, ecCache>>
  BY <1>1 DEF PkEc, EcInv, EcTypeOK, EcPairsAreOwned
<1>2. ASSUME NEW x, PkEcMiss(p, x) PROVE EcTypeOK' /\ EcPairsAreOwned'
  BY <1>2, EcMissStep DEF PkEc
<1> QED
  BY <1>1, <1>2 DEF PkEc, ShimPkEc, PkEcHit, PkEcNull

LEMMA FillPairStep ==
  ASSUME EcInv, NEW e \in ecCache, FillPair(e)
  PROVE  EcTypeOK' /\ EcPairsAreOwned'
<1>1. PICK k \in EcKey :
        /\ GroupOf[k] # NoGroup
        /\ ecHeap' = [ecHeap EXCEPT ![e.ec] = [grp |-> GroupOf[k], d |-> k, Q |-> k]]
  BY DEF FillPair
<1> DEFINE c == [grp |-> GroupOf[k], d |-> k, Q |-> k]
<1>2. c \in Pair /\ c # Free
  BY PkEcAssumption DEF Pair
<1>3. e.ec \in Ec /\ ecHeap[e.ec] # Free
  BY DEF EcInv, EcTypeOK, EcEntry, EcPairsAreOwned
<1> HIDE DEF c
<1>4. ecHeap' = [ecHeap EXCEPT ![e.ec] = c]
  BY <1>1 DEF c
<1>5. ecHeap' \in [Ec -> Pair \cup {Free}]
  BY <1>2, <1>4 DEF EcInv, EcTypeOK
<1>6. \A y \in Ec : ecHeap'[y] # Free <=> ecHeap[y] # Free
  BY <1>2, <1>3, <1>4 DEF EcInv, EcTypeOK
<1> QED
  BY <1>5, <1>6 DEF FillPair, EcInv, EcTypeOK, EcPairsAreOwned

\* mbedtls_v3_shim_pk_ec_cache_release
LEMMA EcReleaseStep ==
  ASSUME EcInv, NEW p, ec_cache_release(p)
  PROVE  /\ ecHeap' \in [Ec -> Pair \cup {Free}] /\ ecCache' \in SUBSET EcEntry
         /\ EcPairsAreOwned'
<1>1. CASE UNCHANGED <<ecHeap, ecCache>>
  BY <1>1 DEF EcInv, EcTypeOK, EcPairsAreOwned
<1>2. ASSUME NEW d \in ec_cache_find(p), ecCache' = ecCache \ {d},
             ecHeap' = [ecHeap EXCEPT ![d.ec] = Free]
      PROVE  /\ ecHeap' \in [Ec -> Pair \cup {Free}] /\ ecCache' \in SUBSET EcEntry
             /\ EcPairsAreOwned'
  <2>1. d \in ecCache /\ d.ec \in Ec
    BY DEF ec_cache_find, EcInv, EcTypeOK, EcEntry
  <2>2. ecHeap'[d.ec] = Free /\ \A y \in Ec \ {d.ec} : ecHeap'[y] = ecHeap[y]
    BY <1>2, <2>1 DEF EcInv, EcTypeOK
  <2>3. \A f \in ecCache : f.ec = d.ec => f = d
    BY <2>1 DEF EcInv, EcPairsAreOwned
  <2>4. \A y \in Ec : ecHeap'[y] # Free <=> \E e \in ecCache' : e.ec = y
    BY <1>2, <2>1, <2>2, <2>3 DEF EcInv, EcPairsAreOwned
  <2>5. \A e, f \in ecCache' : e.pk = f.pk \/ e.ec = f.ec => e = f
    BY <1>2 DEF EcInv, EcPairsAreOwned
  <2> QED
    BY <1>2, <2>4, <2>5 DEF EcInv, EcTypeOK, EcPairsAreOwned
<1> QED
  BY <1>1, <1>2 DEF ec_cache_release

\* One pk context gets a type and an EC part.
LEMMA EcPartChange ==
  ASSUME EcInv, NEW p \in Pk, NEW y, NEW x \in EcPart,
         pk' = [pk EXCEPT ![p] = y], ecOf' = [ecOf EXCEPT ![p] = x],
         pk_is_ec(x) => y.type = "other"
  PROVE  ecOf' \in [Pk -> EcPart] /\ \A q \in Pk : pk_is_ec(ecOf'[q]) => pk'[q].type = "other"
<1>1. \A q \in Pk : /\ pk'[q] = IF q = p THEN y ELSE pk[q]
                    /\ ecOf'[q] = IF q = p THEN x ELSE ecOf[q]
  BY DEF EcInv, IInv, StateOK, EcTypeOK
<1> QED
  BY <1>1 DEF EcInv, EcTypeOK

LEMMA ParseAnyStep ==
  ASSUME EcInv, NEW p \in Pk, ParseAny(p)
  PROVE  EcTypeOK' /\ EcPairsAreOwned'
<1>1. PICK y : pk' = [pk EXCEPT ![p] = y] /\ y.type \in {"rsa", "other"}
  <2>1. ParsedOther.type = "other" /\ \A k \in Key : \A y \in Parsed(k) : y.type = "rsa"
    BY DEF ParsedOther, Parsed
  <2> QED
    BY <2>1 DEF ParseAny, Parse
<1>2. pk'[p] = y
  BY <1>1 DEF EcInv, IInv, StateOK
<1>3. PICK x \in EcPart : ecOf' = [ecOf EXCEPT ![p] = x] /\ (pk_is_ec(x) => y.type = "other")
  <2>1. CASE pk_is_rsa(pk'[p]) /\ UNCHANGED ecOf
    <3>1. ~pk_is_ec(ecOf[p]) /\ ecOf[p] \in EcPart
      BY DEF ParseAny, Parse, EcInv, EcTypeOK
    <3>2. ecOf' = [ecOf EXCEPT ![p] = ecOf[p]]
      BY <2>1 DEF EcInv, EcTypeOK
    <3> QED
      BY <3>1, <3>2
  <2>2. ASSUME NEW x \in {NotEc} \cup UNION {ParsedEc(k) : k \in EcKey},
               ~pk_is_rsa(pk'[p]), ecOf' = [ecOf EXCEPT ![p] = x]
        PROVE  x \in EcPart /\ y.type = "other"
    BY <1>1, <1>2, <2>2, EcPartTypes DEF pk_is_rsa
  <2> QED
    BY <2>1, <2>2 DEF ParseAny
<1> QED
  BY <1>1, <1>3, EcPartChange DEF ParseAny, EcInv, EcTypeOK, EcPairsAreOwned

LEMMA SetupEcEcStep ==
  ASSUME EcInv, NEW p \in Pk, SetupEc(p)
  PROVE  EcTypeOK' /\ EcPairsAreOwned'
<1> DEFINE y == [pk[p] EXCEPT !.type = "other"]
<1>1. y.type = "other"
  BY DEF EcInv, IInv, StateOK, PkCtx
<1>2. pk' = [pk EXCEPT ![p] = y]
  BY DEF SetupEc
<1> HIDE DEF y
<1> QED
  BY <1>1, <1>2, EcPartTypes, EcPartChange DEF SetupEc, EcInv, EcTypeOK, EcPairsAreOwned

LEMMA EcFreeStep ==
  ASSUME EcInv, NEW p \in Pk, FreeBoth(p) \/ LibraryFreeAny(p)
  PROVE  EcTypeOK' /\ EcPairsAreOwned'
<1>1. pk' = [pk EXCEPT ![p] = FreshPk] /\ ecOf' = [ecOf EXCEPT ![p] = NotEc]
  BY DEF FreeBoth, LibraryFreeAny, PkFree, LibraryFree, ForgetEc
<1>2. ecOf' \in [Pk -> EcPart] /\ \A q \in Pk : pk_is_ec(ecOf'[q]) => pk'[q].type = "other"
  BY <1>1, EcPartTypes, EcPartChange
<1>3. CASE FreeBoth(p)
  BY <1>2, <1>3, EcReleaseStep DEF FreeBoth, EcTypeOK
<1>4. CASE LibraryFreeAny(p)
  BY <1>2, <1>4 DEF LibraryFreeAny, EcInv, EcTypeOK, EcPairsAreOwned
<1> QED
  BY <1>3, <1>4

\* Every step preserves the invariant.
LEMMA EcInvNext ==
  ASSUME EcInv, [EcdhNext]_ecdhVars
  PROVE  EcInv'
<1>1. IInv'
  BY IInvEcdh DEF EcInv
<1> SUFFICES EcTypeOK' /\ EcPairsAreOwned'
  BY <1>1 DEF EcInv
<1>2. CASE RsaStep
  BY <1>2, RsaStepIsNext, RsaStepFreesNothing
  DEF EcInv, EcTypeOK, EcPairsAreOwned, ecVars
<1>3. CASE EcOnly
  <2>1. ASSUME NEW e \in ecCache, ComputeShared(e) PROVE EcTypeOK' /\ EcPairsAreOwned'
    BY <2>1 DEF ComputeShared, ecVars, EcInv, EcTypeOK, EcPairsAreOwned
  <2> QED
    BY <1>3, <2>1, PkEcStep, FillPairStep DEF EcOnly
<1>4. ASSUME NEW p \in Pk, ParseAny(p) \/ SetupEc(p) \/ FreeBoth(p) \/ LibraryFreeAny(p)
      PROVE  EcTypeOK' /\ EcPairsAreOwned'
  BY <1>4, ParseAnyStep, SetupEcEcStep, EcFreeStep
<1> QED
  BY <1>2, <1>3, <1>4, EcdhSteps

\* Every reachable state satisfies the invariant, whatever callers do.
THEOREM EcInvariance == EcdhSpec => []EcInv
<1>1. EcdhInit => EcInv
  <2> SUFFICES ASSUME EcdhInit PROVE EcInv
    OBVIOUS
  <2>1. IInv
    BY IInvInit DEF EcdhInit, EcInit
  <2>2. EcTypeOK /\ EcPairsAreOwned
    BY EcPartTypes DEF EcdhInit, EcInit, EcTypeOK, EcPairsAreOwned
  <2> QED
    BY <2>1, <2>2 DEF EcInv
<1>2. EcInv /\ [EcdhNext]_ecdhVars => EcInv'
  BY EcInvNext
<1> QED
  BY <1>1, <1>2, PTL DEF EcdhSpec

\* The type invariant of PkEc: an EC context is never taken for an RSA one.
THEOREM EcTypeCorrect == EcdhSpec => []EcTypeOK
<1>1. EcInv => EcTypeOK
  BY DEF EcInv
<1> QED
  BY <1>1, EcInvariance, PTL

\* No path of pk_ec.c leaks a key pair or leaves an entry dangling, and every
\* lookup has one answer.
THEOREM NoEcLeakNoDangling == EcdhSpec => []EcPairsAreOwned
<1>1. EcInv => EcPairsAreOwned
  BY DEF EcInv
<1> QED
  BY <1>1, EcInvariance, PTL

\* The pointer that mbedtls_pk_ec gave goes on being the one it gives, and the
\* key behind it stays, until the pk context is freed; whatever is called or
\* fails in between, on this or on other contexts.
THEOREM EcKeysAreStable == EcdhSpec => EcKeyStaysUntilFree
<1> DEFINE Stays == \A e \in ecCache :
                      \/ /\ e \in ecCache'
                         /\ ecHeap[e.ec] # EmptyPair => ecHeap'[e.ec] = ecHeap[e.ec]
                      \/ pk'[e.pk] = FreshPk
<1>1. ASSUME EcInv, [EcdhNext]_ecdhVars PROVE [Stays]_allVars
  <2>1. CASE UNCHANGED <<ecHeap, ecCache>>
    BY <2>1
  <2>2. CASE RsaStep
    BY <2>1, <2>2, RsaStepIsNext DEF ecVars
  <2>3. ASSUME NEW p \in Pk, PkEc(p) PROVE Stays
    <3>1. ASSUME NEW x, PkEcMiss(p, x) PROVE Stays
      <4>1. x \in Ec /\ ecHeap[x] = Free
        BY <3>1 DEF PkEcMiss, AvailableEc
      <4>2. \A e \in ecCache : e.ec # x /\ e.ec \in Ec
        BY <1>1, <4>1 DEF EcInv, EcTypeOK, EcEntry, EcPairsAreOwned
      <4>3. PICK c : ecHeap' = [ecHeap EXCEPT ![x] = c]
        BY <3>1 DEF PkEcMiss
      <4>4. ecCache \subseteq ecCache'
        BY <3>1 DEF PkEcMiss, ec_cache_insert
      <4> QED
        BY <1>1, <4>2, <4>3, <4>4 DEF EcInv, EcTypeOK
    <3> QED
      BY <2>1, <2>3, <3>1 DEF PkEc, ShimPkEc, PkEcHit, PkEcNull
  <2>4. ASSUME NEW d \in ecCache, FillPair(d) PROVE Stays
    <3>1. ecHeap[d.ec] = EmptyPair /\ ecCache' = ecCache
      BY <2>4 DEF FillPair
    <3>2. \A e \in ecCache : e.ec # d.ec => ecHeap'[e.ec] = ecHeap[e.ec]
      BY <1>1, <2>4 DEF FillPair, EcInv, EcTypeOK, EcEntry
    <3> QED
      BY <3>1, <3>2
  <2>5. ASSUME NEW d \in ecCache, ComputeShared(d) PROVE Stays
    BY <2>1, <2>5 DEF ComputeShared, ecVars
  <2>6. ASSUME NEW p \in Pk, ParseAny(p) \/ SetupEc(p) \/ LibraryFreeAny(p) PROVE Stays
    BY <2>1, <2>6 DEF ParseAny, SetupEc, LibraryFreeAny
  <2>7. ASSUME NEW p \in Pk, FreeBoth(p) PROVE Stays
    <3>1. pk'[p] = FreshPk
      BY <1>1, <2>7 DEF FreeBoth, PkFree, EcInv, IInv, StateOK
    <3>2. ASSUME NEW d \in ec_cache_find(p), ecCache' = ecCache \ {d},
                 ecHeap' = [ecHeap EXCEPT ![d.ec] = Free]
          PROVE  Stays
      <4>1. d \in ecCache /\ d.pk = p
        BY DEF ec_cache_find
      <4>2. \A e \in ecCache : e.pk # p => e.ec # d.ec /\ e \in ecCache'
        BY <1>1, <3>2, <4>1 DEF EcInv, EcPairsAreOwned
      <4>3. \A e \in ecCache : e.pk # p => ecHeap'[e.ec] = ecHeap[e.ec]
        BY <1>1, <3>2, <4>2 DEF EcInv, EcTypeOK, EcEntry
      <4> QED
        BY <3>1, <4>2, <4>3
    <3> QED
      BY <2>1, <2>7, <3>2 DEF FreeBoth, ec_cache_release
  <2> QED
    BY <1>1, <2>2, <2>3, <2>4, <2>5, <2>6, <2>7, EcdhSteps DEF EcOnly
<1> QED
  BY <1>1, EcInvariance, PTL DEF EcdhSpec, EcKeyStaysUntilFree

-----------------------------------------------------------------------------
(* Secrets.                                                                *)

\* Only a call of mbedtls_ecdh_compute_shared leaves a secret.
LEMMA NoSecretElsewhere ==
  ASSUME [EcdhNext]_ecdhVars
  PROVE  \/ UNCHANGED ecdhVars
         \/ EcNext /\ last' = NotEcdh
         \/ \E e \in ecCache : ComputeShared(e)
  BY DEF EcdhNext

\* What a call gives is a point and not the zero point, or the call failed.
LEMMA SharedSecret ==
  ASSUME NEW c, NEW Q, NEW P \in mbedtls_ecdh_compute_shared(c, Q)
  PROVE  /\ P # Zero
         /\ P \notin {Null, Small} => c.grp # NoGroup /\ c.d # Zero /\ P = {c.d, Q}
<1>1. Null # Zero
  BY PkRsaAssumption DEF Value
<1> QED
  BY <1>1 DEF mbedtls_ecdh_compute_shared, Products, When, is_zero

-----------------------------------------------------------------------------
(* Entries match their contexts, when contexts are freed by the macro.     *)

NoneIsFresh == \A p \in Pk : pk[p].type = "none" => pk[p] = FreshPk

EcEntriesAreLive == \A e \in ecCache : pk_is_ec(ecOf[e.pk])

RsaInv == IInv /\ EntriesAreLive /\ NoneIsFresh
PairInv == EcEntriesAreLive /\ PairIsOfTheKeyOrEmpty /\ SecretIsOfTheKey
KindInv == RsaInv /\ EcInv /\ PairInv

LEMMA NoneIsFreshNext ==
  ASSUME RsaInv, [Next]_vars
  PROVE  NoneIsFresh'
<1> SUFFICES ASSUME NEW p \in Pk, pk'[p].type = "none" PROVE pk'[p] = FreshPk
  BY DEF NoneIsFresh
<1>1. pk[p].type = "none" => ~pk_is_rsa(pk[p]) /\ \A e \in cache : e.pk # p
  BY DEF RsaInv, EntriesAreLive, pk_is_rsa
<1> QED
  BY <1>1, ContextChanges DEF RsaInv, IInv, NoneIsFresh

\* A call that tells nothing and changes nothing is one that PkRsa has.
LEMMA QuietCall ==
  ASSUME NEW p \in Pk, UNCHANGED <<pk, heap, cache>>, out' = Quiet
  PROVE  Next
<1>1. CASE pk[p].type = "none"
  BY <1>1 DEF GetBitlen, pk_is_rsa, CallOnPk, Next
<1>2. CASE pk[p].type # "none"
  BY <1>2 DEF Setup, CallOnPk, Next
<1> QED
  BY <1>1, <1>2

\* Every step is one of PkRsa on the RSA part.
LEMMA EcdhIsPkRsa ==
  ASSUME RsaInv, EcTypeOK, [EcdhNext]_ecdhVars
  PROVE  [Next]_vars
<1>1. CASE EcOnly
  <2>1. \E p \in Pk : TRUE
    BY <1>1 DEF EcOnly, EcTypeOK, EcEntry
  <2> QED
    BY <1>1, <2>1, EcOnlyFrame, QuietCall
<1>2. ASSUME NEW p \in Pk, SetupEc(p) PROVE Next
  <2>1. pk[p] = FreshPk
    BY <1>2 DEF SetupEc, RsaInv, NoneIsFresh
  <2>2. [FreshPk EXCEPT !.type = "other"] = ParsedOther
    BY DEF FreshPk, ParsedOther
  <2>3. pk' = [pk EXCEPT ![p] = ParsedOther]
    BY <1>2, <2>1, <2>2 DEF SetupEc
  <2> QED
    BY <1>2, <2>3 DEF SetupEc, Parse, CallOnPk, Next
<1> QED
  BY <1>1, <1>2, RsaStepIsNext, FreesAndParses, EcdhSteps

\* Every step preserves what is said of the RSA part.
LEMMA RsaInvNext ==
  ASSUME ~LibraryFrees, RsaInv, EcTypeOK, [EcdhNext]_ecdhVars
  PROVE  RsaInv'
  BY EcdhIsPkRsa, IInvNext, EntriesLiveNext, NoneIsFreshNext DEF RsaInv

\* A context that is free, or is freed with its entry, has no entry.
LEMMA PairsStay ==
  ASSUME PairInv, NEW p, \A q \in Pk \ {p} : ecOf'[q] = ecOf[q],
         EcTypeOK, ecCache' \subseteq ecCache, \A e \in ecCache' : e.pk # p,
         \A e \in ecCache' : ecHeap'[e.ec] = ecHeap[e.ec], last' = NotEcdh
  PROVE  PairInv'
<1>1. \A e \in ecCache' : ecOf'[e.pk] = ecOf[e.pk]
  BY DEF EcTypeOK, EcEntry
<1>2. SecretIsOfTheKey'
  BY DEF SecretIsOfTheKey, NotEcdh
<1> QED
  BY <1>1, <1>2 DEF PairInv, EcEntriesAreLive, PairIsOfTheKeyOrEmpty

\* The new pair is that of the EC context, or empty.
LEMMA PairOfMiss ==
  ASSUME EcInv, PairInv, NEW p \in Pk, PkEc(p), last' = NotEcdh
  PROVE  PairInv'
<1>1. SecretIsOfTheKey' /\ ecOf' = ecOf
  BY DEF SecretIsOfTheKey, NotEcdh, PkEc
<1>2. CASE UNCHANGED <<ecHeap, ecCache>>
  BY <1>1, <1>2 DEF PairInv, EcEntriesAreLive, PairIsOfTheKeyOrEmpty
<1>3. ASSUME NEW x, PkEcMiss(p, x), pk_is_ec(ecOf[p]) PROVE PairInv'
  <2> DEFINE new == [pk |-> p, ec |-> x]
  <2>1. PICK c \in materialize_ec(ecOf[p]) : ecHeap' = [ecHeap EXCEPT ![x] = c]
    BY <1>3 DEF PkEcMiss
  <2>2. x \in Ec /\ ecHeap[x] = Free
    BY <1>3 DEF PkEcMiss, AvailableEc
  <2>3. \A e \in ecCache : e.ec # x /\ e.ec \in Ec
    BY <2>2 DEF EcInv, EcTypeOK, EcEntry, EcPairsAreOwned
  <2>4. ecCache' = ecCache \cup {new} /\ new.pk = p /\ new.ec = x
    BY <1>3 DEF PkEcMiss, ec_cache_insert
  <2>5. ecHeap'[x] = c /\ \A e \in ecCache : ecHeap'[e.ec] = ecHeap[e.ec]
    BY <2>1, <2>2, <2>3 DEF EcInv, EcTypeOK
  <2>6. HasEcKey(ecOf[p]) /\ c # EmptyPair
          => /\ c.grp = GroupOf[EcKeyIn(ecOf[p])] /\ c.grp # NoGroup
             /\ c.d = OrZero(ecOf[p].priv) /\ c.Q = OrZero(ecOf[p].pub)
    <3>1. c # EmptyPair => c = PairOf(ecOf[p]) /\ pk_ec_group_id(ecOf[p]) # NoGroup
      BY DEF materialize_ec, materialize_ec_from_psa, When
    <3> QED
      BY <3>1 DEF PairOf, pk_ec_group_id
  <2> HIDE DEF new
  <2> QED
    BY <1>1, <1>3, <2>4, <2>5, <2>6 DEF PairInv, EcEntriesAreLive, PairIsOfTheKeyOrEmpty
<1> QED
  BY <1>2, <1>3 DEF PkEc, ShimPkEc, PkEcHit, PkEcNull

LEMMA PairOfFill ==
  ASSUME EcInv, PairInv, NEW d \in ecCache, FillPair(d), last' = NotEcdh
  PROVE  PairInv'
<1>1. SecretIsOfTheKey' /\ ecOf' = ecOf /\ ecCache' = ecCache
  BY DEF SecretIsOfTheKey, NotEcdh, FillPair
<1>2. ~HasEcKey(ecOf[d.pk])
  BY DEF FillPair, HasEcKey, EcTemplate
<1>3. \A e \in ecCache : e # d => ecHeap'[e.ec] = ecHeap[e.ec]
  BY DEF FillPair, EcInv, EcTypeOK, EcEntry, EcPairsAreOwned
<1> QED
  BY <1>1, <1>2, <1>3 DEF PairInv, EcEntriesAreLive, PairIsOfTheKeyOrEmpty

LEMMA SecretOfShared ==
  ASSUME EcInv, PairInv, NEW e \in ecCache, ComputeShared(e)
  PROVE  PairInv'
<1>1. UNCHANGED <<ecOf, ecHeap, ecCache>>
  BY DEF ComputeShared, ecVars
<1>2. PICK Q \in Point : \E P \in mbedtls_ecdh_compute_shared(ecHeap[e.ec], Q) :
        last' = IF P = Null THEN NotEcdh ELSE [pk |-> e.pk, Q |-> Q, P |-> P]
  BY DEF ComputeShared
<1>3. PICK P \in mbedtls_ecdh_compute_shared(ecHeap[e.ec], Q) :
        last' = IF P = Null THEN NotEcdh ELSE [pk |-> e.pk, Q |-> Q, P |-> P]
  BY <1>2
<1> DEFINE x == ecOf[e.pk]
           c == ecHeap[e.ec]
<1>4. ASSUME P \notin {Null, Small}, HasEcKey(x) PROVE P = {x.priv, Q}
  <2>1. c.grp # NoGroup /\ c.d # Zero /\ P = {c.d, Q}
    BY <1>4, SharedSecret
  <2>2. c # EmptyPair
    BY <2>1 DEF EmptyPair
  <2>3. c.d = OrZero(x.priv)
    BY <1>4, <2>2 DEF PairInv, PairIsOfTheKeyOrEmpty
  <2> QED
    BY <2>1, <2>3 DEF OrZero
<1>5. SecretIsOfTheKey'
  BY <1>1, <1>3, <1>4 DEF SecretIsOfTheKey, NotEcdh
<1> QED
  BY <1>1, <1>5 DEF PairInv, EcEntriesAreLive, PairIsOfTheKeyOrEmpty

\* Every step preserves what is said of key pairs and secrets.
LEMMA PairInvNext ==
  ASSUME ~LibraryFrees, KindInv, [EcdhNext]_ecdhVars
  PROVE  PairInv'
<1> USE DEF KindInv
<1>1. CASE UNCHANGED ecdhVars
  BY <1>1 DEF ecdhVars, PairInv, EcEntriesAreLive, PairIsOfTheKeyOrEmpty, SecretIsOfTheKey
<1>2. ASSUME RsaNext, last' = NotEcdh PROVE PairInv'
  <2>1. UNCHANGED ecVars
    BY <1>2 DEF RsaNext
  <2> QED
    BY <1>2, <2>1 DEF ecVars, PairInv, EcEntriesAreLive, PairIsOfTheKeyOrEmpty,
                      SecretIsOfTheKey, NotEcdh
<1>3. ASSUME NEW p \in Pk, ParseAny(p) \/ SetupEc(p) \/ LibraryFreeAny(p), last' = NotEcdh
      PROVE  PairInv'
  <2>1. \A e \in ecCache : e.pk # p
    <3>1. CASE pk[p].type = "none"
      <4>1. ~pk_is_ec(ecOf[p])
        BY <3>1 DEF EcInv, EcTypeOK
      <4> QED
        BY <4>1 DEF PairInv, EcEntriesAreLive
    <3>2. CASE LibraryFreeAny(p)
      BY <3>2 DEF LibraryFreeAny, ec_cache_find
    <3> QED
      BY <1>3, <3>1, <3>2 DEF ParseAny, Parse, SetupEc
  <2>2. \A q \in Pk \ {p} : ecOf'[q] = ecOf[q]
    BY <1>3 DEF ParseAny, SetupEc, LibraryFreeAny, ForgetEc, EcInv, EcTypeOK
  <2>3. ecCache' = ecCache /\ ecHeap' = ecHeap
    BY <1>3 DEF ParseAny, SetupEc, LibraryFreeAny
  <2> QED
    BY <1>3, <2>1, <2>2, <2>3, PairsStay DEF EcInv
<1>4. ASSUME NEW p \in Pk, FreeBoth(p), last' = NotEcdh PROVE PairInv'
  <2>1. \A q \in Pk \ {p} : ecOf'[q] = ecOf[q]
    BY <1>4 DEF FreeBoth, ForgetEc, EcInv, EcTypeOK
  <2>2. /\ ecCache' \subseteq ecCache /\ \A e \in ecCache' : e.pk # p
        /\ \A e \in ecCache' : ecHeap'[e.ec] = ecHeap[e.ec]
    <3>1. CASE ec_cache_find(p) = {} /\ UNCHANGED <<ecHeap, ecCache>>
      BY <3>1 DEF ec_cache_find
    <3>2. ASSUME NEW d \in ec_cache_find(p), ecCache' = ecCache \ {d},
                 ecHeap' = [ecHeap EXCEPT ![d.ec] = Free]
          PROVE  /\ ecCache' \subseteq ecCache /\ \A e \in ecCache' : e.pk # p
                 /\ \A e \in ecCache' : ecHeap'[e.ec] = ecHeap[e.ec]
      <4>1. d \in ecCache /\ d.pk = p
        BY DEF ec_cache_find
      <4>2. \A e \in ecCache' : e \in ecCache /\ e.pk # p /\ e.ec # d.ec
        BY <3>2, <4>1 DEF EcInv, EcPairsAreOwned
      <4> QED
        BY <3>2, <4>2 DEF EcInv, EcTypeOK, EcEntry
    <3> QED
      BY <1>4, <3>1, <3>2 DEF FreeBoth, ec_cache_release
  <2> QED
    BY <1>4, <2>1, <2>2, PairsStay DEF EcInv
<1>5. ASSUME EcNext, last' = NotEcdh PROVE PairInv'
  BY <1>2, <1>3, <1>4, <1>5, PairOfMiss, PairOfFill DEF EcNext
<1> QED
  BY <1>1, <1>5, SecretOfShared, NoSecretElsewhere

\* Every reachable state satisfies the invariant.
THEOREM KindInvariance ==
  ASSUME ~LibraryFrees
  PROVE  EcdhSpec => []KindInv
<1>1. EcdhInit => RsaInv /\ PairInv
  <2> SUFFICES ASSUME EcdhInit PROVE RsaInv /\ PairInv
    OBVIOUS
  <2>1. IInv /\ EntriesAreLive /\ NoneIsFresh
    BY IInvInit DEF EcdhInit, EcInit, Init, EntriesAreLive, NoneIsFresh
  <2>2. PairInv
    BY DEF EcdhInit, EcInit, PairInv, EcEntriesAreLive, PairIsOfTheKeyOrEmpty,
           SecretIsOfTheKey, NotEcdh
  <2> QED
    BY <2>1, <2>2 DEF RsaInv
<1>2. RsaInv /\ EcInv /\ [EcdhNext]_ecdhVars => RsaInv'
  BY RsaInvNext DEF EcInv
<1>3. KindInv /\ [EcdhNext]_ecdhVars => PairInv'
  BY PairInvNext
<1> QED
  BY <1>1, <1>2, <1>3, EcInvariance, PTL DEF EcdhSpec, KindInv

\* When an address is freed and used again for a key of the other kind,
\* neither mbedtls_pk_rsa nor mbedtls_pk_ec answers with what was there.
THEOREM CachesMatchKinds ==
  ASSUME ~LibraryFrees
  PROVE  EcdhSpec => []EntriesMatchKind
<1>1. KindInv => EntriesMatchKind
  BY DEF KindInv, RsaInv, PairInv, EntriesAreLive, EcEntriesAreLive, EntriesMatchKind
<1> QED
  BY <1>1, KindInvariance, PTL

\* A cached key pair is empty, or it has what its pk context has of the key:
\* the private number if that is in the PSA slot and the public point if that is
\* in pub_raw, whatever failed while they were read.
THEOREM PairsAreOfTheKey ==
  ASSUME ~LibraryFrees
  PROVE  EcdhSpec => []PairIsOfTheKeyOrEmpty
<1>1. KindInv => PairIsOfTheKeyOrEmpty
  BY DEF KindInv, PairInv
<1> QED
  BY <1>1, KindInvariance, PTL

\* A secret computed with the pair of a pk context is that of the key in its
\* PSA slot: never of a key that was at the address before, nor of a pair
\* that holds no private number.
THEOREM SecretsAreOfTheKey ==
  ASSUME ~LibraryFrees
  PROVE  EcdhSpec => []SecretIsOfTheKey
<1>1. KindInv => SecretIsOfTheKey
  BY DEF KindInv, PairInv
<1> QED
  BY <1>1, KindInvariance, PTL

\* Beside the EC calls and the second cache the RSA part behaves as PkRsa
\* does, so that what is proved of PkRsa holds of both together.
THEOREM RsaPartRefines ==
  ASSUME ~LibraryFrees
  PROVE  EcdhSpec => RsaPartIsPkRsa
<1>1. EcdhInit => Init
  BY DEF EcdhInit, EcInit
<1>2. KindInv /\ [EcdhNext]_ecdhVars => [Next]_vars
  BY EcdhIsPkRsa DEF KindInv, EcInv
<1> QED
  BY <1>1, <1>2, KindInvariance, PTL DEF EcdhSpec, RsaPartIsPkRsa, Spec

\* Beside the EC calls and the second cache too, the cached RSA context of a key
\* that is in PSA is that key, and a public key that is published stays
\* published, whatever failed completions have left behind.
THEOREM RsaKeysStayBesideEc ==
  ASSUME ~Reimport, ~LibraryFrees
  PROVE  EcdhSpec => []CachedKeyIsPsaKey /\ PublicKeyIsKept
<1>1. EcdhSpec => Spec
  BY RsaPartRefines DEF RsaPartIsPkRsa
<1> QED
  BY <1>1, PsaKeyIsCached, PublishedKeyStays

\* And when callers build one key per pk context, what legacy code sees of the
\* RSA keys is what it would see if each pk context simply owned its RSA
\* context: mbedtls_pk_verify, mbedtls_pk_encrypt and mbedtls_pk_get_bitlen are
\* about the same key.
THEOREM LegacyPkBesideEc ==
  ASSUME CallersBuildOneKey
  PROVE  EcdhSpec => /\ [](PublishedKeyIsContextKey /\ BitsAreModulusBits)
                     /\ []CompletedKeyIsPublished
                     /\ ImplementsLegacyPk
<1>1. EcdhSpec => Spec
  BY RsaPartRefines DEF RsaPartIsPkRsa, CallersBuildOneKey
<1>2. Spec => [](PublishedKeyIsContextKey /\ BitsAreModulusBits)
  BY PublishedKeyIsCached, BitsAreOfTheModulus, PTL
<1>3. Spec => []CompletedKeyIsPublished /\ ImplementsLegacyPk
  BY CompletionPublishes, MaterializationIsInvisible
<1> QED
  BY <1>1, <1>2, <1>3
=============================================================================

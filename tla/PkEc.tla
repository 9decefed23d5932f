-------------------------------- MODULE PkEc ---------------------------------
(***************************************************************************)
(* Lazy EC materialization, src/src/pk_ec.c, beside the RSA part that      *)
(* PkRsa models: one set of pk contexts, two caches, and the calls of      *)
(* src/src/mbedtls/pk.h on both.                                           *)
(*                                                                         *)
(* An EC pk context has type "other" in PkRsa; ecOf is the rest of what    *)
(* pk_ec.c reads of it.  A number or a point of a key pair is abstracted   *)
(* to the key it belongs to, or Zero when it is not set.                   *)
(***************************************************************************)
EXTENDS PkRsa

CONSTANTS
  EcKey,    \* the EC keys
  Group,    \* the curves
  NoGroup,  \* MBEDTLS_ECP_DP_NONE
  GroupOf,  \* GroupOf[k] is the curve of k, NoGroup if the build has no such curve
  Ec        \* addresses mbedtls_calloc can give to a key pair

Pair == [grp : Group \cup {NoGroup}, d : EcKey \cup {Zero}, Q : EcKey \cup {Zero}]

ASSUME PkEcAssumption ==
  /\ NoGroup \notin Group
  /\ GroupOf \in [EcKey -> Group \cup {NoGroup}]
  /\ {Null, Zero} \cap EcKey = {}
  /\ Null \notin Ec
  /\ Free \notin Pair

VARIABLES
  ecOf,     \* ecOf[p] is the EC part of the pk context at p
  ecHeap,   \* ecHeap[x] is the key pair at x, or Free
  ecCache   \* the entries of s_pk_ec_cache

ecVars  == <<ecOf, ecHeap, ecCache>>
allVars == <<pk, heap, cache, out, ecOf, ecHeap, ecCache>>

EcPart  == [ec : BOOLEAN, priv : EcKey \cup {Null}, pub : EcKey \cup {Null}]
EcEntry == [pk : Pk, ec : Ec]

NotEc      == [ec |-> FALSE, priv |-> Null, pub |-> Null]
EcTemplate == [ec |-> TRUE,  priv |-> Null, pub |-> Null]

-----------------------------------------------------------------------------
(* The cache.                                                              *)

ec_cache_find(p) == {e \in ecCache : e.pk = p}
AvailableEc      == {x \in Ec : ecHeap[x] = Free}

\* Mutant: the new entry does not point to the rest of the list.
EcInsertLosesTheList(p, x) == ecCache' = {[pk |-> p, ec |-> x]}

ec_cache_insert(p, x) == ecCache' = ecCache \cup {[pk |-> p, ec |-> x]}

\* Mutant: the key pair of the entry is not freed.
EcReleaseLeaks(p) ==
  /\ ecCache' = ecCache \ ec_cache_find(p)
  /\ UNCHANGED ecHeap

\* mbedtls_v3_shim_pk_ec_cache_release
ec_cache_release(p) ==
  \/ ec_cache_find(p) = {} /\ UNCHANGED <<ecHeap, ecCache>>
  \/ \E e \in ec_cache_find(p) :
       /\ ecCache' = ecCache \ {e}
       /\ ecHeap' = [ecHeap EXCEPT ![e.ec] = Free]

-----------------------------------------------------------------------------
(* Materialization.                                                        *)

EmptyPair == [grp |-> NoGroup, d |-> Zero, Q |-> Zero]

pk_is_ec(x)  == x.ec
HasEcKey(x)  == x.priv # Null \/ x.pub # Null
EcKeyIn(x)   == IF x.priv # Null THEN x.priv ELSE x.pub

pk_ec_group_id(x) == GroupOf[EcKeyIn(x)]

OrZero(k) == IF k = Null THEN Zero ELSE k

\* The key pair that the EC context x stands for.
PairOf(x) == [grp |-> pk_ec_group_id(x), d |-> OrZero(x.priv), Q |-> OrZero(x.pub)]

\* Mutant: a public point that cannot be read is left out.
PsaPairsWithoutPoint(x) ==
  When(pk_ec_group_id(x) # NoGroup,
       {PairOf(x)} \cup When(MayFail, {[PairOf(x) EXCEPT !.Q = Zero]}))

\* The private number comes from the PSA slot, the public point from pub_raw,
\* unless that is empty; with a failure of either nothing is left of the pair.
materialize_ec_from_psa(x) == When(pk_ec_group_id(x) # NoGroup, {PairOf(x)})

\* A key that is not materialized is replaced by an empty pair.
materialize_ec(x) ==
  LET reads == PsaCryptoC /\ HasEcKey(x)
      pairs == When(reads, materialize_ec_from_psa(x))
  IN  pairs \cup When(MayFail \/ pairs = {}, {EmptyPair})

PkEcHit(p, x) ==
  /\ \E e \in ec_cache_find(p) : x = e.ec
  /\ UNCHANGED <<ecHeap, ecCache>>

PkEcMiss(p, x) ==
  /\ ec_cache_find(p) = {}
  /\ x \in AvailableEc
  /\ \E c \in materialize_ec(ecOf[p]) : ecHeap' = [ecHeap EXCEPT ![x] = c]
  /\ ec_cache_insert(p, x)

\* Not an EC context, or an allocation fails; a pair that finds no entry is
\* freed again.
PkEcNull(p) ==
  /\ pk_is_ec(ecOf[p]) => /\ ec_cache_find(p) = {}
                          /\ MayFail \/ AvailableEc = {}
  /\ UNCHANGED <<ecHeap, ecCache>>

\* mbedtls_v3_shim_pk_ec
ShimPkEc(p, x) ==
  \/ pk_is_ec(ecOf[p]) /\ (PkEcHit(p, x) \/ PkEcMiss(p, x))
  \/ x = Null /\ PkEcNull(p)

-----------------------------------------------------------------------------
(* Calls.                                                                  *)

PkEc(p) ==
  /\ \E x \in Ec \cup {Null} : ShimPkEc(p, x)
  /\ out' = Quiet
  /\ UNCHANGED <<pk, heap, cache, ecOf>>

\* What the external mbedtls_pk_parse_key and the like make of an EC key.
ParsedEc(k) == {[ec |-> TRUE, priv |-> k,    pub |-> k],
                [ec |-> TRUE, priv |-> k,    pub |-> Null],
                [ec |-> TRUE, priv |-> Null, pub |-> k]}

\* A context that is not RSA is EC or another kind that src/ does not handle.
ParseAny(p) ==
  /\ Parse(p)
  /\ \/ pk_is_rsa(pk'[p]) /\ UNCHANGED ecOf
     \/ /\ ~pk_is_rsa(pk'[p])
        /\ \E x \in {NotEc} \cup UNION {ParsedEc(k) : k \in EcKey} :
             ecOf' = [ecOf EXCEPT ![p] = x]
  /\ UNCHANGED <<ecHeap, ecCache>>

\* Mutant: the info is taken for that of an RSA context.
SetupEcAsRsa(p) == Setup(p) /\ ecOf' = [ecOf EXCEPT ![p] = EcTemplate]
                   /\ UNCHANGED <<ecHeap, ecCache>>

\* mbedtls_v3_shim_pk_setup with the info of an EC context in place of the
\* dummy: the real call sets the context up, and no RSA context is made.
SetupEc(p) ==
  /\ pk[p].type = "none"
  /\ pk' = [pk EXCEPT ![p].type = "other"]
  /\ ecOf' = [ecOf EXCEPT ![p] = EcTemplate]
  /\ out' = Quiet
  /\ UNCHANGED <<heap, cache, ecHeap, ecCache>>

\* A caller puts a key into the pair of a context it has set up.
FillPair(e) ==
  /\ ecOf[e.pk] = EcTemplate /\ ecHeap[e.ec] = EmptyPair
  /\ \E k \in EcKey :
       /\ GroupOf[k] # NoGroup
       /\ ecHeap' = [ecHeap EXCEPT ![e.ec] = [grp |-> GroupOf[k], d |-> k, Q |-> k]]
  /\ out' = Quiet
  /\ UNCHANGED <<pk, heap, cache, ecOf, ecCache>>

ForgetEc(p) == ecOf' = [ecOf EXCEPT ![p] = NotEc]

\* Mutant: only the RSA cache is released.
FreeRsaOnly(p) == PkFree(p) /\ ForgetEc(p) /\ UNCHANGED <<ecHeap, ecCache>>

\* Mutant: only the EC cache is released.
FreeEcOnly(p) ==
  /\ pk' = [pk EXCEPT ![p] = FreshPk]
  /\ out' = Quiet
  /\ ForgetEc(p)
  /\ ec_cache_release(p)
  /\ UNCHANGED <<heap, cache>>

\* mbedtls_v3_shim_pk_free releases both caches, then calls the real one.
FreeBoth(p) == PkFree(p) /\ ForgetEc(p) /\ ec_cache_release(p)

\* The real mbedtls_pk_free, from code the macro does not reach.
LibraryFreeAny(p) ==
  /\ LibraryFrees \/ ec_cache_find(p) = {}
  /\ LibraryFree(p) /\ ForgetEc(p)
  /\ UNCHANGED <<ecHeap, ecCache>>

\* The calls of PkRsa that do the same whatever the EC part is.
RsaCallOnPk(p) ==
  \/ Setup(p) \/ PkRsa(p) \/ GetBitlen(p) \/ Verify(p) \/ Sign(p)
  \/ Crypt("encrypt", p) \/ Crypt("decrypt", p) \/ WritePubkey(p)

-----------------------------------------------------------------------------
EcInit ==
  /\ Init
  /\ ecOf = [p \in Pk |-> NotEc]
  /\ ecHeap = [x \in Ec |-> Free]
  /\ ecCache = {}

RsaNext ==
  /\ \/ \E p \in Pk : RsaCallOnPk(p)
     \/ \E r \in Rsa : CallOnRsa(r)
  /\ UNCHANGED ecVars

EcNext ==
  \/ RsaNext
  \/ \E p \in Pk : \/ ParseAny(p) \/ SetupEc(p) \/ PkEc(p)
                   \/ FreeBoth(p) \/ LibraryFreeAny(p)
  \/ \E e \in ecCache : FillPair(e)

EcSpec == EcInit /\ [][EcNext]_allVars

-----------------------------------------------------------------------------
(* Properties.                                                             *)

EcTypeOK ==
  /\ ecOf \in [Pk -> EcPart]
  /\ ecHeap \in [Ec -> Pair \cup {Free}]
  /\ ecCache \in SUBSET EcEntry
  /\ \A p \in Pk : pk_is_ec(ecOf[p]) => pk[p].type = "other"

\* Every allocated key pair has one entry, and every pk context at most one:
\* no failure of mbedtls_v3_shim_pk_ec leaks a pair or leaves an entry dangling.
EcPairsAreOwned ==
  /\ \A x \in Ec : ecHeap[x] # Free <=> \E e \in ecCache : e.ec = x
  /\ \A e, f \in ecCache : e.pk = f.pk \/ e.ec = f.ec => e = f

\* Each cache holds entries of pk contexts of its kind only: when an address is
\* freed and used again for a key of the other kind, neither mbedtls_pk_rsa nor
\* mbedtls_pk_ec answers with what was there before.
EntriesMatchKind ==
  /\ \A e \in cache : pk_is_rsa(pk[e.pk])
  /\ \A e \in ecCache : pk_is_ec(ecOf[e.pk])

\* The pair of a pk context that has a key is empty, or it has the group, the
\* private number if there is one in the PSA slot, and the public point if there
\* is one in pub_raw.  So no failure leaves one of the two out, and nothing is
\* of a key that was at the address before.  It is not promised that the pair
\* has a point: when pub_raw is empty it is handed out without.
PairIsOfTheKeyOrEmpty ==
  \A e \in ecCache :
    LET x == ecOf[e.pk]
        c == ecHeap[e.ec]
    IN  HasEcKey(x) /\ c # EmptyPair
          => /\ c.grp = GroupOf[EcKeyIn(x)] /\ c.grp # NoGroup
             /\ c.d = OrZero(x.priv)
             /\ c.Q = OrZero(x.pub)

\* The pointer that mbedtls_pk_ec gave stays the one it gives, and the key
\* behind it stays what it is, until the pk context is freed.
EcKeyStaysUntilFree ==
  [][\A e \in ecCache :
       \/ /\ e \in ecCache'
          /\ ecHeap[e.ec] # EmptyPair => ecHeap'[e.ec] = ecHeap[e.ec]
       \/ pk'[e.pk] = FreshPk]_allVars

\* The EC calls and the second cache leave the RSA part as PkRsa has it: what
\* is true of PkRsa stays true of both together.
RsaPartIsPkRsa == Spec
=============================================================================

--------------------------- MODULE PkRsaKeyProofs ----------------------------
(***************************************************************************)
(* The copies of a key agree: what is in the PSA slot, in pub_raw, in bits *)
(* and in the cached RSA context of a pk context is one key, for any       *)
(* number of pk contexts and keys and whatever fails, when callers build   *)
(* one key per pk context, free it after a failed completion, and free it  *)
(* through the macro.  A theorem that assumes less has an invariant of its *)
(* own; each assumption that a theorem has is needed (README).             *)
(*                                                                         *)
(* The invariant ties the four copies to one key k at a time.  That k      *)
(* exists for a context under construction is what the guard of an import  *)
(* gives; that it stays is because a computation on components of k yields *)
(* components of k (CompletionOfOneKey), and because the synchronization   *)
(* writes what the RSA context holds.                                      *)
(***************************************************************************)
EXTENDS PkRsaRefinement, PkRsaProofs

CallersBuildOneKey == ~Reimport /\ ~Retry /\ ~LibraryFrees

-----------------------------------------------------------------------------
(* The invariant.                                                          *)

\* The pk context x and its RSA context c are of the key k, as far as they are
\* filled in.
Agrees(x, c, k) ==
  /\ CleanButScratch(c, k)
  /\ x.priv # Null => x.priv = k /\ c = PrivateCtx(k)
  /\ x.pub \in {Null, k}
  /\ x.bits \in {0, ModulusBits[k]}

\* They wait for a key.
Keyless(x) == x.priv = Null /\ x.pub = Null /\ x.bits = 0

EntryAgrees(x, c) ==
  \/ Keyless(x) /\ c = EmptyCtx
  \/ \E k \in Key : Agrees(x, c, k)

\* A pk context that is not RSA has no RSA key, the copies outside the RSA
\* context are of one key, and what is in pub_raw fits there.
Whole(x) ==
  /\ x.type # "rsa" => Keyless(x)
  /\ x.priv # Null => x.pub \in {Null, x.priv} /\ x.bits \in {0, ModulusBits[x.priv]}
  /\ x.pub # Null => x.pub \in Key /\ ModulusBits[x.pub] <= PubRawMaxBits

KeysAgree ==
  /\ \A p \in Pk : Whole(pk[p])
  /\ \A e \in cache : EntryAgrees(pk[e.pk], heap[e.rsa])

\* What mbedtls_rsa_complete said when it succeeded is so.
CompletionAgrees ==
  \A e \in cache :
    out.op = "complete" /\ out.rc = "ok" /\ out.pk = e.pk =>
      \E k \in Key : /\ Coherent(heap[e.rsa], k)
                     /\ out.key = k
                     /\ pk[e.pk].bits = ModulusBits[k]
                     /\ pk[e.pk].pub =
                          IF ModulusBits[k] <= PubRawMaxBits THEN k ELSE Null

\* What the proofs of PkRsaProofs say of a state.
Owned == StateOK /\ EntriesAreLive /\ TemplatesAreCached

KeyInv == Owned /\ KeysAgree /\ CompletionAgrees

-----------------------------------------------------------------------------
(* Operators on one pk context.                                            *)

\* A number of k that is set is k.
LEMMA HaveIsKey ==
  ASSUME NEW c, NEW k \in Key, CleanButScratch(c, k), NEW f \in {"N", "E"}, Have(c, f)
  PROVE  c.mpi[f] = k
  BY DEF CleanButScratch, Have, Field, Part

LEMMA KeyBits ==
  ASSUME NEW k \in Key
  PROVE  Bits(k) = ModulusBits[k] /\ ModulusBits[k] \in Nat \ {0} /\ k # Null
  BY RsaContextAssumption, PkRsaAssumption DEF Bits, Value

\* Writing pub_raw from the RSA context of k.
LEMMA SyncPubkeyAgrees ==
  ASSUME NEW x \in PkCtx, NEW c \in Ctx, NEW k \in Key, Agrees(x, c, k)
  PROVE  LET y == pk_sync_pubkey_raw_from_rsa(x, c)
         IN  /\ Agrees(y, c, k)
             /\ Whole(x) /\ pk_is_rsa(x) => Whole(y)
             /\ Have(c, "N") /\ Have(c, "E") /\ ModulusBits[k] <= PubRawMaxBits
                  => y.pub = k
             /\ y.bits = x.bits
<1> DEFINE y == pk_sync_pubkey_raw_from_rsa(x, c)
           z == [x EXCEPT !.pub = PublicOf(c)]
<1> SUFFICES /\ Agrees(y, c, k)
             /\ Whole(x) /\ pk_is_rsa(x) => Whole(y)
             /\ Have(c, "N") /\ Have(c, "E") /\ ModulusBits[k] <= PubRawMaxBits
                  => y.pub = k
             /\ y.bits = x.bits
  OBVIOUS
<1>1. Have(c, "N") /\ Have(c, "E") => PublicOf(c) = k /\ Bits(c.mpi["N"]) = ModulusBits[k]
  BY HaveIsKey, KeyBits DEF PublicOf, Agrees
<1>2. \/ /\ y = x
         /\ \/ x.pub # Null \/ ~Have(c, "N") \/ ~Have(c, "E")
            \/ Bits(c.mpi["N"]) > PubRawMaxBits
      \/ /\ y = z /\ Have(c, "N") /\ Have(c, "E")
         /\ ~(Bits(c.mpi["N"]) > PubRawMaxBits)
  BY DEF pk_sync_pubkey_raw_from_rsa
<1>3. z.type = x.type /\ z.priv = x.priv /\ z.bits = x.bits /\ z.pub = PublicOf(c)
  BY DEF PkCtx
<1> HIDE DEF y, z
<1>4. CASE y = x
  <2>1. Have(c, "N") /\ Have(c, "E") /\ ModulusBits[k] <= PubRawMaxBits => x.pub = k
    BY <1>1, <1>2, <1>3, <1>4, KeyBits, PkRsaAssumption DEF Agrees
  <2> QED
    BY <1>4, <2>1
<1>5. CASE y # x
  <2>1. y = z /\ z.pub = k /\ ModulusBits[k] <= PubRawMaxBits
    BY <1>1, <1>2, <1>3, <1>5, KeyBits, PkRsaAssumption
  <2>2. Agrees(y, c, k)
    BY <1>3, <2>1 DEF Agrees
  <2>3. Whole(x) /\ pk_is_rsa(x) => Whole(y)
    BY <1>3, <2>1, KeyBits DEF Agrees, Whole, pk_is_rsa
  <2> QED
    BY <1>3, <2>1, <2>2, <2>3
<1> QED
  BY <1>4, <1>5

\* The whole synchronization.
LEMMA SyncAgrees ==
  ASSUME NEW x \in PkCtx, NEW c \in Ctx, NEW k \in Key, Agrees(x, c, k)
  PROVE  LET y == pk_sync_from_rsa(x, c)
         IN  /\ Agrees(y, c, k)
             /\ Whole(x) /\ pk_is_rsa(x) => Whole(y)
             /\ Have(c, "N") /\ Have(c, "E") /\ ModulusBits[k] <= PubRawMaxBits
                  => y.pub = k
             /\ Have(c, "N") => y.bits = ModulusBits[k]
<1> DEFINE z == pk_sync_bits_from_rsa(x, c)
<1>1. Have(c, "N") => Bits(c.mpi["N"]) = ModulusBits[k]
  BY HaveIsKey, KeyBits DEF Agrees
<1>2. /\ z \in PkCtx /\ z.type = x.type /\ z.priv = x.priv /\ z.pub = x.pub
      /\ z.bits \in {x.bits, ModulusBits[k]}
      /\ Have(c, "N") => z.bits = ModulusBits[k]
  BY <1>1, KeyBits DEF pk_sync_bits_from_rsa, PkCtx, Agrees
<1>3. Agrees(z, c, k)
  BY <1>2 DEF Agrees
<1>4. Whole(x) /\ pk_is_rsa(x) => Whole(z) /\ pk_is_rsa(z)
  BY <1>2, KeyBits DEF Agrees, Whole, pk_is_rsa
<1>5. pk_sync_from_rsa(x, c) = pk_sync_pubkey_raw_from_rsa(z, c)
  BY DEF pk_sync_from_rsa
<1> HIDE DEF z
<1> QED
  BY <1>2, <1>3, <1>4, <1>5, SyncPubkeyAgrees

\* There is nothing to synchronize from an empty RSA context.
LEMMA SyncNothing ==
  ASSUME NEW x
  PROVE  /\ pk_sync_pubkey_raw_from_rsa(x, EmptyCtx) = x
         /\ pk_sync_from_rsa(x, EmptyCtx) = x
<1>1. ~Have(EmptyCtx, "N")
  BY DEF Have, EmptyCtx, Field, Part
<1> QED
  BY <1>1 DEF pk_sync_from_rsa, pk_sync_pubkey_raw_from_rsa, pk_sync_bits_from_rsa

\* What holds of an entry and its pk context holds after a synchronization.
LEMMA SyncEntry ==
  ASSUME NEW x \in PkCtx, NEW c \in Ctx, EntryAgrees(x, c)
  PROVE  /\ EntryAgrees(pk_sync_from_rsa(x, c), c)
         /\ Whole(x) /\ pk_is_rsa(x) => Whole(pk_sync_from_rsa(x, c))
         /\ EntryAgrees(pk_sync_pubkey_raw_from_rsa(x, c), c)
         /\ Whole(x) /\ pk_is_rsa(x) => Whole(pk_sync_pubkey_raw_from_rsa(x, c))
<1>1. CASE Keyless(x) /\ c = EmptyCtx
  BY <1>1, SyncNothing DEF EntryAgrees
<1>2. CASE \E k \in Key : Agrees(x, c, k)
  BY <1>2, SyncAgrees, SyncPubkeyAgrees DEF EntryAgrees
<1> QED
  BY <1>1, <1>2 DEF EntryAgrees

LEMMA PrivateAgrees ==
  ASSUME NEW x, Whole(x), NEW k \in Key, x.priv = k
  PROVE  Agrees(x, PrivateCtx(k), k)
<1>1. CleanButScratch(PrivateCtx(k), k)
  BY PrivateIsFull DEF Clean, CleanButScratch
<1> QED
  BY <1>1, KeyBits DEF Agrees, Whole

\* What is materialized from a pk context agrees with it.
LEMMA MaterializeAgrees ==
  ASSUME NEW x \in PkCtx, Whole(x), x.priv = Null /\ x.pub = Null => x.bits = 0,
         NEW c \in materialize_rsa(x)
  PROVE  EntryAgrees(x, c)
<1>1. CASE pk_is_empty_rsa_template(x)
  BY <1>1 DEF materialize_rsa, pk_is_empty_rsa_template, EntryAgrees, Keyless
<1>2. CASE ~pk_is_empty_rsa_template(x)
  <2>1. x.priv # Null /\ c = PrivateCtx(x.priv)
    BY <1>2 DEF materialize_rsa, materialize_rsa_from_pk_der,
                materialize_rsa_from_psa, pk_has_private_psa_key, When
  <2> QED
    BY <2>1, PrivateAgrees DEF PkCtx, EntryAgrees
<1> QED
  BY <1>1, <1>2

-----------------------------------------------------------------------------
(* Steps.                                                                  *)

\* A cached pk context is RSA, so that a free address has no entry.
LEMMA CachedIsRsa ==
  ASSUME Owned, NEW e \in cache
  PROVE  /\ e.pk \in Pk /\ e.rsa \in Rsa /\ heap[e.rsa] \in Ctx
         /\ pk_is_rsa(pk[e.pk]) /\ pk[e.pk] \in PkCtx
  BY EntryHasContext DEF Owned, EntriesAreLive, StateOK

\* One pk context changes, and agrees with its entry as it did.
LEMMA OneContextChanges ==
  ASSUME Owned, KeysAgree, NEW p \in Pk, NEW y, Whole(y),
         pk' = [pk EXCEPT ![p] = y], cache' \subseteq cache,
         \A e \in cache' : heap'[e.rsa] = heap[e.rsa],
         \A e \in cache' : e.pk = p => EntryAgrees(y, heap[e.rsa])
  PROVE  KeysAgree'
<1>1. pk'[p] = y /\ \A q \in Pk \ {p} : pk'[q] = pk[q]
  BY DEF Owned, StateOK
<1>2. \A q \in Pk : Whole(pk'[q])
  BY <1>1 DEF KeysAgree
<1>3. \A e \in cache' : EntryAgrees(pk'[e.pk], heap'[e.rsa])
  BY <1>1, CachedIsRsa DEF KeysAgree
<1> QED
  BY <1>2, <1>3 DEF KeysAgree

\* mbedtls_v3_shim_pk_rsa finds the entry of p.
LEMMA HitAgrees ==
  ASSUME Owned, KeysAgree, NEW p \in Pk, NEW r, PkRsaHit(p, pk[p], r)
  PROVE  KeysAgree'
<1> DEFINE y == pk_sync_from_rsa(pk[p], heap[r])
<1>1. PICK e \in cache : e.pk = p /\ r = e.rsa
  BY DEF PkRsaHit, cache_find
<1>2. /\ pk[p] \in PkCtx /\ heap[r] \in Ctx /\ pk_is_rsa(pk[p])
      /\ EntryAgrees(pk[p], heap[r]) /\ Whole(pk[p])
  BY <1>1, CachedIsRsa DEF KeysAgree
<1>3. Whole(y) /\ EntryAgrees(y, heap[r])
  BY <1>2, SyncEntry
<1>4. \A f \in cache : f.pk = p => f.rsa = r
  BY <1>1 DEF Owned, StateOK, CacheIsAMap
<1> HIDE DEF y
<1>5. pk' = [pk EXCEPT ![p] = y] /\ cache' = cache /\ heap' = heap
  BY DEF PkRsaHit, y
<1> QED
  BY <1>3, <1>4, <1>5, OneContextChanges

\* It makes the RSA context of the pk context x and an entry.
LEMMA MissAgrees ==
  ASSUME Owned, KeysAgree, NEW p \in Pk, NEW x \in PkCtx, Whole(x),
         x.priv = Null /\ x.pub = Null => x.bits = 0,
         NEW r, PkRsaMiss(p, x, r)
  PROVE  KeysAgree'
<1>1. PICK c \in materialize_rsa(x) :
        /\ heap' = [heap EXCEPT ![r] = c]
        /\ pk' = [pk EXCEPT ![p] = pk_sync_from_rsa(x, c)]
  BY DEF PkRsaMiss, Allocate
<1> DEFINE y == pk_sync_from_rsa(x, c)
           new == [pk |-> p, rsa |-> r]
<1>2. EntryAgrees(y, c) /\ Whole(y)
  <2>1. c \in Ctx /\ EntryAgrees(x, c) /\ pk_is_rsa(x)
    BY MaterializeType, MaterializeAgrees DEF PkRsaMiss
  <2> QED
    BY <2>1, SyncEntry
<1>3. r \in Rsa /\ heap[r] = Free
  BY DEF PkRsaMiss, Available
<1>4. \A e \in cache : e.pk # p /\ e.rsa # r
  BY <1>3 DEF PkRsaMiss, IsCached, cache_find, Owned, StateOK, HeapIsTheCache
<1>5. pk'[p] = y /\ \A q \in Pk \ {p} : pk'[q] = pk[q]
  BY <1>1 DEF Owned, StateOK
<1>6. heap'[r] = c /\ \A q \in Rsa \ {r} : heap'[q] = heap[q]
  BY <1>1, <1>3 DEF Owned, StateOK
<1>7. cache' = cache \cup {new} /\ new.pk = p /\ new.rsa = r
  BY DEF PkRsaMiss, cache_insert
<1> HIDE DEF y, new
<1>8. \A q \in Pk : Whole(pk'[q])
  BY <1>2, <1>5 DEF KeysAgree
<1>9. \A e \in cache : pk'[e.pk] = pk[e.pk] /\ heap'[e.rsa] = heap[e.rsa]
  BY <1>4, <1>5, <1>6, CachedIsRsa
<1>10. \A e \in cache' : EntryAgrees(pk'[e.pk], heap'[e.rsa])
  BY <1>2, <1>5, <1>6, <1>7, <1>9 DEF KeysAgree
<1> QED
  BY <1>8, <1>10 DEF KeysAgree

LEMMA ShimPkRsaAgrees ==
  ASSUME Owned, KeysAgree, NEW p \in Pk, NEW r, ShimPkRsa(p, r)
  PROVE  KeysAgree'
<1>1. pk[p] \in PkCtx /\ Whole(pk[p])
  BY DEF Owned, StateOK, KeysAgree
<1>2. CASE PkRsaHit(p, pk[p], r)
  BY <1>2, HitAgrees
<1>3. CASE PkRsaMiss(p, pk[p], r)
  <2>1. pk[p].priv # Null \/ pk[p].pub # Null
    BY <1>3 DEF PkRsaMiss, Owned, TemplatesAreCached, pk_is_empty_rsa_template
  <2> QED
    BY <1>1, <1>3, <2>1, MissAgrees
<1>4. CASE r = Null /\ PkRsaNull(p, pk[p], pk[p])
  <2>1. pk' = pk /\ heap' = heap /\ cache' = cache
    BY <1>1, <1>4, NullStep DEF PkRsaNull, Owned, StateOK
  <2> QED
    BY <2>1 DEF KeysAgree
<1> QED
  BY <1>2, <1>3, <1>4 DEF ShimPkRsa

LEMMA FreshIsWhole == Whole(FreshPk) /\ FreshPk.type # "rsa"
  BY DEF Whole, Keyless, FreshPk

\* The pk context that is set up was free, and so has no entry.
LEMMA SetupAgrees ==
  ASSUME Owned, KeysAgree, NEW p \in Pk, Setup(p)
  PROVE  KeysAgree'
<1> DEFINE x == [pk[p] EXCEPT !.type = "rsa"]
<1>1. CASE UNCHANGED <<pk, heap, cache>>
  BY <1>1 DEF KeysAgree
<1>2. CASE pk[p].type = "none"
  <2>1. pk[p] \in PkCtx /\ Whole(pk[p])
    BY DEF Owned, StateOK, KeysAgree
  <2>2. x \in PkCtx /\ x.type = "rsa" /\ Keyless(x)
    BY <1>2, <2>1 DEF PkCtx, Whole, Keyless
  <2>3. Whole(x)
    BY <2>2 DEF Whole, Keyless
  <2>4. \A e \in cache : e.pk # p
    BY <1>2 DEF Owned, EntriesAreLive, pk_is_rsa
  <2> HIDE DEF x
  <2>5. ASSUME NEW r, PkRsaHit(p, x, r) PROVE FALSE
    BY <2>4, <2>5 DEF PkRsaHit, cache_find
  <2>6. ASSUME NEW r, PkRsaMiss(p, x, r) PROVE KeysAgree'
    BY <2>2, <2>3, <2>6, MissAgrees DEF Keyless
  <2>7. CASE PkRsaNull(p, x, FreshPk)
    <3>1. heap' = heap /\ cache' = cache /\ pk' = [pk EXCEPT ![p] = FreshPk]
      BY <2>7, NullStep, FreshPkType DEF PkRsaNull, Owned
    <3> QED
      BY <2>4, <3>1, FreshIsWhole, OneContextChanges
  <2> QED
    BY <1>1, <1>2, <2>5, <2>6, <2>7 DEF Setup, x
<1> QED
  BY <1>1, <1>2 DEF Setup

\* Whatever the real library parses is whole.
LEMMA ParseAgrees ==
  ASSUME Owned, KeysAgree, NEW p \in Pk, Parse(p)
  PROVE  KeysAgree'
<1>1. \A e \in cache : e.pk # p
  BY DEF Parse, Owned, EntriesAreLive, pk_is_rsa
<1>2. Whole(ParsedOther)
  BY DEF Whole, Keyless, ParsedOther
<1>3. ASSUME NEW k \in Key, ModulusBits[k] <= PubRawMaxBits, NEW x \in Parsed(k)
      PROVE  Whole(x)
  BY <1>3, KeyBits DEF Parsed, Whole
<1>4. PICK y : pk' = [pk EXCEPT ![p] = y] /\ Whole(y)
  BY <1>2, <1>3 DEF Parse
<1> QED
  BY <1>1, <1>4, OneContextChanges DEF Parse

LEMMA WritePubkeyAgrees ==
  ASSUME Owned, KeysAgree, NEW p \in Pk, WritePubkey(p)
  PROVE  KeysAgree'
<1>1. CASE UNCHANGED pk
  BY <1>1 DEF WritePubkey, KeysAgree
<1>2. ASSUME NEW e \in cache_find(p),
             pk' = [pk EXCEPT ![p] = pk_sync_pubkey_raw_from_rsa(
                                       [@ EXCEPT !.pub = Null], heap[e.rsa])]
      PROVE  KeysAgree'
  <2> DEFINE x == [pk[p] EXCEPT !.pub = Null]
             y == pk_sync_pubkey_raw_from_rsa(x, heap[e.rsa])
  <2>1. e \in cache /\ e.pk = p
    BY DEF cache_find
  <2>2. /\ pk[p] \in PkCtx /\ heap[e.rsa] \in Ctx /\ pk_is_rsa(pk[p])
        /\ EntryAgrees(pk[p], heap[e.rsa]) /\ Whole(pk[p])
    BY <2>1, CachedIsRsa DEF KeysAgree
  <2>3. /\ x \in PkCtx /\ x.type = pk[p].type /\ x.priv = pk[p].priv
        /\ x.pub = Null /\ x.bits = pk[p].bits
    BY <2>2 DEF PkCtx
  <2>4. Whole(x) /\ pk_is_rsa(x) /\ EntryAgrees(x, heap[e.rsa])
    BY <2>2, <2>3 DEF Whole, pk_is_rsa, EntryAgrees, Agrees, Keyless
  <2> HIDE DEF x
  <2>5. Whole(y) /\ EntryAgrees(y, heap[e.rsa])
    BY <2>2, <2>3, <2>4, SyncEntry
  <2>6. pk' = [pk EXCEPT ![p] = y]
    BY <1>2 DEF x
  <2> HIDE DEF y
  <2>7. \A f \in cache : f.pk = p => f = e
    BY <2>1 DEF Owned, StateOK, CacheIsAMap
  <2> QED
    BY <2>5, <2>6, <2>7, OneContextChanges DEF WritePubkey
<1> QED
  BY <1>1, <1>2 DEF WritePubkey, pk_resync_pubkey_raw_if_cached

\* mbedtls_v3_shim_pk_free, and the real mbedtls_pk_free of a pk context that
\* has no entry.
LEMMA FreeAgrees ==
  ASSUME Owned, KeysAgree, NEW p \in Pk,
         PkFree(p) \/ (LibraryFree(p) /\ ~IsCached(p))
  PROVE  KeysAgree'
<1>1. pk' = [pk EXCEPT ![p] = FreshPk]
  BY DEF PkFree, LibraryFree
<1>2. CASE PkFree(p)
  <2>1. cache' \subseteq cache /\ \A e \in cache' : e.pk # p
    BY <1>2, FreeFrame DEF Owned
  <2>2. \A e \in cache' : heap'[e.rsa] = heap[e.rsa]
    <3>1. ASSUME NEW d \in cache_find(p), cache' = cache \ {d},
                 heap' = [heap EXCEPT ![d.rsa] = Free], NEW e \in cache'
          PROVE  heap'[e.rsa] = heap[e.rsa]
      <4>1. e \in cache /\ d \in cache /\ e # d
        BY <3>1 DEF cache_find
      <4>2. e.rsa # d.rsa
        BY <4>1 DEF Owned, StateOK, CacheIsAMap
      <4> QED
        BY <3>1, <4>1, <4>2, CachedIsRsa DEF Owned, StateOK
    <3> QED
      BY <1>2, <3>1 DEF PkFree, cache_remove, Release
  <2> QED
    BY <1>1, <2>1, <2>2, FreshIsWhole, OneContextChanges
<1>3. CASE LibraryFree(p) /\ ~IsCached(p)
  <2>1. cache' = cache /\ heap' = heap /\ \A e \in cache : e.pk # p
    BY <1>3 DEF LibraryFree, IsCached, cache_find
  <2> QED
    BY <1>1, <2>1, FreshIsWhole, OneContextChanges
<1> QED
  BY <1>2, <1>3

\* The RSA context at r changes, and the pk context that owns it.
LEMMA OwnedContextChanges ==
  ASSUME Owned, KeysAgree, NEW e \in cache, NEW y, Whole(y), NEW c,
         EntryAgrees(y, c), pk' = [pk EXCEPT ![e.pk] = y],
         heap' = [heap EXCEPT ![e.rsa] = c], UNCHANGED cache
  PROVE  KeysAgree'
<1>1. e.pk \in Pk /\ e.rsa \in Rsa
  BY CachedIsRsa
<1>2. pk'[e.pk] = y /\ \A q \in Pk \ {e.pk} : pk'[q] = pk[q]
  BY <1>1 DEF Owned, StateOK
<1>3. heap'[e.rsa] = c /\ \A q \in Rsa \ {e.rsa} : heap'[q] = heap[q]
  BY <1>1 DEF Owned, StateOK
<1>4. \A f \in cache : f # e => f.pk # e.pk /\ f.rsa # e.rsa
  BY DEF Owned, StateOK, CacheIsAMap
<1>5. \A q \in Pk : Whole(pk'[q])
  BY <1>2 DEF KeysAgree
<1>6. \A f \in cache : EntryAgrees(pk'[f.pk], heap'[f.rsa])
  BY <1>2, <1>3, <1>4, CachedIsRsa DEF KeysAgree
<1> QED
  BY <1>5, <1>6 DEF KeysAgree

\* An RSA context that callers use belongs to an entry and holds nothing but
\* components of one key.
LEMMA UsableHasEntry ==
  ASSUME CallersBuildOneKey, Owned, KeysAgree, NEW r \in Rsa, Usable(r)
  PROVE  /\ heap[r] \in Ctx
         /\ \A f \in Field : heap[r].mpi[f] # Junk
         /\ \E e \in cache : e.rsa = r
  BY DEF CallersBuildOneKey, Usable, Owned, StateOK, HeapIsTheCache

LEMMA ImportAgrees ==
  ASSUME CallersBuildOneKey, Owned, KeysAgree, NEW r \in Rsa, Import(r)
  PROVE  KeysAgree'
<1>1. /\ heap[r] \in Ctx /\ \A f \in Field : heap[r].mpi[f] # Junk
      /\ \E e \in cache : e.rsa = r
  BY UsableHasEntry DEF Import
<1>2. PICK e \in cache : e.rsa = r
  BY <1>1
<1>3. PICK k \in Key, S \in Imports :
        /\ MayImport(r, k)
        /\ \E o \in mbedtls_rsa_import(heap[r], PartsOf(k), S)
                      \cup mbedtls_rsa_import_raw(heap[r], PartsOf(k), S) :
             heap' = [heap EXCEPT ![r] = o.ctx]
  BY DEF Import
<1>4. PICK o \in mbedtls_rsa_import(heap[r], PartsOf(k), S)
                   \cup mbedtls_rsa_import_raw(heap[r], PartsOf(k), S) :
        heap' = [heap EXCEPT ![r] = o.ctx]
  BY <1>3
<1>5. /\ OneKey(heap[r], k) /\ pk[e.pk].priv = Null
      /\ pk[e.pk].pub \in {Null, k} /\ pk[e.pk].bits \in {0, ModulusBits[k]}
  BY <1>2, <1>3 DEF CallersBuildOneKey, MayImport
<1>6. Clean(heap[r], k)
  BY <1>1, <1>5 DEF OneKey, Clean
<1>7. Clean(o.ctx, k)
  <2>1. S \in SUBSET Part
    BY PkRsaAssumption
  <2> QED
    BY <1>1, <1>6, <2>1, ImportOfOneKey
<1>8. Agrees(pk[e.pk], o.ctx, k)
  BY <1>5, <1>7 DEF Agrees, Clean, CleanButScratch
<1>9. Whole(pk[e.pk]) /\ pk' = [pk EXCEPT ![e.pk] = pk[e.pk]] /\ cache' = cache
  BY CachedIsRsa DEF Import, KeysAgree, Owned, StateOK
<1> QED
  BY <1>2, <1>4, <1>8, <1>9, OwnedContextChanges DEF EntryAgrees

\* A completion leaves a context of the key it was of, and when it succeeds
\* the pk context gets that key.
LEMMA CompleteAgrees ==
  ASSUME CallersBuildOneKey, Owned, KeysAgree, NEW r \in Rsa, Complete(r)
  PROVE  KeysAgree' /\ CompletionAgrees'
<1>1. /\ heap[r] \in Ctx /\ \A f \in Field : heap[r].mpi[f] # Junk
      /\ \E e \in cache : e.rsa = r
  BY UsableHasEntry DEF Complete
<1>2. PICK e \in cache : e.rsa = r
  BY <1>1
<1> DEFINE x == pk[e.pk]
           y(c) == pk_sync_from_rsa(x, c)
<1>3. PICK o \in mbedtls_rsa_complete(heap[r]) :
        /\ heap' = [heap EXCEPT ![r] = o.ctx]
        /\ IF o.ok THEN SyncFromCtx(r, o.ctx) ELSE UNCHANGED pk
        /\ out' = IF o.ok THEN Told("complete", Owner(r), "ok", PublicOf(o.ctx))
                           ELSE Told("complete", Owner(r), "error", Null)
  BY DEF Complete
<1>4. /\ x \in PkCtx /\ pk_is_rsa(x) /\ Whole(x) /\ EntryAgrees(x, heap[r])
      /\ e.pk \in Pk /\ o.ctx \in Ctx
  BY <1>1, <1>2, CachedIsRsa, CompleteType DEF KeysAgree, Outcome
<1>5. \A f \in cache : f.rsa = r \/ f.pk = e.pk => f = e
  BY <1>2 DEF Owned, StateOK, CacheIsAMap
<1>6. cache' = cache /\ heap' = [heap EXCEPT ![e.rsa] = o.ctx]
  BY <1>2, <1>3 DEF Complete
<1>7. heap'[e.rsa] = o.ctx
  BY <1>6, CachedIsRsa DEF Owned, StateOK
<1>8. CASE Keyless(x) /\ heap[r] = EmptyCtx
  <2>1. o = Failed(EmptyCtx)
    BY <1>8, CompletionOfNothing
  <2>2. o.ok = FALSE /\ o.ctx = EmptyCtx
    BY <2>1 DEF Failed
  <2>3. pk' = [pk EXCEPT ![e.pk] = x] /\ out'.rc = "error"
    BY <1>3, <2>2 DEF Told, Owned, StateOK
  <2>4. EntryAgrees(x, o.ctx)
    BY <1>8, <2>2 DEF EntryAgrees
  <2>5. KeysAgree'
    BY <1>4, <1>6, <2>3, <2>4, OwnedContextChanges
  <2> QED
    BY <2>3, <2>5 DEF CompletionAgrees
<1>9. ASSUME NEW k \in Key, Agrees(x, heap[r], k) PROVE KeysAgree' /\ CompletionAgrees'
  <2>1. Clean(heap[r], k)
    BY <1>1, <1>9 DEF Agrees, Clean, CleanButScratch
  <2>2. /\ CleanButScratch(o.ctx, k)
        /\ o.ok => Coherent(o.ctx, k)
        /\ Full(heap[r]) => o.ctx = heap[r]
    BY <1>1, <2>1, CompletionOfOneKey
  <2>3. Agrees(x, o.ctx, k)
    BY <1>9, <2>2, PrivateIsFull DEF Agrees
  <2> HIDE DEF x
  <2>4. CASE ~o.ok
    <3>1. pk' = [pk EXCEPT ![e.pk] = x] /\ out'.rc = "error"
      BY <1>3, <2>4 DEF Told, Owned, StateOK, x
    <3>2. KeysAgree'
      BY <1>4, <1>6, <2>3, <3>1, OwnedContextChanges DEF EntryAgrees
    <3> QED
      BY <3>1, <3>2 DEF CompletionAgrees
  <2>5. CASE o.ok
    <3>1. pk' = [pk EXCEPT ![e.pk] = y(o.ctx)]
      BY <1>2, <1>3, <1>5, <2>5 DEF SyncFromCtx, x
    <3>2. Agrees(y(o.ctx), o.ctx, k) /\ Whole(y(o.ctx))
      BY <1>4, <2>3, SyncAgrees
    <3>3. Have(o.ctx, "N") /\ Have(o.ctx, "E") /\ PublicOf(o.ctx) = k
      BY <2>2, <2>5, RsaContextAssumption DEF Coherent, Have, PublicOf
    <3>4. /\ y(o.ctx).bits = ModulusBits[k]
          /\ ModulusBits[k] <= PubRawMaxBits => y(o.ctx).pub = k
      BY <1>4, <2>3, <3>3, SyncAgrees
    <3> HIDE DEF y
    <3>5. y(o.ctx).pub = IF ModulusBits[k] <= PubRawMaxBits THEN k ELSE Null
      BY <3>2, <3>4 DEF Agrees, Whole
    <3>6. KeysAgree'
      BY <1>6, <3>1, <3>2, OwnedContextChanges DEF EntryAgrees
    <3>7. pk'[e.pk] = y(o.ctx) /\ out'.key = k /\ out'.pk = e.pk
      <4>1. Owner(r) = e.pk
        BY <1>2, <1>5 DEF Owner
      <4> QED
        BY <1>3, <1>4, <2>5, <3>1, <3>3, <4>1 DEF Told, Owned, StateOK
    <3>8. \A f \in cache' : out'.pk = f.pk => f = e
      BY <1>5, <1>6, <3>7
    <3>9. CompletionAgrees'
      BY <1>7, <2>2, <2>5, <3>4, <3>5, <3>7, <3>8 DEF CompletionAgrees
    <3> QED
      BY <3>6, <3>9
  <2> QED
    BY <2>4, <2>5
<1> QED
  BY <1>4, <1>8, <1>9 DEF EntryAgrees

-----------------------------------------------------------------------------
\* Only mbedtls_rsa_complete reports a completion.
LEMMA OthersReportNoCompletion ==
  ASSUME NEW p, CallOnPk(p)
  PROVE  out'.op # "complete"
<1>1. ASSUME NEW op \in {"none", "verify", "sign", "encrypt", "decrypt"},
             NEW q, NEW rc, NEW k
      PROVE  Told(op, q, rc, k).op # "complete" /\ Quiet.op # "complete"
  BY DEF Told, Quiet
<1>2. CASE Verify(p) \/ Sign(p) \/ Crypt("encrypt", p) \/ Crypt("decrypt", p)
  BY <1>1, <1>2 DEF Verify, Sign, Crypt
<1>3. CASE Setup(p) \/ Parse(p) \/ PkRsa(p) \/ GetBitlen(p) \/ WritePubkey(p)
             \/ PkFree(p) \/ LibraryFree(p)
  BY <1>1, <1>3 DEF Setup, Parse, PkRsa, GetBitlen, WritePubkey, PkFree, LibraryFree
<1> QED
  BY <1>2, <1>3 DEF CallOnPk

\* Every step preserves the agreement of the copies.
LEMMA KeysAgreeNext ==
  ASSUME CallersBuildOneKey, Owned, KeysAgree, CompletionAgrees, [Next]_vars
  PROVE  KeysAgree' /\ CompletionAgrees'
<1>1. CASE UNCHANGED vars
  BY <1>1 DEF vars, KeysAgree, CompletionAgrees
<1>2. ASSUME NEW p \in Pk, CallOnPk(p) PROVE KeysAgree' /\ CompletionAgrees'
  <2>1. CompletionAgrees'
    BY <1>2, OthersReportNoCompletion DEF CompletionAgrees
  <2>2. CASE UNCHANGED <<pk, heap, cache>>
    BY <2>1, <2>2 DEF KeysAgree
  <2>3. CASE Setup(p) \/ Parse(p) \/ WritePubkey(p) \/ PkFree(p)
    BY <2>1, <2>3, SetupAgrees, ParseAgrees, WritePubkeyAgrees, FreeAgrees
  <2>4. CASE PkRsa(p) \/ GetBitlen(p) \/ Verify(p) \/ Sign(p)
               \/ Crypt("encrypt", p) \/ Crypt("decrypt", p)
    BY <2>1, <2>2, <2>4, ShimPkRsaAgrees DEF PkRsa, GetBitlen, Verify, Sign, Crypt
  <2>5. CASE LibraryFree(p)
    BY <2>1, <2>5, FreeAgrees DEF LibraryFree, CallersBuildOneKey
  <2> QED
    BY <1>2, <2>3, <2>4, <2>5 DEF CallOnPk
<1>3. ASSUME NEW r \in Rsa, CallOnRsa(r) PROVE KeysAgree' /\ CompletionAgrees'
  <2>1. CASE Import(r)
    BY <2>1, ImportAgrees DEF Import, Quiet, CompletionAgrees
  <2>2. CASE Complete(r)
    BY <2>2, CompleteAgrees
  <2> QED
    BY <1>3, <2>1, <2>2 DEF CallOnRsa
<1> QED
  BY <1>1, <1>2, <1>3 DEF Next

\* Every reachable state satisfies the invariant.
THEOREM KeyInvariance ==
  ASSUME CallersBuildOneKey
  PROVE  Spec => []KeyInv
<1>1. Init => KeysAgree /\ CompletionAgrees
  BY FreshIsWhole DEF Init, KeysAgree, CompletionAgrees
<1>2. Spec => []Owned
  <2>1. ~LibraryFrees
    BY DEF CallersBuildOneKey
  <2>2. IInv /\ EntriesAreLive /\ TemplatesAreCached => Owned
    BY DEF Owned, IInv
  <2> QED
    BY <2>1, <2>2, Invariance, EntriesDieWithTheirContext, NoTemplateIsForgotten, PTL
<1>3. Owned /\ KeysAgree /\ CompletionAgrees /\ [Next]_vars
        => KeysAgree' /\ CompletionAgrees'
  BY KeysAgreeNext
<1> QED
  BY <1>1, <1>2, <1>3, PTL DEF Spec, KeyInv

-----------------------------------------------------------------------------
(* The key in a PSA slot, whatever failed completions have left behind.    *)

\* The RSA contexts of entries stay, and pk contexts keep the key in the slot.
LEMMA SlotsStay ==
  ASSUME CachedKeyIsPsaKey, cache' \subseteq cache,
         \A e \in cache' : /\ heap'[e.rsa] = heap[e.rsa]
                           /\ pk'[e.pk].priv \in {pk[e.pk].priv, Null}
  PROVE  CachedKeyIsPsaKey'
  BY DEF CachedKeyIsPsaKey

\* mbedtls_v3_shim_pk_rsa on p, which has the key of x in its slot.
LEMMA SlotIsMaterialized ==
  ASSUME StateOK, CachedKeyIsPsaKey, NEW p \in Pk, NEW x \in PkCtx, x.priv = pk[p].priv,
         NEW r, PkRsaHit(p, x, r) \/ PkRsaMiss(p, x, r)
  PROVE  CachedKeyIsPsaKey'
<1>1. CASE PkRsaHit(p, x, r)
  <2>1. heap[r] \in Ctx
    BY <1>1, EntryHasContext DEF PkRsaHit, cache_find
  <2>2. pk' = [pk EXCEPT ![p] = pk_sync_from_rsa(x, heap[r])] /\ heap' = heap /\ cache' = cache
    BY <1>1 DEF PkRsaHit
  <2>3. \A e \in cache : pk'[e.pk].priv = pk[e.pk].priv
    <3>1. pk_sync_from_rsa(x, heap[r]).priv = pk[p].priv
      BY <2>1, SyncType
    <3> QED
      BY <2>2, <3>1, EntryHasContext DEF StateOK
  <2> QED
    BY <2>2, <2>3, SlotsStay
<1>2. CASE PkRsaMiss(p, x, r)
  <2> DEFINE new == [pk |-> p, rsa |-> r]
  <2>1. PICK c \in materialize_rsa(x) :
          /\ heap' = [heap EXCEPT ![r] = c]
          /\ pk' = [pk EXCEPT ![p] = pk_sync_from_rsa(x, c)]
    BY <1>2 DEF PkRsaMiss, Allocate
  <2>2. c \in Ctx
    BY MaterializeType
  <2>3. pk_sync_from_rsa(x, c).priv = x.priv
    BY <2>2, SyncType
  <2>4. x.priv # Null => c = PrivateCtx(x.priv)
    BY DEF materialize_rsa, materialize_rsa_from_pk_der, materialize_rsa_from_psa,
           pk_is_empty_rsa_template, When
  <2>5. r \in Rsa /\ heap[r] = Free
    BY <1>2 DEF PkRsaMiss, Available
  <2>6. \A e \in cache : e.pk # p /\ e.rsa # r
    BY <1>2, <2>5 DEF PkRsaMiss, IsCached, cache_find, StateOK, HeapIsTheCache
  <2>7. cache' = cache \cup {new} /\ new.pk = p /\ new.rsa = r
    BY <1>2 DEF PkRsaMiss, cache_insert
  <2> HIDE DEF new
  <2>8. \A e \in cache : pk'[e.pk] = pk[e.pk] /\ heap'[e.rsa] = heap[e.rsa]
    BY <2>1, <2>5, <2>6, EntryHasContext DEF StateOK
  <2>9. pk'[p].priv = x.priv /\ heap'[r] = c
    BY <2>1, <2>3, <2>5 DEF StateOK
  <2> QED
    BY <2>4, <2>7, <2>8, <2>9 DEF CachedKeyIsPsaKey
<1> QED
  BY <1>1, <1>2

\* It returns NULL.
LEMMA SlotIsNotMaterialized ==
  ASSUME StateOK, CachedKeyIsPsaKey, NEW p \in Pk, NEW x, NEW y \in {pk[p], FreshPk},
         PkRsaNull(p, x, y)
  PROVE  CachedKeyIsPsaKey'
<1>1. y \in PkCtx /\ y.priv \in {pk[p].priv, Null}
  BY FreshPkType DEF StateOK, FreshPk
<1>2. heap' = heap /\ cache' = cache /\ pk' = [pk EXCEPT ![p] = y]
  BY <1>1, NullStep DEF PkRsaNull
<1>3. \A e \in cache : pk'[e.pk].priv \in {pk[e.pk].priv, Null}
  BY <1>1, <1>2, EntryHasContext DEF StateOK
<1> QED
  BY <1>2, <1>3, SlotsStay

\* A call on a pk context.
LEMMA CallKeepsSlot ==
  ASSUME ~LibraryFrees, StateOK, EntriesAreLive, CachedKeyIsPsaKey, NEW p \in Pk, CallOnPk(p)
  PROVE  CachedKeyIsPsaKey'
<1>1. CASE UNCHANGED <<pk, heap, cache>>
  BY <1>1, SlotsStay
<1>2. ASSUME NEW r, ShimPkRsa(p, r) PROVE CachedKeyIsPsaKey'
  <2>1. pk[p] \in PkCtx
    BY DEF StateOK
  <2> QED
    BY <1>2, <2>1, SlotIsMaterialized, SlotIsNotMaterialized DEF ShimPkRsa
<1>3. CASE Setup(p)
  <2> DEFINE x == [pk[p] EXCEPT !.type = "rsa"]
  <2>1. x \in PkCtx /\ x.priv = pk[p].priv
    BY DEF StateOK, PkCtx
  <2> HIDE DEF x
  <2>2. ASSUME NEW r, PkRsaHit(p, x, r) \/ PkRsaMiss(p, x, r) PROVE CachedKeyIsPsaKey'
    BY <2>1, <2>2, SlotIsMaterialized
  <2>3. PkRsaNull(p, x, FreshPk) => CachedKeyIsPsaKey'
    BY SlotIsNotMaterialized
  <2> QED
    BY <1>1, <1>3, <2>2, <2>3 DEF Setup, x
<1>4. CASE Parse(p)
  <2>1. \A e \in cache : e.pk # p
    BY <1>4 DEF Parse, EntriesAreLive, pk_is_rsa
  <2>2. \A e \in cache : pk'[e.pk] = pk[e.pk]
    BY <1>4, <2>1, EntryHasContext DEF Parse, StateOK
  <2> QED
    BY <1>4, <2>2, SlotsStay DEF Parse
<1>5. CASE WritePubkey(p)
  <2>1. ASSUME NEW e \in cache_find(p),
               pk' = [pk EXCEPT ![p] = pk_sync_pubkey_raw_from_rsa(
                                         [@ EXCEPT !.pub = Null], heap[e.rsa])]
        PROVE  \A f \in cache : pk'[f.pk].priv = pk[f.pk].priv
    <3>1. pk'[p].priv = pk[p].priv
      BY <2>1 DEF pk_sync_pubkey_raw_from_rsa, StateOK, PkCtx
    <3> QED
      BY <2>1, <3>1, EntryHasContext DEF StateOK
  <2>2. \A f \in cache : pk'[f.pk].priv = pk[f.pk].priv
    BY <1>5, <2>1 DEF WritePubkey, pk_resync_pubkey_raw_if_cached
  <2> QED
    BY <1>5, <2>2, SlotsStay DEF WritePubkey
<1>6. CASE PkFree(p)
  <2>1. /\ pk' = [pk EXCEPT ![p] = FreshPk] /\ cache' \subseteq cache
        /\ \A e \in cache' : e.pk # p
    BY <1>6, FreeFrame
  <2>2. \A e \in cache' : heap'[e.rsa] = heap[e.rsa]
    <3>1. ASSUME NEW d \in cache_find(p), cache' = cache \ {d},
                 heap' = [heap EXCEPT ![d.rsa] = Free], NEW e \in cache'
          PROVE  heap'[e.rsa] = heap[e.rsa]
      <4>1. e \in cache /\ d \in cache /\ e # d
        BY <3>1 DEF cache_find
      <4>2. e.rsa # d.rsa
        BY <4>1 DEF StateOK, CacheIsAMap
      <4> QED
        BY <3>1, <4>1, <4>2, EntryHasContext DEF StateOK
    <3> QED
      BY <1>6, <3>1 DEF PkFree, cache_remove, Release
  <2>3. \A e \in cache' : pk'[e.pk] = pk[e.pk]
    BY <2>1, EntryHasContext DEF StateOK
  <2> QED
    BY <2>1, <2>2, <2>3, SlotsStay
<1>7. CASE LibraryFree(p)
  <2>1. /\ pk' = [pk EXCEPT ![p] = FreshPk] /\ heap' = heap /\ cache' = cache
    BY <1>7 DEF LibraryFree
  <2>2. \A e \in cache : pk'[e.pk].priv \in {pk[e.pk].priv, Null}
    BY <2>1, EntryHasContext DEF StateOK, FreshPk
  <2> QED
    BY <2>1, <2>2, SlotsStay
<1>8. CASE PkRsa(p) \/ GetBitlen(p) \/ Verify(p) \/ Sign(p)
             \/ Crypt("encrypt", p) \/ Crypt("decrypt", p)
  BY <1>1, <1>2, <1>8 DEF PkRsa, GetBitlen, Verify, Sign, Crypt
<1> QED
  BY <1>3, <1>4, <1>5, <1>6, <1>7, <1>8 DEF CallOnPk

\* Imports do not go to a context whose key is in the slot, and a completion of
\* such a context leaves it as it is.
LEMMA BuildingKeepsSlot ==
  ASSUME ~Reimport, StateOK, CachedKeyIsPsaKey, NEW r \in Rsa, CallOnRsa(r)
  PROVE  CachedKeyIsPsaKey'
<1>1. heap[r] \in Ctx /\ heap[r] # Free /\ cache' = cache
  BY DEF CallOnRsa, Import, Complete, Usable, StateOK
<1>2. CASE Import(r)
  <2>1. \A e \in cache : e.rsa = r => pk[e.pk].priv = Null
    BY <1>2 DEF Import, MayImport
  <2>2. pk' = pk /\ \A q \in Rsa \ {r} : heap'[q] = heap[q]
    BY <1>2 DEF Import, StateOK
  <2> QED
    BY <1>1, <2>1, <2>2, EntryHasContext DEF CachedKeyIsPsaKey
<1>3. CASE Complete(r)
  <2>1. PICK o \in mbedtls_rsa_complete(heap[r]) :
          /\ heap' = [heap EXCEPT ![r] = o.ctx]
          /\ SyncFromCtx(r, o.ctx) \/ UNCHANGED pk
    BY <1>3 DEF Complete
  <2>2. o.ctx \in Ctx
    BY <1>1, CompleteType DEF Outcome
  <2>3. \A e \in cache : pk'[e.pk].priv = pk[e.pk].priv
    <3>1. ASSUME NEW f \in cache, pk' = [pk EXCEPT ![f.pk] = pk_sync_from_rsa(@, o.ctx)]
          PROVE  \A e \in cache : pk'[e.pk].priv = pk[e.pk].priv
      <4>1. f.pk \in Pk /\ pk[f.pk] \in PkCtx
        BY EntryHasContext DEF StateOK
      <4>2. pk_sync_from_rsa(pk[f.pk], o.ctx).priv = pk[f.pk].priv
        BY <2>2, <4>1, SyncType
      <4> QED
        BY <3>1, <4>1, <4>2, EntryHasContext DEF StateOK
    <3> QED
      BY <2>1, <3>1 DEF SyncFromCtx
  <2>4. ASSUME NEW k \in Key, heap[r] = PrivateCtx(k) PROVE o.ctx = heap[r]
    BY <1>1, <2>4, PrivateIsFull, CompletionOfOneKey
  <2>5. heap'[r] = o.ctx /\ \A q \in Rsa \ {r} : heap'[q] = heap[q]
    BY <2>1 DEF StateOK
  <2>6. \A e \in cache : pk[e.pk].priv \in Key \cup {Null} /\ e.rsa \in Rsa
    BY EntryHasContext DEF StateOK, PkCtx
  <2> QED
    BY <1>1, <2>3, <2>4, <2>5, <2>6 DEF CachedKeyIsPsaKey
<1> QED
  BY <1>2, <1>3 DEF CallOnRsa

\* Every step preserves the property.
LEMMA SlotsNext ==
  ASSUME ~Reimport, ~LibraryFrees, StateOK, EntriesAreLive, CachedKeyIsPsaKey, [Next]_vars
  PROVE  CachedKeyIsPsaKey'
<1>1. CASE UNCHANGED vars
  BY <1>1 DEF vars, CachedKeyIsPsaKey
<1> QED
  BY <1>1, CallKeepsSlot, BuildingKeepsSlot DEF Next

\* The key in the cached RSA context of a pk context whose PSA slot is filled
\* is the one in the slot, however either came there: mbedtls_pk_sign and
\* mbedtls_pk_decrypt use the same key, also when callers go on with contexts that
\* mbedtls_rsa_complete failed on.
THEOREM PsaKeyIsCached ==
  ASSUME ~Reimport, ~LibraryFrees
  PROVE  Spec => []CachedKeyIsPsaKey
<1>1. Init => CachedKeyIsPsaKey
  BY DEF Init, CachedKeyIsPsaKey
<1>2. IInv /\ EntriesAreLive /\ CachedKeyIsPsaKey /\ [Next]_vars => CachedKeyIsPsaKey'
  BY SlotsNext DEF IInv
<1>3. Spec => []EntriesAreLive
  BY EntriesDieWithTheirContext
<1> QED
  BY <1>1, <1>2, <1>3, Invariance, PTL DEF Spec

-----------------------------------------------------------------------------
(* RSA contexts of one key, however pk contexts are freed.                 *)

\* The RSA context c waits for a key or has the components of one.
OfOneKey(c) == c = EmptyCtx \/ \E k \in Key : CleanButScratch(c, k)

ContextsAreOfOneKey == \A r \in Rsa : heap[r] # Free => OfOneKey(heap[r])

\* A call on a pk context materializes RSA contexts of one key, and changes no
\* other.
LEMMA CallKeepsContexts ==
  ASSUME StateOK, ContextsAreOfOneKey, NEW p \in Pk, CallOnPk(p)
  PROVE  ContextsAreOfOneKey'
<1>1. CASE heap' = heap
  BY <1>1 DEF ContextsAreOfOneKey
<1>2. ASSUME NEW x \in PkCtx, NEW r, PkRsaMiss(p, x, r) PROVE ContextsAreOfOneKey'
  <2>1. PICK c \in materialize_rsa(x) : heap' = [heap EXCEPT ![r] = c]
    BY <1>2 DEF PkRsaMiss, Allocate
  <2>2. c = EmptyCtx \/ \E k \in Key : c = PrivateCtx(k)
    BY DEF materialize_rsa, materialize_rsa_from_pk_der, materialize_rsa_from_psa,
           pk_has_private_psa_key, When, PkCtx
  <2>3. OfOneKey(c)
    BY <2>2, PrivateIsFull DEF OfOneKey, Clean, CleanButScratch
  <2> QED
    BY <2>1, <2>3 DEF ContextsAreOfOneKey, StateOK
<1>3. ASSUME NEW x \in PkCtx, NEW r, PkRsaHit(p, x, r) \/ PkRsaMiss(p, x, r)
      PROVE  ContextsAreOfOneKey'
  BY <1>1, <1>2, <1>3 DEF PkRsaHit
<1>4. ASSUME NEW x, NEW y \in PkCtx, PkRsaNull(p, x, y) PROVE ContextsAreOfOneKey'
  BY <1>1, <1>4, NullStep
<1>5. ASSUME NEW r, ShimPkRsa(p, r) PROVE ContextsAreOfOneKey'
  <2>1. pk[p] \in PkCtx
    BY DEF StateOK
  <2> QED
    BY <1>3, <1>4, <1>5, <2>1 DEF ShimPkRsa
<1>6. CASE Setup(p)
  <2> DEFINE x == [pk[p] EXCEPT !.type = "rsa"]
  <2>1. x \in PkCtx
    BY DEF StateOK, PkCtx
  <2> HIDE DEF x
  <2> QED
    BY <1>1, <1>3, <1>4, <1>6, <2>1, FreshPkType DEF Setup, x
<1>7. CASE PkFree(p)
  <2>1. ASSUME NEW e \in cache_find(p), heap' = [heap EXCEPT ![e.rsa] = Free]
        PROVE  ContextsAreOfOneKey'
    BY <2>1 DEF ContextsAreOfOneKey, StateOK
  <2> QED
    BY <1>1, <1>7, <2>1 DEF PkFree, cache_remove, Release
<1>8. CASE Parse(p) \/ Sign(p) \/ WritePubkey(p) \/ LibraryFree(p)
  BY <1>1, <1>8 DEF Parse, Sign, WritePubkey, LibraryFree
<1>9. CASE PkRsa(p) \/ GetBitlen(p) \/ Verify(p) \/ Crypt("encrypt", p) \/ Crypt("decrypt", p)
  BY <1>1, <1>5, <1>9 DEF PkRsa, GetBitlen, Verify, Crypt
<1> QED
  BY <1>6, <1>7, <1>8, <1>9 DEF CallOnPk

\* An import, or a completion, of a context that callers go on with.
LEMMA BuildingKeepsContexts ==
  ASSUME ~Reimport, ~Retry, StateOK, ContextsAreOfOneKey, NEW r \in Rsa, CallOnRsa(r)
  PROVE  ContextsAreOfOneKey' /\ CompletedKeyIsCoherent'
<1>1. /\ heap[r] \in Ctx /\ OfOneKey(heap[r]) /\ cache' = cache
      /\ \A f \in Field : heap[r].mpi[f] # Junk
  BY DEF CallOnRsa, Import, Complete, Usable, StateOK, ContextsAreOfOneKey
<1>2. ASSUME NEW c, OfOneKey(c), heap' = [heap EXCEPT ![r] = c] PROVE ContextsAreOfOneKey'
  BY <1>2 DEF ContextsAreOfOneKey, StateOK
<1>3. CASE Import(r)
  <2>1. PICK k \in Key, S \in Imports :
          /\ MayImport(r, k)
          /\ \E o \in mbedtls_rsa_import(heap[r], PartsOf(k), S)
                        \cup mbedtls_rsa_import_raw(heap[r], PartsOf(k), S) :
               heap' = [heap EXCEPT ![r] = o.ctx]
    BY <1>3 DEF Import
  <2>2. Clean(heap[r], k) /\ S \in SUBSET Part
    BY <1>1, <2>1, PkRsaAssumption DEF MayImport, OneKey, Clean
  <2>3. ContextsAreOfOneKey'
    BY <1>1, <1>2, <2>1, <2>2, ImportOfOneKey DEF OfOneKey, Clean, CleanButScratch
  <2> QED
    BY <1>3, <2>3 DEF Import, Quiet, CompletedKeyIsCoherent
<1>4. CASE Complete(r)
  <2>1. PICK o \in mbedtls_rsa_complete(heap[r]) :
          /\ heap' = [heap EXCEPT ![r] = o.ctx]
          /\ out' = IF o.ok THEN Told("complete", Owner(r), "ok", PublicOf(o.ctx))
                             ELSE Told("complete", Owner(r), "error", Null)
    BY <1>4 DEF Complete
  <2>2. OfOneKey(o.ctx) /\ (o.ok => \E k \in Key : Coherent(o.ctx, k))
    <3>1. CASE heap[r] = EmptyCtx
      BY <2>1, <3>1, CompletionOfNothing DEF Failed, OfOneKey
    <3>2. ASSUME NEW k \in Key, CleanButScratch(heap[r], k)
          PROVE  CleanButScratch(o.ctx, k) /\ (o.ok => Coherent(o.ctx, k))
      <4>1. Clean(heap[r], k)
        BY <1>1, <3>2 DEF Clean, CleanButScratch
      <4> QED
        BY <1>1, <4>1, CompletionOfOneKey
    <3> QED
      BY <1>1, <3>1, <3>2 DEF OfOneKey
  <2>3. ASSUME NEW e \in cache, o.ok, out'.pk = e.pk PROVE heap'[e.rsa] = o.ctx
    <3>1. Owner(r) = e.pk
      BY <2>1, <2>3 DEF Told
    <3>2. e.pk # Null
      BY EntryHasContext, PkRsaAssumption
    <3>3. PICK f \in cache : f.rsa = r /\ f.pk = e.pk
      BY <3>1, <3>2 DEF Owner
    <3>4. e.rsa = r
      BY <3>3 DEF StateOK, CacheIsAMap
    <3> QED
      BY <2>1, <3>4 DEF StateOK
  <2>4. out'.rc = "ok" => o.ok
    BY <2>1 DEF Told
  <2>5. CompletedKeyIsCoherent'
    BY <1>1, <2>2, <2>3, <2>4 DEF CompletedKeyIsCoherent
  <2> QED
    BY <1>2, <2>1, <2>2, <2>5
<1> QED
  BY <1>3, <1>4 DEF CallOnRsa

\* After a completion that succeeded the RSA context is one key, whole or its
\* public half, however often imports failed and were repeated before, and
\* however pk contexts were freed.
THEOREM CompletionIsCoherent ==
  ASSUME ~Reimport, ~Retry
  PROVE  Spec => []CompletedKeyIsCoherent
<1>1. Init => ContextsAreOfOneKey /\ CompletedKeyIsCoherent
  BY DEF Init, ContextsAreOfOneKey, CompletedKeyIsCoherent
<1>2. IInv /\ ContextsAreOfOneKey /\ CompletedKeyIsCoherent /\ [Next]_vars
        => ContextsAreOfOneKey' /\ CompletedKeyIsCoherent'
  <2>1. ASSUME StateOK, ContextsAreOfOneKey, NEW p \in Pk, CallOnPk(p)
        PROVE  ContextsAreOfOneKey' /\ CompletedKeyIsCoherent'
    BY <2>1, CallKeepsContexts, OthersReportNoCompletion DEF CompletedKeyIsCoherent
  <2>2. ASSUME ContextsAreOfOneKey, CompletedKeyIsCoherent, UNCHANGED vars
        PROVE  ContextsAreOfOneKey' /\ CompletedKeyIsCoherent'
    BY <2>2 DEF vars, ContextsAreOfOneKey, CompletedKeyIsCoherent
  <2> QED
    BY <2>1, <2>2, BuildingKeepsContexts DEF Next, IInv
<1> QED
  BY <1>1, <1>2, Invariance, PTL DEF Spec

-----------------------------------------------------------------------------
(* What the copies of a key say.                                           *)

\* mbedtls_pk_verify, which imports pub_raw, and mbedtls_pk_encrypt, which
\* uses the RSA context, use the same public key.
THEOREM PublishedKeyIsCached ==
  ASSUME CallersBuildOneKey
  PROVE  Spec => []PublishedKeyIsContextKey
<1>1. KeyInv => PublishedKeyIsContextKey
  <2> SUFFICES ASSUME KeyInv, NEW e \in cache, pk[e.pk].pub # Null,
                      Have(heap[e.rsa], "N"), Have(heap[e.rsa], "E")
               PROVE  pk[e.pk].pub = PublicOf(heap[e.rsa])
    BY DEF PublishedKeyIsContextKey
  <2>1. PICK k \in Key : Agrees(pk[e.pk], heap[e.rsa], k)
    BY DEF KeyInv, KeysAgree, EntryAgrees, Keyless
  <2>2. heap[e.rsa].mpi["N"] = k /\ heap[e.rsa].mpi["E"] = k
    BY <2>1, HaveIsKey DEF Agrees
  <2> QED
    BY <2>1, <2>2 DEF Agrees, PublicOf
<1> QED
  BY <1>1, KeyInvariance, PTL

\* The bit length that mbedtls_pk_get_bitlen answers from the pk context is
\* that of the modulus in the RSA context.
THEOREM BitsAreOfTheModulus ==
  ASSUME CallersBuildOneKey
  PROVE  Spec => []BitsAreModulusBits
<1>1. KeyInv => BitsAreModulusBits
  <2> SUFFICES ASSUME KeyInv, NEW e \in cache, pk[e.pk].bits # 0,
                      Have(heap[e.rsa], "N")
               PROVE  pk[e.pk].bits = Bits(heap[e.rsa].mpi["N"])
    BY DEF BitsAreModulusBits
  <2>1. PICK k \in Key : Agrees(pk[e.pk], heap[e.rsa], k)
    BY DEF KeyInv, KeysAgree, EntryAgrees, Keyless
  <2>2. heap[e.rsa].mpi["N"] = k
    BY <2>1, HaveIsKey DEF Agrees
  <2> QED
    BY <2>1, <2>2, KeyBits DEF Agrees
<1> QED
  BY <1>1, KeyInvariance, PTL

\* A completion that succeeded has written bits of its pk context, and pub_raw,
\* which mbedtls_pk_verify uses, when the public key fits there.
THEOREM CompletionPublishes ==
  ASSUME CallersBuildOneKey
  PROVE  Spec => []CompletedKeyIsPublished
<1>1. KeyInv => CompletedKeyIsPublished
  <2> DEFINE n(e) == Bits(heap[e.rsa].mpi["N"])
  <2> SUFFICES ASSUME KeyInv, NEW e \in cache, out.op = "complete", out.rc = "ok",
                      out.pk = e.pk
               PROVE  /\ pk[e.pk].bits = n(e)
                      /\ pk[e.pk].pub = IF n(e) <= PubRawMaxBits THEN out.key ELSE Null
    BY DEF CompletedKeyIsPublished
  <2>1. PICK k \in Key : /\ Coherent(heap[e.rsa], k)
                         /\ out.key = k
                         /\ pk[e.pk].bits = ModulusBits[k]
                         /\ pk[e.pk].pub =
                              IF ModulusBits[k] <= PubRawMaxBits THEN k ELSE Null
    BY DEF KeyInv, CompletionAgrees
  <2>2. Bits(heap[e.rsa].mpi["N"]) = ModulusBits[k]
    BY <2>1, KeyBits DEF Coherent
  <2> QED
    BY <2>1, <2>2
<1> QED
  BY <1>1, KeyInvariance, PTL

-----------------------------------------------------------------------------
(* A public key that has been published stays published, whatever failed   *)
(* completions have left behind.                                           *)

\* What is in pub_raw of the pk context x fits there, and is of the key in PSA.
FitsPubRaw(x) ==
  /\ x.priv # Null => x.pub \in {Null, x.priv}
  /\ x.pub # Null => PubRawMaxBits >= 1
  /\ x.pub \in Key => ModulusBits[x.pub] <= PubRawMaxBits

\* A key in it is the only one that its RSA context c has components of; a public
\* key of no key is still there in c, and goes into pub_raw again.
IsPublished(x, c) ==
  /\ c = EmptyCtx \/ \E k \in Key : CleanButJunk(c, k)
  /\ x.pub \in Key => CleanButJunk(c, x.pub)
  /\ x.pub = Junk => Have(c, "N") /\ Have(c, "E") /\ Bits(c.mpi["N"]) <= PubRawMaxBits

PublishedInv ==
  /\ \A p \in Pk : FitsPubRaw(pk[p])
  /\ \A e \in cache : IsPublished(pk[e.pk], heap[e.rsa])
  /\ CachedKeyIsPsaKey

\* What the synchronization writes to pub_raw fits there, and is what c has.
LEMMA SyncPubkeyPublishes ==
  ASSUME NEW x \in PkCtx, NEW c \in Ctx, FitsPubRaw(x), IsPublished(x, c),
         x.priv # Null => c = PrivateCtx(x.priv)
  PROVE  LET y == pk_sync_pubkey_raw_from_rsa(x, c)
         IN  FitsPubRaw(y) /\ IsPublished(y, c) /\ y.priv = x.priv
<1> DEFINE y == pk_sync_pubkey_raw_from_rsa(x, c)
           n == c.mpi["N"]
<1>1. CASE y = x
  BY <1>1
<1>2. CASE y # x
  <2>1. /\ x.pub = Null /\ Have(c, "N") /\ Have(c, "E")
        /\ Bits(n) <= PubRawMaxBits /\ y = [x EXCEPT !.pub = PublicOf(c)]
    <3>1. Bits(n) \in Nat
      BY SizeType DEF Ctx, Field, Part
    <3> QED
      BY <1>2, <3>1, PkRsaAssumption DEF pk_sync_pubkey_raw_from_rsa
  <2>2. y.pub = PublicOf(c) /\ y.priv = x.priv
    BY <2>1 DEF PkCtx
  <2>3. n \in Key \cup {Junk}
    BY <2>1 DEF Ctx, Field, Part, Value, Have
  <2>4. PublicOf(c) = Junk \/ (PublicOf(c) = n /\ n \in Key /\ n = c.mpi["E"])
    BY <2>3 DEF PublicOf
  <2>5. PubRawMaxBits >= 1 /\ (n \in Key => ModulusBits[n] <= PubRawMaxBits)
    <3>1. n \in Key => ModulusBits[n] \in Nat /\ ModulusBits[n] >= 1 /\ Bits(n) = ModulusBits[n]
      BY KeyBits, RsaContextAssumption DEF Bits
    <3>2. n = Junk => Bits(n) = 1
      BY RsaContextAssumption DEF Bits
    <3> QED
      BY <2>1, <2>3, <3>1, <3>2, PkRsaAssumption
  <2>6. n \in Key => CleanButJunk(c, n)
    <3>1. ASSUME NEW k \in Key, CleanButJunk(c, k), n \in Key PROVE k = n
      BY <3>1, RsaContextAssumption DEF CleanButJunk, Field, Part
    <3>2. c # EmptyCtx
      BY <2>1 DEF EmptyCtx, Have, Field, Part
    <3> QED
      BY <3>1, <3>2 DEF IsPublished
  <2>7. x.priv # Null => PublicOf(c) = x.priv
    BY DEF PublicOf, PrivateCtx, Field, Part
  <2>8. Junk \notin Key
    BY RsaContextAssumption
  <2> HIDE DEF n, y
  <2>9. FitsPubRaw(y)
    BY <2>2, <2>4, <2>5, <2>7, <2>8 DEF FitsPubRaw
  <2>10. IsPublished(y, c)
    BY <2>1, <2>2, <2>4, <2>6, <2>8 DEF IsPublished, n
  <2> QED
    BY <2>2, <2>9, <2>10 DEF y
<1> QED
  BY <1>1, <1>2

\* The same of the whole synchronization.
LEMMA SyncPublishes ==
  ASSUME NEW x \in PkCtx, NEW c \in Ctx, FitsPubRaw(x), IsPublished(x, c),
         x.priv # Null => c = PrivateCtx(x.priv)
  PROVE  LET y == pk_sync_from_rsa(x, c)
         IN  FitsPubRaw(y) /\ IsPublished(y, c)
<1> DEFINE b == pk_sync_bits_from_rsa(x, c)
<1>1. b \in PkCtx /\ b.priv = x.priv /\ b.pub = x.pub
  <2>1. Bits(c.mpi["N"]) \in Nat
    BY SizeType DEF Ctx, Field, Part
  <2> QED
    BY <2>1 DEF pk_sync_bits_from_rsa, PkCtx
<1> HIDE DEF b
<1>2. FitsPubRaw(b) /\ IsPublished(b, c)
  BY <1>1 DEF FitsPubRaw, IsPublished
<1> QED
  BY <1>1, <1>2, SyncPubkeyPublishes DEF pk_sync_from_rsa, b

\* One pk context changes, and what its entries have does not.
LEMMA PublishedAtOne ==
  ASSUME StateOK, PublishedInv, NEW p \in Pk, NEW y, FitsPubRaw(y),
         pk' = [pk EXCEPT ![p] = y], cache' \subseteq cache,
         \A e \in cache' : heap'[e.rsa] = heap[e.rsa],
         \A e \in cache' : e.pk = p => IsPublished(y, heap[e.rsa]),
         CachedKeyIsPsaKey'
  PROVE  PublishedInv'
<1>1. pk'[p] = y /\ \A q \in Pk \ {p} : pk'[q] = pk[q]
  BY DEF StateOK
<1>2. \A q \in Pk : FitsPubRaw(pk'[q])
  BY <1>1 DEF PublishedInv
<1>3. \A e \in cache' : IsPublished(pk'[e.pk], heap'[e.rsa])
  BY <1>1, EntryHasContext DEF PublishedInv
<1> QED
  BY <1>2, <1>3 DEF PublishedInv

\* A pk context that is freed has nothing in pub_raw.
LEMMA FreshFits == FitsPubRaw(FreshPk) /\ FreshPk.type = "none"
  BY PkRsaAssumption DEF FitsPubRaw, FreshPk, Value

\* mbedtls_v3_shim_pk_rsa on p, which has the key and pub_raw of x.
LEMMA HitOrMissPublishes ==
  ASSUME StateOK, PublishedInv, NEW p \in Pk, NEW x \in PkCtx,
         x.priv = pk[p].priv, x.pub = pk[p].pub,
         NEW r, PkRsaHit(p, x, r) \/ PkRsaMiss(p, x, r)
  PROVE  PublishedInv'
<1>1. FitsPubRaw(x) /\ CachedKeyIsPsaKey'
  BY SlotIsMaterialized DEF PublishedInv, FitsPubRaw
<1>2. CASE PkRsaHit(p, x, r)
  <2>1. PICK e \in cache : e.pk = p /\ r = e.rsa
    BY <1>2 DEF PkRsaHit, cache_find
  <2>2. /\ heap[r] \in Ctx /\ IsPublished(pk[p], heap[r])
        /\ pk[p].priv # Null => heap[r] = PrivateCtx(pk[p].priv)
    BY <2>1, EntryHasContext DEF PublishedInv, CachedKeyIsPsaKey
  <2> DEFINE y == pk_sync_from_rsa(x, heap[r])
  <2>3. FitsPubRaw(y) /\ IsPublished(y, heap[r])
    BY <1>1, <2>2, SyncPublishes DEF IsPublished
  <2>4. \A f \in cache : f.pk = p => f.rsa = r
    BY <2>1 DEF StateOK, CacheIsAMap
  <2> HIDE DEF y
  <2>5. pk' = [pk EXCEPT ![p] = y] /\ heap' = heap /\ cache' = cache
    BY <1>2 DEF PkRsaHit, y
  <2> QED
    BY <1>1, <2>3, <2>4, <2>5, PublishedAtOne
<1>3. CASE PkRsaMiss(p, x, r)
  <2> DEFINE new == [pk |-> p, rsa |-> r]
  <2>1. PICK c \in materialize_rsa(x) :
          /\ heap' = [heap EXCEPT ![r] = c]
          /\ pk' = [pk EXCEPT ![p] = pk_sync_from_rsa(x, c)]
    BY <1>3 DEF PkRsaMiss, Allocate
  <2>2. \/ c = EmptyCtx /\ x.pub = Null /\ x.priv = Null
        \/ x.priv \in Key /\ c = PrivateCtx(x.priv)
    BY DEF materialize_rsa, materialize_rsa_from_pk_der, materialize_rsa_from_psa,
           pk_is_empty_rsa_template, pk_has_private_psa_key, When, PkCtx
  <2>3. c \in Ctx /\ IsPublished(x, c)
    <3>1. c \in Ctx
      BY MaterializeType
    <3>2. CASE c = EmptyCtx /\ x.pub = Null /\ x.priv = Null
      BY <3>1, <3>2, PkRsaAssumption DEF IsPublished, Value
    <3>3. CASE x.priv \in Key /\ c = PrivateCtx(x.priv)
      <4>1. CleanButJunk(c, x.priv)
        BY <3>3, PrivateIsFull DEF Clean, CleanButJunk
      <4>2. x.priv # Null /\ Junk # Null /\ Junk # x.priv
        BY <3>3, RsaContextAssumption, PkRsaAssumption DEF Value
      <4>3. x.pub \in {Null, x.priv} /\ Null \notin Key
        BY <1>1, <4>2, PkRsaAssumption DEF FitsPubRaw, Value
      <4> QED
        BY <3>1, <3>3, <4>1, <4>2, <4>3 DEF IsPublished
    <3> QED
      BY <2>2, <3>1, <3>2, <3>3
  <2> DEFINE y == pk_sync_from_rsa(x, c)
  <2>4. FitsPubRaw(y) /\ IsPublished(y, c)
    BY <1>1, <2>2, <2>3, SyncPublishes
  <2>5. r \in Rsa /\ heap[r] = Free
    BY <1>3 DEF PkRsaMiss, Available
  <2>6. \A e \in cache : e.pk # p /\ e.rsa # r
    BY <1>3, <2>5 DEF PkRsaMiss, IsCached, cache_find, StateOK, HeapIsTheCache
  <2>7. cache' = cache \cup {new} /\ new.pk = p /\ new.rsa = r
    BY <1>3 DEF PkRsaMiss, cache_insert
  <2> HIDE DEF new, y
  <2>8. pk'[p] = y /\ \A q \in Pk \ {p} : pk'[q] = pk[q]
    BY <2>1 DEF StateOK, y
  <2>9. heap'[r] = c /\ \A e \in cache : pk'[e.pk] = pk[e.pk] /\ heap'[e.rsa] = heap[e.rsa]
    BY <2>1, <2>5, <2>6, <2>8, EntryHasContext DEF StateOK
  <2>10. \A q \in Pk : FitsPubRaw(pk'[q])
    BY <2>4, <2>8 DEF PublishedInv
  <2>11. \A e \in cache' : IsPublished(pk'[e.pk], heap'[e.rsa])
    BY <2>4, <2>7, <2>8, <2>9 DEF PublishedInv
  <2> QED
    BY <1>1, <2>10, <2>11 DEF PublishedInv
<1> QED
  BY <1>2, <1>3

\* A call on a pk context.
LEMMA CallPublishes ==
  ASSUME ~LibraryFrees, StateOK, EntriesAreLive, PublishedInv, NEW p \in Pk, CallOnPk(p)
  PROVE  PublishedInv'
<1>0. CachedKeyIsPsaKey'
  BY CallKeepsSlot DEF PublishedInv
<1>1. CASE UNCHANGED <<pk, heap, cache>>
  BY <1>0, <1>1 DEF PublishedInv
<1>2. ASSUME NEW y \in PkCtx, FitsPubRaw(y), \A e \in cache : e.pk # p,
             heap' = heap, cache' = cache, pk' = [pk EXCEPT ![p] = y]
      PROVE  PublishedInv'
  BY <1>0, <1>2, PublishedAtOne
<1>3. ASSUME NEW r, ShimPkRsa(p, r) PROVE PublishedInv'
  <2>1. pk[p] \in PkCtx
    BY DEF StateOK
  <2>2. CASE PkRsaNull(p, pk[p], pk[p])
    <3>1. pk' = pk /\ heap' = heap /\ cache' = cache
      BY <2>1, <2>2, NullStep DEF PkRsaNull, StateOK
    <3> QED
      BY <1>1, <3>1
  <2> QED
    BY <1>3, <2>1, <2>2, HitOrMissPublishes DEF ShimPkRsa
<1>4. CASE Setup(p) /\ pk[p].type = "none"
  <2> DEFINE x == [pk[p] EXCEPT !.type = "rsa"]
  <2>1. x \in PkCtx /\ x.priv = pk[p].priv /\ x.pub = pk[p].pub
    BY DEF StateOK, PkCtx
  <2> HIDE DEF x
  <2>2. CASE PkRsaNull(p, x, FreshPk)
    <3>1. heap' = heap /\ cache' = cache /\ pk' = [pk EXCEPT ![p] = FreshPk]
      BY <2>2, NullStep, FreshPkType DEF PkRsaNull
    <3>2. \A e \in cache : e.pk # p
      BY <1>4 DEF EntriesAreLive, pk_is_rsa
    <3> QED
      BY <1>2, <3>1, <3>2, FreshFits, FreshPkType
  <2> QED
    BY <1>1, <1>4, <2>1, <2>2, HitOrMissPublishes DEF Setup, x
<1>5. CASE Parse(p)
  <2>1. \A e \in cache : e.pk # p
    BY <1>5 DEF Parse, EntriesAreLive, pk_is_rsa
  <2>2. FitsPubRaw(ParsedOther)
    BY PkRsaAssumption DEF FitsPubRaw, ParsedOther, Value
  <2>3. ASSUME NEW k \in Key, ModulusBits[k] <= PubRawMaxBits, NEW x \in Parsed(k)
        PROVE  FitsPubRaw(x)
    <3>1. ModulusBits[k] \in Nat \ {0} /\ Null \notin Key
      BY RsaContextAssumption, PkRsaAssumption DEF Value
    <3> QED
      BY <2>3, <3>1, PkRsaAssumption DEF Parsed, FitsPubRaw
  <2>4. PICK y : pk' = [pk EXCEPT ![p] = y] /\ FitsPubRaw(y)
    BY <1>5, <2>2, <2>3 DEF Parse
  <2> QED
    BY <1>0, <1>5, <2>1, <2>4, PublishedAtOne DEF Parse
<1>6. CASE WritePubkey(p)
  <2>1. ASSUME NEW e \in cache_find(p),
               pk' = [pk EXCEPT ![p] = pk_sync_pubkey_raw_from_rsa(
                                         [@ EXCEPT !.pub = Null], heap[e.rsa])]
        PROVE  PublishedInv'
    <3> DEFINE x == [pk[p] EXCEPT !.pub = Null]
               y == pk_sync_pubkey_raw_from_rsa(x, heap[e.rsa])
    <3>1. e \in cache /\ e.pk = p
      BY DEF cache_find
    <3>2. /\ pk[p] \in PkCtx /\ heap[e.rsa] \in Ctx /\ IsPublished(pk[p], heap[e.rsa])
          /\ pk[p].priv # Null => heap[e.rsa] = PrivateCtx(pk[p].priv)
      BY <3>1, EntryHasContext DEF StateOK, PublishedInv, CachedKeyIsPsaKey
    <3>3. x \in PkCtx /\ x.priv = pk[p].priv /\ x.pub = Null
      BY <3>2 DEF PkCtx
    <3>4. FitsPubRaw(x) /\ IsPublished(x, heap[e.rsa])
      BY <3>2, <3>3, PkRsaAssumption DEF FitsPubRaw, IsPublished, Value
    <3> HIDE DEF x
    <3>5. FitsPubRaw(y) /\ IsPublished(y, heap[e.rsa])
      BY <3>2, <3>3, <3>4, SyncPubkeyPublishes
    <3>6. pk' = [pk EXCEPT ![p] = y]
      BY <2>1 DEF x
    <3> HIDE DEF y
    <3>7. \A f \in cache : f.pk = p => f = e
      BY <3>1 DEF StateOK, CacheIsAMap
    <3> QED
      BY <1>0, <1>6, <3>5, <3>6, <3>7, PublishedAtOne DEF WritePubkey
  <2> QED
    BY <1>1, <1>6, <2>1 DEF WritePubkey, pk_resync_pubkey_raw_if_cached
<1>7. CASE PkFree(p)
  <2>1. /\ pk' = [pk EXCEPT ![p] = FreshPk] /\ cache' \subseteq cache
        /\ \A e \in cache' : e.pk # p
    BY <1>7, FreeFrame
  <2>2. \A e \in cache' : heap'[e.rsa] = heap[e.rsa]
    <3>1. ASSUME NEW d \in cache_find(p), cache' = cache \ {d},
                 heap' = [heap EXCEPT ![d.rsa] = Free], NEW e \in cache'
          PROVE  heap'[e.rsa] = heap[e.rsa]
      <4>1. e \in cache /\ d \in cache /\ e # d
        BY <3>1 DEF cache_find
      <4>2. e.rsa # d.rsa
        BY <4>1 DEF StateOK, CacheIsAMap
      <4> QED
        BY <3>1, <4>1, <4>2, EntryHasContext DEF StateOK
    <3> QED
      BY <1>7, <3>1 DEF PkFree, cache_remove, Release
  <2> QED
    BY <1>0, <2>1, <2>2, FreshFits, PublishedAtOne
<1>8. CASE LibraryFree(p)
  <2>1. /\ pk' = [pk EXCEPT ![p] = FreshPk] /\ heap' = heap /\ cache' = cache
        /\ \A e \in cache : e.pk # p
    BY <1>8 DEF LibraryFree, IsCached, cache_find
  <2> QED
    BY <1>2, <2>1, FreshFits, FreshPkType
<1>9. CASE PkRsa(p) \/ GetBitlen(p) \/ Verify(p) \/ Sign(p)
             \/ Crypt("encrypt", p) \/ Crypt("decrypt", p)
  BY <1>1, <1>3, <1>9 DEF PkRsa, GetBitlen, Verify, Sign, Crypt
<1>10. Setup(p) => pk[p].type = "none" \/ UNCHANGED <<pk, heap, cache>>
  BY DEF Setup
<1> QED
  BY <1>1, <1>4, <1>5, <1>6, <1>7, <1>8, <1>9, <1>10 DEF CallOnPk

\* The RSA context c of one entry changes to d, and its pk context to y.
LEMMA PublishedAtEntry ==
  ASSUME StateOK, PublishedInv, NEW e \in cache, NEW y, FitsPubRaw(y), NEW d,
         IsPublished(y, d), pk' = [pk EXCEPT ![e.pk] = y],
         heap' = [heap EXCEPT ![e.rsa] = d], UNCHANGED cache, CachedKeyIsPsaKey'
  PROVE  PublishedInv'
<1>1. e.pk \in Pk /\ e.rsa \in Rsa
  BY EntryHasContext
<1>2. pk'[e.pk] = y /\ \A q \in Pk \ {e.pk} : pk'[q] = pk[q]
  BY <1>1 DEF StateOK
<1>3. heap'[e.rsa] = d /\ \A q \in Rsa \ {e.rsa} : heap'[q] = heap[q]
  BY <1>1 DEF StateOK
<1>4. \A f \in cache : f # e => f.pk # e.pk /\ f.rsa # e.rsa
  BY DEF StateOK, CacheIsAMap
<1>5. \A q \in Pk : FitsPubRaw(pk'[q])
  BY <1>2 DEF PublishedInv
<1>6. \A f \in cache : IsPublished(pk'[f.pk], heap'[f.rsa])
  BY <1>2, <1>3, <1>4, EntryHasContext DEF PublishedInv
<1> QED
  BY <1>5, <1>6 DEF PublishedInv

\* An import or a completion.
LEMMA BuildingPublishes ==
  ASSUME ~Reimport, StateOK, PublishedInv, NEW r \in Rsa, CallOnRsa(r)
  PROVE  PublishedInv'
<1>0. CachedKeyIsPsaKey'
  BY BuildingKeepsSlot DEF PublishedInv
<1>1. PICK e \in cache : e.rsa = r
  BY DEF CallOnRsa, Import, Complete, Usable, StateOK, HeapIsTheCache
<1> DEFINE x == pk[e.pk]
           c == heap[r]
<1>2. /\ x \in PkCtx /\ c \in Ctx /\ FitsPubRaw(x) /\ IsPublished(x, c) /\ cache' = cache
      /\ x.priv # Null => c = PrivateCtx(x.priv)
  BY <1>1, EntryHasContext DEF StateOK, PublishedInv, CachedKeyIsPsaKey, CallOnRsa,
                               Import, Complete
<1>3. CASE Import(r)
  <2>1. PICK k \in Key, S \in Imports :
          /\ MayImport(r, k)
          /\ \E o \in mbedtls_rsa_import(c, PartsOf(k), S)
                        \cup mbedtls_rsa_import_raw(c, PartsOf(k), S) :
               heap' = [heap EXCEPT ![r] = o.ctx]
    BY <1>3 DEF Import
  <2>2. PICK o \in mbedtls_rsa_import(c, PartsOf(k), S)
                     \cup mbedtls_rsa_import_raw(c, PartsOf(k), S) :
          heap' = [heap EXCEPT ![r] = o.ctx]
    BY <2>1
  <2>3. CleanButJunk(c, k) /\ x.pub \in {Null, k} /\ S \in SUBSET Part
    BY <1>1, <2>1, PkRsaAssumption DEF MayImport, OneKey, CleanButJunk
  <2>4. CleanButJunk(o.ctx, k)
    BY <1>2, <2>3, ImportAmongJunk
  <2>5. Null # Junk /\ Null \notin Key /\ k # Junk
    BY PkRsaAssumption, RsaContextAssumption DEF Value
  <2>6. IsPublished(x, o.ctx)
    BY <2>3, <2>4, <2>5 DEF IsPublished
  <2> HIDE DEF x
  <2>7. pk' = [pk EXCEPT ![e.pk] = x]
    BY <1>3 DEF Import, StateOK, x
  <2> QED
    BY <1>0, <1>1, <1>2, <2>2, <2>6, <2>7, PublishedAtEntry
<1>4. CASE Complete(r)
  <2>1. PICK o \in mbedtls_rsa_complete(c) :
          /\ heap' = [heap EXCEPT ![r] = o.ctx]
          /\ IF o.ok THEN SyncFromCtx(r, o.ctx) ELSE UNCHANGED pk
    BY <1>4 DEF Complete
  <2>2. o.ctx \in Ctx
    BY <1>2, CompleteType DEF Outcome
  <2>3. IsPublished(x, o.ctx)
    <3>1. CASE c = EmptyCtx
      BY <1>2, <2>1, <3>1, CompletionOfNothing DEF Failed
    <3>2. ASSUME NEW k \in Key, CleanButJunk(c, k) PROVE IsPublished(x, o.ctx)
      <4>1. GoesOn(c, k, o.ctx)
        BY <1>2, <3>2, CompletionInventsNoKey
      <4>2. x.pub \in Key => CleanButJunk(o.ctx, x.pub)
        BY <1>2, CompletionInventsNoKey DEF IsPublished, GoesOn
      <4>3. Have(c, "N") /\ Have(c, "E")
              => Have(o.ctx, "N") /\ Have(o.ctx, "E") /\ o.ctx.mpi["N"] = c.mpi["N"]
        BY <4>1 DEF GoesOn, Have
      <4> HIDE DEF x, c
      <4> QED
        BY <1>2, <4>1, <4>2, <4>3 DEF IsPublished, GoesOn
    <3> QED
      BY <1>2, <3>1, <3>2 DEF IsPublished
  <2>4. x.priv # Null => o.ctx = PrivateCtx(x.priv)
    <3>1. x.priv # Null => x.priv \in Key
      BY <1>2 DEF PkCtx
    <3> QED
      BY <1>2, <2>1, <3>1, PrivateIsFull, CompletionOfOneKey
  <2>5. CASE pk' = pk
    <3> HIDE DEF x
    <3>1. pk' = [pk EXCEPT ![e.pk] = x]
      BY <2>5 DEF StateOK, x
    <3> QED
      BY <1>0, <1>1, <1>2, <2>1, <2>3, <3>1, PublishedAtEntry
  <2>6. CASE \E f \in cache : /\ f.rsa = r
                              /\ pk' = [pk EXCEPT ![f.pk] = pk_sync_from_rsa(@, o.ctx)]
    <3> DEFINE y == pk_sync_from_rsa(x, o.ctx)
    <3>1. pk' = [pk EXCEPT ![e.pk] = y]
      BY <1>1, <2>6 DEF StateOK, CacheIsAMap
    <3>2. FitsPubRaw(y) /\ IsPublished(y, o.ctx)
      BY <1>2, <2>2, <2>3, <2>4, SyncPublishes
    <3> HIDE DEF y
    <3> QED
      BY <1>0, <1>1, <1>2, <2>1, <3>1, <3>2, PublishedAtEntry
  <2> QED
    BY <2>1, <2>5, <2>6 DEF SyncFromCtx
<1> QED
  BY <1>3, <1>4 DEF CallOnRsa

\* The invariant is preserved by every step.
LEMMA PublishedNext ==
  ASSUME ~Reimport, ~LibraryFrees, StateOK, EntriesAreLive, PublishedInv, [Next]_vars
  PROVE  PublishedInv'
<1>1. CASE UNCHANGED vars
  BY <1>1, SlotsNext DEF vars, PublishedInv
<1> QED
  BY <1>1, CallPublishes, BuildingPublishes DEF Next

\* The step that rebuilds pub_raw fills it again.
LEMMA StepKeepsPublicKey ==
  ASSUME StateOK, EntriesAreLive, PublishedInv, [Next]_vars, NEW p \in Pk, NEW e \in cache, e.pk = p,
         pk[p].pub # Null, pk_is_rsa(pk'[p]), Have(heap[e.rsa], "N"), Have(heap[e.rsa], "E")
  PROVE  pk'[p].pub # Null
<1>1. /\ pk[p] \in PkCtx /\ heap[e.rsa] \in Ctx /\ IsCached(p)
      /\ FitsPubRaw(pk[p]) /\ IsPublished(pk[p], heap[e.rsa])
      /\ \A f \in cache : f.pk = p => f = e
  BY EntryHasContext DEF StateOK, CacheIsAMap, PublishedInv, IsCached, cache_find
<1>2. CASE UNCHANGED pk
  BY <1>2
<1>3. ASSUME NEW x \in PkCtx, x.pub = pk[p].pub, NEW r, PkRsaHit(p, x, r) \/ PkRsaMiss(p, x, r)
      PROVE  pk'[p].pub # Null
  <2>1. PkRsaHit(p, x, r)
    BY <1>1, <1>3 DEF PkRsaMiss
  <2>2. heap[r] \in Ctx
    BY <2>1, EntryHasContext DEF PkRsaHit, cache_find
  <2>3. pk_sync_from_rsa(x, heap[r]).pub = pk[p].pub
    BY <1>3, <2>2, SyncType
  <2> QED
    BY <2>1, <2>3 DEF PkRsaHit, StateOK
<1>4. ASSUME NEW r, ShimPkRsa(p, r) PROVE pk'[p].pub # Null
  <2>1. CASE PkRsaNull(p, pk[p], pk[p])
    BY <1>1, <2>1 DEF PkRsaNull, StateOK
  <2> QED
    BY <1>1, <1>3, <1>4, <2>1 DEF ShimPkRsa
<1>5. CASE WritePubkey(p)
  <2> DEFINE x == [pk[p] EXCEPT !.pub = Null]
  <2>1. x \in PkCtx /\ x.pub = Null
    BY <1>1 DEF PkCtx
  <2>2. Bits(heap[e.rsa].mpi["N"]) <= PubRawMaxBits
    <3> DEFINE n == heap[e.rsa].mpi["N"]
    <3>1. CASE pk[p].pub = Junk
      BY <1>1, <3>1 DEF IsPublished
    <3>2. CASE pk[p].pub \in Key
      <4> DEFINE k == pk[p].pub
      <4>1. n \in {k, Zero, Junk} /\ ModulusBits[k] <= PubRawMaxBits /\ PubRawMaxBits >= 1
        BY <1>1, <3>2 DEF IsPublished, FitsPubRaw, CleanButJunk, Field, Part
      <4>2. Bits(k) = ModulusBits[k] /\ Bits(Zero) = 0 /\ Bits(Junk) = 1
        BY <3>2, RsaContextAssumption DEF Bits
      <4> HIDE DEF n, k
      <4> QED
        BY <4>1, <4>2, PkRsaAssumption DEF n
    <3> QED
      BY <1>1, <3>1, <3>2 DEF PkCtx
  <2>3. pk'[p] = pk_sync_pubkey_raw_from_rsa(x, heap[e.rsa])
    <3>1. pk_is_rsa(pk[p]) \/ UNCHANGED pk
      BY <1>5 DEF WritePubkey, pk_resync_pubkey_raw_if_cached
    <3>2. pk_is_rsa(pk[p])
      BY <3>1
    <3>3. PICK f \in cache_find(p) :
            pk' = [pk EXCEPT ![p] = pk_sync_pubkey_raw_from_rsa(x, heap[f.rsa])]
      BY <1>1, <1>5, <3>2 DEF WritePubkey, pk_resync_pubkey_raw_if_cached
    <3>4. f = e
      BY <1>1 DEF cache_find
    <3> HIDE DEF x
    <3> QED
      BY <3>3, <3>4 DEF StateOK
  <2> HIDE DEF x
  <2>4. pk'[p].pub = PublicOf(heap[e.rsa])
    <3>1. Bits(heap[e.rsa].mpi["N"]) \in Nat
      BY <1>1, SizeType DEF Ctx, Field, Part
    <3> QED
      BY <2>1, <2>2, <2>3, <3>1, PkRsaAssumption DEF pk_sync_pubkey_raw_from_rsa, PkCtx
  <2>5. PublicOf(heap[e.rsa]) \in Value
    BY <1>1 DEF PublicOf, Value, Ctx, Field, Part
  <2> QED
    BY <2>4, <2>5, PkRsaAssumption
<1>6. CASE Setup(p) \/ Parse(p)
  <2> DEFINE x == [pk[p] EXCEPT !.type = "rsa"]
  <2>1. x \in PkCtx /\ x.pub = pk[p].pub
    BY <1>1 DEF PkCtx
  <2> HIDE DEF x
  <2>2. CASE Setup(p)
    <3>1. PkRsaNull(p, x, FreshPk) => pk'[p] = FreshPk
      BY DEF PkRsaNull, StateOK
    <3> QED
      BY <1>2, <1>3, <2>1, <2>2, <3>1, FreshFits DEF Setup, pk_is_rsa, x
  <2>3. CASE Parse(p)
    BY <2>3 DEF Parse, EntriesAreLive, pk_is_rsa
  <2> QED
    BY <1>6, <2>2, <2>3
<1>7. CASE PkFree(p) \/ LibraryFree(p)
  <2>1. pk'[p] = FreshPk
    BY <1>7 DEF PkFree, LibraryFree, StateOK
  <2> QED
    BY <2>1, FreshFits DEF pk_is_rsa
<1>8. CASE Sign(p)
  BY <1>2, <1>8 DEF Sign
<1>9. CASE PkRsa(p) \/ GetBitlen(p) \/ Verify(p) \/ Crypt("encrypt", p) \/ Crypt("decrypt", p)
  BY <1>2, <1>4, <1>9 DEF PkRsa, GetBitlen, Verify, Crypt
<1>10. CASE CallOnPk(p)
  BY <1>5, <1>6, <1>7, <1>8, <1>9, <1>10 DEF CallOnPk
<1>11. ASSUME NEW q \in Pk, q # p, CallOnPk(q) PROVE pk'[p].pub # Null
  <2>1. p \in Pk \ {q}
    BY <1>11
  <2> QED
    BY <1>11, <2>1, OthersStay
<1>12. ASSUME NEW r \in Rsa, Complete(r) PROVE pk'[p].pub # Null
  <2>1. heap[r] \in Ctx
    BY <1>12 DEF Complete, Usable, StateOK
  <2>2. \A o \in mbedtls_rsa_complete(heap[r]) : o.ctx \in Ctx
    BY <2>1, CompleteType DEF Outcome
  <2>3. ASSUME NEW c \in Ctx, NEW f \in cache, pk' = [pk EXCEPT ![f.pk] = pk_sync_from_rsa(@, c)]
        PROVE  pk'[p].pub # Null
    <3>1. pk_sync_from_rsa(pk[p], c).pub = pk[p].pub
      BY <1>1, SyncType
    <3> QED
      BY <2>3, <3>1, EntryHasContext DEF StateOK
  <2> QED
    BY <1>2, <1>12, <2>2, <2>3 DEF Complete, SyncFromCtx
<1>13. ASSUME NEW r \in Rsa, Import(r) PROVE pk'[p].pub # Null
  BY <1>2, <1>13 DEF Import
<1> QED
  BY <1>2, <1>10, <1>11, <1>12, <1>13 DEF Next, CallOnRsa, vars

\* Rebuilding pub_raw (mbedtls_pk_write_pubkey_der, _pem) empties it first:
\* the key comes back, because what was there fits and is in the RSA context,
\* also when failed completions have left components of no key in that.
THEOREM PublishedKeyStays ==
  ASSUME ~Reimport, ~LibraryFrees
  PROVE  Spec => PublicKeyIsKept
<1> DEFINE Kept == \A p \in Pk, e \in cache :
                     /\ e.pk = p /\ pk[p].pub # Null /\ pk_is_rsa(pk'[p])
                     /\ Have(heap[e.rsa], "N") /\ Have(heap[e.rsa], "E")
                     => pk'[p].pub # Null
<1>1. Init => PublishedInv
  BY FreshFits DEF Init, PublishedInv, CachedKeyIsPsaKey
<1>2. IInv /\ EntriesAreLive /\ PublishedInv /\ [Next]_vars => PublishedInv'
  BY PublishedNext DEF IInv
<1>3. Spec => []EntriesAreLive
  BY EntriesDieWithTheirContext
<1>4. ASSUME IInv, EntriesAreLive, PublishedInv, [Next]_vars PROVE [Kept]_vars
  BY <1>4, StepKeepsPublicKey DEF IInv
<1> QED
  BY <1>1, <1>2, <1>3, <1>4, Invariance, PTL DEF Spec, PublicKeyIsKept

\* A completion leaves the modulus and the exponent that are there alone, for
\* every caller: it may import a second key, retry after a failure, or free
\* pk contexts behind the shim.
THEOREM PublicHalfStays == Spec => CompletionKeepsThePublicHalf
<1> DEFINE Kept == \A e \in cache :
                     LET c == heap[e.rsa]
                         d == heap'[e.rsa]
                     IN  out'.op = "complete" /\ out'.pk = e.pk
                           => /\ \A f \in {"N", "E"} : Have(c, f) => d.mpi[f] = c.mpi[f]
                              /\ Have(c, "N") => d.len = c.len
<1>1. ASSUME IInv, Next PROVE Kept
  <2>1. ASSUME NEW p \in Pk, CallOnPk(p) PROVE Kept
    BY <2>1, OthersReportNoCompletion
  <2>2. ASSUME NEW r \in Rsa, Import(r) PROVE Kept
    BY <2>2 DEF Import, Quiet
  <2>3. ASSUME NEW r \in Rsa, Complete(r) PROVE Kept
    <3>1. heap[r] \in Ctx
      BY <1>1, <2>3 DEF Complete, Usable, IInv, StateOK
    <3>2. PICK o \in mbedtls_rsa_complete(heap[r]) : heap' = [heap EXCEPT ![r] = o.ctx]
      BY <2>3 DEF Complete
    <3>3. KeepsPublicHalf(heap[r], o.ctx)
      BY <3>1, CompletionKeeps
    <3>4. \A q \in Rsa : heap'[q] = heap[q] \/ (q = r /\ heap'[q] = o.ctx)
      BY <1>1, <3>2 DEF IInv, StateOK
    <3>5. \A e \in cache : e.rsa \in Rsa
      BY <1>1 DEF IInv, StateOK, Entry
    <3> QED
      BY <3>3, <3>4, <3>5 DEF KeepsPublicHalf
  <2> QED
    BY <1>1, <2>1, <2>2, <2>3 DEF Next, CallOnRsa
<1>2. IInv /\ [Next]_vars => [Kept]_vars
  BY <1>1
<1> QED
  BY <1>2, Invariance, PTL DEF Spec, CompletionKeepsThePublicHalf

-----------------------------------------------------------------------------
(***************************************************************************)
(* PkRsa implements LegacyPk.  Most calls leave the RSA contexts that pk   *)
(* contexts own as they are: a materialization caches the very context     *)
(* that the PSA slot stood for.  What they answer is the key in that       *)
(* context because the copies of a key agree.                              *)
(***************************************************************************)


-----------------------------------------------------------------------------
(* LegacyPk has operators of RsaContext of its own, which are the same.    *)

LEMMA SameContexts ==
  /\ Legacy!EmptyCtx = EmptyCtx
  /\ \A k : Legacy!PrivateCtx(k) = PrivateCtx(k)
  /\ \A c : Legacy!PublicOf(c) = PublicOf(c)
  /\ \A c, f : Legacy!Have(c, f) <=> Have(c, f)
  /\ Legacy!Field = Field
  /\ \A k : Legacy!PartsOf(k) = PartsOf(k)
<1>1. Legacy!Field = Field /\ Legacy!Part = Part
  BY DEF Legacy!Field, Legacy!Part, Field, Part
<1>2. \A k : Legacy!Size(k) = Size(k)
  BY DEF Legacy!Size, Legacy!Bits, Size, Bits
<1> QED
  BY <1>1, <1>2
  DEF Legacy!EmptyCtx, EmptyCtx, Legacy!PrivateCtx, PrivateCtx, Legacy!PublicOf,
      PublicOf, Legacy!Have, Have, Legacy!PartsOf, PartsOf

LEMMA SameImport ==
  \A c, g, S : /\ Legacy!mbedtls_rsa_import(c, g, S) = mbedtls_rsa_import(c, g, S)
               /\ Legacy!mbedtls_rsa_import_raw(c, g, S) = mbedtls_rsa_import_raw(c, g, S)
<1>1. Legacy!Rank = Rank
  BY DEF Legacy!Rank, Rank, Legacy!Part, Part
<1>2. \A S, f : Legacy!Before(S, f) = Before(S, f)
  BY <1>1, Zenon DEF Legacy!Before, Before
<1>3. \A c, F, g : Legacy!Copy(c, F, g) = Copy(c, F, g)
  BY Zenon DEF Legacy!Copy, Copy, Legacy!Field, Field, Legacy!Part, Part
<1>4. \A c, F, v : Legacy!Put(c, F, v) = Put(c, F, v)
  BY Zenon DEF Legacy!Put, Put, Legacy!Field, Field, Legacy!Part, Part
<1>5. \A c, v : Legacy!SetLen(c, Legacy!Size(v)) = SetLen(c, Size(v))
  BY Zenon DEF Legacy!SetLen, SetLen, Legacy!Size, Size, Legacy!Bits, Bits
<1>6. \A c : Legacy!Done(c) = Done(c) /\ Legacy!Failed(c) = Failed(c)
  BY Zenon DEF Legacy!Done, Done, Legacy!Failed, Failed
<1>7. \A b, S : Legacy!When(b, S) = When(b, S)
  BY Zenon DEF Legacy!When, When
<1> SUFFICES ASSUME NEW c, NEW g, NEW S
             PROVE  /\ Legacy!mbedtls_rsa_import(c, g, S) = mbedtls_rsa_import(c, g, S)
                    /\ Legacy!mbedtls_rsa_import_raw(c, g, S)
                         = mbedtls_rsa_import_raw(c, g, S)
  OBVIOUS
<1> DEFINE Read(F) == IF "N" \in F THEN SetLen(Copy(c, F, g), Size(g["N"]))
                                   ELSE Copy(c, F, g)
           LegacyRead(F) == IF "N" \in F
                              THEN Legacy!SetLen(Legacy!Copy(c, F, g), Legacy!Size(g["N"]))
                              ELSE Legacy!Copy(c, F, g)
<1>8. \A F : LegacyRead(F) = Read(F)
  BY <1>3, <1>5
<1>9. \A f : /\ Legacy!Failed(Legacy!Copy(c, Legacy!Before(S, f), g))
                  = Failed(Copy(c, Before(S, f), g))
             /\ Legacy!Failed(LegacyRead(Legacy!Before(S, f))) = Failed(Read(Before(S, f)))
             /\ Legacy!Failed(Legacy!Put(LegacyRead(Legacy!Before(S, f)), {f}, Zero))
                  = Failed(Put(Read(Before(S, f)), {f}, Zero))
  <2> HIDE DEF Read, LegacyRead
  <2> QED
    BY <1>2, <1>3, <1>4, <1>6, <1>8
<1>10. /\ Legacy!Done(LegacyRead(S)) = Done(Read(S))
       /\ Legacy!mbedtls_rsa_import_raw(c, g, S) =
            {Legacy!Done(LegacyRead(S))}
              \cup When(MayFail, {Legacy!Failed(LegacyRead(Legacy!Before(S, f))) : f \in S})
              \cup When(MayFail, {Legacy!Failed(Legacy!Put(LegacyRead(Legacy!Before(S, f)),
                                                      {f}, Zero)) : f \in S})
  <2>1. Legacy!Done(LegacyRead(S)) = Done(Read(S))
    <3> HIDE DEF Read, LegacyRead
    <3> QED
      BY <1>6, <1>8
  <2> QED
    BY <1>7, <2>1, Zenon DEF Legacy!mbedtls_rsa_import_raw
<1>11. mbedtls_rsa_import_raw(c, g, S) =
            {Done(Read(S))}
              \cup When(MayFail, {Failed(Read(Before(S, f))) : f \in S})
              \cup When(MayFail, {Failed(Put(Read(Before(S, f)), {f}, Zero)) : f \in S})
  BY Zenon DEF mbedtls_rsa_import_raw
<1>12. Legacy!mbedtls_rsa_import_raw(c, g, S) = mbedtls_rsa_import_raw(c, g, S)
  <2> HIDE DEF Read, LegacyRead
  <2> QED
    BY <1>9, <1>10, <1>11
<1>13. Legacy!mbedtls_rsa_import(c, g, S) = mbedtls_rsa_import(c, g, S)
  <2>1. (IF "N" \in S THEN Legacy!SetLen(Legacy!Copy(c, S, g), Legacy!Size(g["N"]))
                      ELSE Legacy!Copy(c, S, g))
          = (IF "N" \in S THEN SetLen(Copy(c, S, g), Size(g["N"])) ELSE Copy(c, S, g))
    BY <1>3, <1>5
  <2>2. {Legacy!Failed(Legacy!Copy(c, Legacy!Before(S, f), g)) : f \in S}
          = {Failed(Copy(c, Before(S, f), g)) : f \in S}
    BY <1>9
  <2> QED
    BY <1>6, <1>7, <2>1, <2>2 DEF Legacy!mbedtls_rsa_import, mbedtls_rsa_import
<1> QED
  BY <1>12, <1>13

LEMMA SameComplete ==
  \A c : Legacy!mbedtls_rsa_complete(c) = mbedtls_rsa_complete(c)
  BY Zenon
  DEF Legacy!mbedtls_rsa_complete, mbedtls_rsa_complete,
      Legacy!CompleteCrt, CompleteCrt, Legacy!CompletePQD, CompletePQD,
      Legacy!CompleteN, CompleteN, Legacy!DeduceMissing, DeduceMissing,
      Legacy!DeduceCrtIfMissing, DeduceCrtIfMissing,
      Legacy!rsa_check_context, rsa_check_context, Legacy!DeduceCrt, DeduceCrt,
      Legacy!DeduceD, DeduceD, Legacy!rsa_deduce_primes, rsa_deduce_primes,
      Legacy!DeduceN, DeduceN, Legacy!ComputationFails, ComputationFails,
      Legacy!KeyOf, KeyOf, Legacy!IsPriv, IsPriv, Legacy!IsPub, IsPub,
      Legacy!NMissing, NMissing, Legacy!PQMissing, PQMissing,
      Legacy!DMissing, DMissing, Legacy!Have, Have,
      Legacy!Put, Put, Legacy!SetLen, SetLen, Legacy!Done, Done, Legacy!Failed, Failed,
      Legacy!When, When, Legacy!Size, Size, Legacy!Bits, Bits,
      Legacy!Field, Field, Legacy!Part, Part

LEMMA SamePublicCtx ==
  ASSUME NEW x, x.priv = Null, x.pub # Null
  PROVE  Unmaterialized(x) = Legacy!PublicCtx(x.pub)
  BY Zenon
  DEF Unmaterialized, Legacy!PublicCtx, Legacy!Size, Size, Legacy!Bits, Bits,
      Legacy!Field, Field, Legacy!Part, Part

-----------------------------------------------------------------------------
(* The RSA contexts that pk contexts own.                                  *)

\* The RSA context of p, by the state p is in.
OwnedIs(p) ==
  /\ ~pk_is_rsa(pk[p]) => OwnedContexts[p] = Free
  /\ pk_is_rsa(pk[p]) /\ ~IsCached(p) => OwnedContexts[p] = Unmaterialized(pk[p])
  /\ \A e \in cache :
       pk_is_rsa(pk[p]) /\ e.pk = p => OwnedContexts[p] = heap[e.rsa]

OwnedContextsKnown ==
  /\ \A p \in Pk : OwnedIs(p)
  /\ OwnedContexts = [p \in Pk |-> OwnedContexts[p]]

LEMMA OwnedContextsOf == CacheIsAMap => OwnedContextsKnown
<1> SUFFICES ASSUME CacheIsAMap, NEW p \in Pk PROVE OwnedIs(p)
  BY DEF OwnedContextsKnown, OwnedContexts
<1>1. OwnedContexts[p] =
        IF ~pk_is_rsa(pk[p]) THEN Free
        ELSE IF IsCached(p) THEN heap[(CHOOSE e \in cache : e.pk = p).rsa]
        ELSE Unmaterialized(pk[p])
  BY DEF OwnedContexts
<1>2. ASSUME NEW e \in cache, e.pk = p
      PROVE  IsCached(p) /\ (CHOOSE f \in cache : f.pk = p) = e
  BY <1>2 DEF CacheIsAMap, IsCached, cache_find
<1> QED
  BY <1>1, <1>2 DEF OwnedIs

\* The same after a step.
LEMMA OwnedContextsNext == CacheIsAMap' => OwnedContextsKnown'
  BY OwnedContextsOf, PTL

\* An RSA pk context owns a context.
LEMMA OwnedIsContext ==
  ASSUME Owned, NEW p \in Pk
  PROVE  OwnedContexts[p] = Free <=> ~pk_is_rsa(pk[p])
<1>1. OwnedIs(p)
  BY OwnedContextsOf DEF OwnedContextsKnown, Owned, StateOK
<1>2. CASE ~pk_is_rsa(pk[p])
  BY <1>1, <1>2 DEF OwnedIs
<1>3. CASE pk_is_rsa(pk[p]) /\ IsCached(p)
  BY <1>1, <1>3, CachedIsRsa, PkRsaAssumption DEF OwnedIs, IsCached, cache_find
<1>4. CASE pk_is_rsa(pk[p]) /\ ~IsCached(p)
  <2>1. Unmaterialized(pk[p]) # Free
    <3>1. pk[p] \in PkCtx
      BY DEF Owned, StateOK
    <3>2. pk[p].priv \in Key \/ pk[p].priv = Null
      BY <3>1 DEF PkCtx
    <3>3. pk[p].priv = Null => pk[p].pub # Null
      BY <1>4 DEF Owned, TemplatesAreCached, pk_is_empty_rsa_template
    <3>4. pk[p].priv = Null => Unmaterialized(pk[p]) \in Ctx
      <4>1. pk[p].pub \in Value \/ pk[p].pub = Null
        BY <3>1 DEF PkCtx, Value
      <4>2. pk[p].pub \in Value => Size(pk[p].pub) \in Nat
        BY SizeType
      <4> QED
        BY <3>3, <4>1, <4>2 DEF Unmaterialized, Ctx, Value
    <3>5. pk[p].priv # Null => Unmaterialized(pk[p]) \in Ctx
      BY <3>2, NewContextTypes DEF Unmaterialized
    <3> QED
      BY <3>4, <3>5, PkRsaAssumption
  <2> QED
    BY <1>1, <1>4, <2>1 DEF OwnedIs
<1> QED
  BY <1>2, <1>3, <1>4

\* Whatever answers a call has the public key of the RSA context: what is in
\* pub_raw, what is in the PSA slot.
OneAnswer(p) ==
  pk_is_rsa(pk[p]) =>
    /\ pk[p].pub # Null /\ Legacy!HoldsKey(OwnedContexts[p])
         => pk[p].pub = PublicOf(OwnedContexts[p])
    /\ pk[p].priv # Null => pk[p].priv = PublicOf(OwnedContexts[p])

OneAnswerEach == \A p \in Pk : OneAnswer(p)

LEMMA AnswersAgree == KeyInv => OneAnswerEach
<1> SUFFICES ASSUME KeyInv, NEW p \in Pk, pk_is_rsa(pk[p]) PROVE OneAnswer(p)
  BY DEF OneAnswerEach, OneAnswer
<1> DEFINE c == OwnedContexts[p]
<1>1. /\ OwnedIs(p) /\ Whole(pk[p]) /\ pk[p] \in PkCtx
  BY OwnedContextsOf DEF OwnedContextsKnown, KeyInv, Owned, StateOK, KeysAgree
<1>2. \A k \in Key : PublicOf(PrivateCtx(k)) = k
  BY DEF PublicOf, PrivateCtx, Field, Part
<1>3. CASE IsCached(p)
  <2>1. PICK e \in cache : e.pk = p
    BY <1>3 DEF IsCached, cache_find
  <2>2. c = heap[e.rsa]
    BY <1>1, <2>1 DEF OwnedIs
  <2>3. ASSUME NEW k \in Key, Agrees(pk[p], c, k) PROVE OneAnswer(p)
    <3>1. Legacy!HoldsKey(c) => PublicOf(c) = k
      BY <2>3, SameContexts, HaveIsKey DEF Legacy!HoldsKey, Agrees, PublicOf
    <3> QED
      BY <1>2, <2>3, <3>1 DEF OneAnswer, Agrees
  <2>4. CASE Keyless(pk[p])
    BY <2>4 DEF Keyless, OneAnswer
  <2> QED
    BY <2>1, <2>2, <2>3, <2>4 DEF KeyInv, KeysAgree, EntryAgrees
<1>4. CASE ~IsCached(p)
  <2>1. c = Unmaterialized(pk[p])
    BY <1>1, <1>4 DEF OwnedIs
  <2>2. CASE pk[p].priv # Null
    BY <1>1, <1>2, <2>1, <2>2 DEF Unmaterialized, OneAnswer, Whole, PkCtx
  <2>3. CASE pk[p].priv = Null
    <3>1. pk[p].pub # Null => PublicOf(Unmaterialized(pk[p])) = pk[p].pub
      BY <2>3 DEF Unmaterialized, PublicOf, Field, Part
    <3> QED
      BY <2>1, <2>3, <3>1 DEF OneAnswer
  <2> QED
    BY <2>2, <2>3
<1> QED
  BY <1>3, <1>4

LEMMA AnswersAgreeNext == KeyInv' => OneAnswerEach'
  BY AnswersAgree, PTL

-----------------------------------------------------------------------------
(* What steps do to the RSA contexts that pk contexts own.                 *)

\* q is as it was, but for the copies of the key of a cached RSA context.
Untouched(q) ==
  /\ pk_is_rsa(pk'[q]) <=> pk_is_rsa(pk[q])
  /\ \A e \in cache : e.pk = q => e \in cache' /\ heap'[e.rsa] = heap[e.rsa]
  /\ \A e \in cache' : e.pk = q => e \in cache
  /\ ~IsCached(q) => pk'[q] = pk[q]

LEMMA UntouchedOwns ==
  ASSUME Owned, Owned', NEW q \in Pk, Untouched(q)
  PROVE  OwnedContexts'[q] = OwnedContexts[q]
<1>1. OwnedIs(q) /\ OwnedIs(q)'
  BY OwnedContextsOf, OwnedContextsNext DEF OwnedContextsKnown, Owned, StateOK
<1>2. CASE ~pk_is_rsa(pk[q])
  BY <1>1, <1>2 DEF OwnedIs, Untouched
<1>3. CASE pk_is_rsa(pk[q]) /\ IsCached(q)
  BY <1>1, <1>3 DEF OwnedIs, Untouched, IsCached, cache_find
<1>4. CASE pk_is_rsa(pk[q]) /\ ~IsCached(q)
  <2>1. IsCached(q)' <=> \E e \in cache' : e.pk = q
    BY DEF IsCached, cache_find
  <2>2. ~IsCached(q)'
    BY <1>4, <2>1 DEF IsCached, cache_find, Untouched
  <2> QED
    BY <1>1, <1>4, <2>2 DEF OwnedIs, Untouched
<1> QED
  BY <1>2, <1>3, <1>4

\* The context of p becomes c.
LEMMA OneOwnedChanges ==
  ASSUME Owned, Owned', NEW p \in Pk, \A q \in Pk \ {p} : Untouched(q),
         NEW c, OwnedContexts'[p] = c
  PROVE  OwnedContexts' = [OwnedContexts EXCEPT ![p] = c]
<1>1. \A q \in Pk \ {p} : OwnedContexts'[q] = OwnedContexts[q]
  BY UntouchedOwns
<1>2. /\ OwnedContexts = [q \in Pk |-> OwnedContexts[q]]
      /\ OwnedContexts' = [q \in Pk |-> OwnedContexts'[q]]
  BY OwnedContextsOf, OwnedContextsNext DEF OwnedContextsKnown, Owned, StateOK
<1> QED
  BY <1>1, <1>2

LEMMA NoOwnedChanges ==
  ASSUME Owned, Owned', \A q \in Pk : OwnedContexts'[q] = OwnedContexts[q]
  PROVE  OwnedContexts' = OwnedContexts
<1>1. /\ OwnedContexts = [q \in Pk |-> OwnedContexts[q]]
      /\ OwnedContexts' = [q \in Pk |-> OwnedContexts'[q]]
  BY OwnedContextsOf, OwnedContextsNext DEF OwnedContextsKnown, Owned, StateOK
<1> QED
  BY <1>1

\* mbedtls_v3_shim_pk_rsa hands out the context that p owns, materialized now
\* or before, and changes none.
LEMMA ShimPkRsaOwns ==
  ASSUME Owned, KeysAgree, Owned', NEW p \in Pk, NEW r, ShimPkRsa(p, r)
  PROVE  /\ OwnedContexts' = OwnedContexts
         /\ r \in Rsa => /\ OwnedContexts'[p] = heap'[r]
                         /\ \E e \in cache' : e.pk = p /\ e.rsa = r
<1>1. /\ OwnedIs(p) /\ OwnedIs(p)' /\ pk[p] \in PkCtx
  BY OwnedContextsOf, OwnedContextsNext DEF OwnedContextsKnown, Owned, StateOK
<1>2. /\ cache \subseteq cache' /\ \A q \in Pk \ {p} : pk'[q] = pk[q]
      /\ pk'[p].type = pk[p].type
      /\ \A e \in cache' \ cache : e.pk = p
  BY ShimPkRsaFrame DEF Owned
<1>3. ASSUME PkRsaHit(p, pk[p], r)
      PROVE  /\ \A q \in Pk : Untouched(q)
             /\ OwnedContexts'[p] = heap'[r] /\ \E e \in cache' : e.pk = p /\ e.rsa = r
  <2>1. PICK e \in cache : e.pk = p /\ r = e.rsa
    BY <1>3 DEF PkRsaHit, cache_find
  <2>2. cache' = cache /\ heap' = heap /\ IsCached(p) /\ pk_is_rsa(pk[p])
    BY <1>3 DEF PkRsaHit, IsCached
  <2>3. \A q \in Pk : Untouched(q)
    BY <1>2, <2>2 DEF Untouched, pk_is_rsa
  <2>4. pk_is_rsa(pk'[p])
    BY <1>2, <2>2 DEF pk_is_rsa
  <2> QED
    BY <1>1, <2>1, <2>2, <2>3, <2>4 DEF OwnedIs
<1>4. ASSUME PkRsaMiss(p, pk[p], r)
      PROVE  /\ OwnedContexts' = OwnedContexts
             /\ OwnedContexts'[p] = heap'[r] /\ \E e \in cache' : e.pk = p /\ e.rsa = r
  <2> DEFINE new == [pk |-> p, rsa |-> r]
  <2>1. PICK c \in materialize_rsa(pk[p]) : heap' = [heap EXCEPT ![r] = c]
    BY <1>4 DEF PkRsaMiss, Allocate
  <2>2. r \in Rsa /\ heap[r] = Free /\ ~IsCached(p) /\ pk_is_rsa(pk[p])
    BY <1>4 DEF PkRsaMiss, Available
  <2>3. heap'[r] = c /\ \A q \in Rsa \ {r} : heap'[q] = heap[q]
    BY <2>1, <2>2 DEF Owned, StateOK
  <2>4. c = Unmaterialized(pk[p])
    <3>1. ~pk_is_empty_rsa_template(pk[p])
      BY <2>2 DEF Owned, TemplatesAreCached
    <3>2. pk[p].priv # Null /\ c = PrivateCtx(pk[p].priv)
      BY <3>1 DEF materialize_rsa, materialize_rsa_from_pk_der,
                  materialize_rsa_from_psa, pk_has_private_psa_key, When
    <3> QED
      BY <3>2 DEF Unmaterialized
  <2>5. cache' = cache \cup {new} /\ new.pk = p /\ new.rsa = r
    BY <1>4 DEF PkRsaMiss, cache_insert
  <2> HIDE DEF new
  <2>6. OwnedContexts'[p] = heap'[r]
    BY <1>1, <1>2, <2>2, <2>5 DEF OwnedIs, pk_is_rsa
  <2>7. \A q \in Pk \ {p} : Untouched(q)
    <3>1. \A e \in cache : heap'[e.rsa] = heap[e.rsa]
      BY <2>2, <2>3, CachedIsRsa, PkRsaAssumption
    <3> QED
      BY <1>2, <2>5, <3>1 DEF Untouched
  <2>8. OwnedContexts'[p] = OwnedContexts[p]
    BY <1>1, <2>2, <2>3, <2>4, <2>6 DEF OwnedIs
  <2> QED
    BY <2>5, <2>6, <2>7, <2>8, UntouchedOwns, NoOwnedChanges
<1>5. ASSUME r = Null, PkRsaNull(p, pk[p], pk[p])
      PROVE  \A q \in Pk : Untouched(q)
  <2>1. pk' = pk /\ heap' = heap /\ cache' = cache
    BY <1>1, <1>5, NullStep DEF PkRsaNull, Owned, StateOK
  <2> QED
    BY <2>1 DEF Untouched
<1> QED
  BY <1>3, <1>4, <1>5, UntouchedOwns, NoOwnedChanges, PkRsaAssumption DEF ShimPkRsa

-----------------------------------------------------------------------------
(* Each step is a step of LegacyPk.                                        *)

\* A call that tells nothing and changes no context.
LEMMA SilentCall ==
  ASSUME NEW p \in Pk, OwnedContexts' = OwnedContexts, out' = Quiet
  PROVE  Legacy!Next
<1>1. Legacy!Read(p) \/ Legacy!NotRsa(p)
  BY DEF Legacy!Read, Legacy!NotRsa, Legacy!SayNothing, Legacy!Say, Quiet
<1> QED
  BY <1>1 DEF Legacy!Next

\* A call that answers with the key of the context, or fails.
LEMMA AnsweringCall ==
  ASSUME Owned, NEW p \in Pk, OwnedContexts' = OwnedContexts, pk_is_rsa(pk[p]),
         NEW op \in {"verify", "sign", "encrypt", "decrypt"},
         \/ \E rc \in {"error", "length"} : out' = Told(op, p, rc, Null)
         \/ \E k \in Value :
              /\ Legacy!HoldsKey(OwnedContexts[p]) => k = PublicOf(OwnedContexts[p])
              /\ out' = Told(op, p, "ok", k)
  PROVE  Legacy!Next
<1>1. OwnedContexts[p] # Free
  BY OwnedIsContext
<1>2. Legacy!Read(p)
  BY <1>1, SameContexts DEF Legacy!Read, Legacy!Say, Told, Value
<1> QED
  BY <1>2 DEF Legacy!Next

\* The empty context of mbedtls_pk_setup.
LEMMA SetupRefines ==
  ASSUME KeyInv, KeyInv', NEW p \in Pk, Setup(p)
  PROVE  Legacy!Next
<1> USE DEF KeyInv
<1>1. CASE UNCHANGED <<pk, heap, cache>>
  <2>1. \A q \in Pk : Untouched(q)
    BY <1>1 DEF Untouched
  <2> QED
    BY <2>1, UntouchedOwns, NoOwnedChanges, SilentCall DEF Setup
<1>2. CASE pk[p].type = "none" /\ ~UNCHANGED <<pk, heap, cache>>
  <2> DEFINE x == [pk[p] EXCEPT !.type = "rsa"]
  <2>1. pk[p] \in PkCtx /\ Whole(pk[p]) /\ OwnedIs(p) /\ OwnedIs(p)'
    BY OwnedContextsOf, OwnedContextsNext
    DEF OwnedContextsKnown, Owned, StateOK, KeysAgree
  <2>2. pk_is_empty_rsa_template(x)
    BY <1>2, <2>1 DEF PkCtx, Whole, Keyless, pk_is_empty_rsa_template, pk_is_rsa
  <2>3. \A e \in cache : e.pk # p
    BY <1>2 DEF Owned, EntriesAreLive, pk_is_rsa
  <2>4. cache \subseteq cache' /\ \A q \in Pk \ {p} : pk'[q] = pk[q]
    BY <1>2, SetupFrame DEF Owned
  <2> HIDE DEF x
  <2>5. ASSUME NEW r, PkRsaMiss(p, x, r) PROVE Legacy!Next
    <3> DEFINE new == [pk |-> p, rsa |-> r]
    <3>1. r \in Rsa /\ heap[r] = Free
      BY <2>5 DEF PkRsaMiss, Available
    <3>2. heap' = [heap EXCEPT ![r] = EmptyCtx]
      BY <2>2, <2>5 DEF PkRsaMiss, Allocate, materialize_rsa
    <3>3. heap'[r] = EmptyCtx /\ \A q \in Rsa \ {r} : heap'[q] = heap[q]
      BY <3>1, <3>2 DEF Owned, StateOK
    <3>4. cache' = cache \cup {new} /\ new.pk = p /\ new.rsa = r
      BY <2>5 DEF PkRsaMiss, cache_insert
    <3> HIDE DEF new
    <3>5. \A e \in cache : heap'[e.rsa] = heap[e.rsa]
      BY <3>1, <3>3, CachedIsRsa, PkRsaAssumption
    <3>6. \A q \in Pk \ {p} : Untouched(q)
      BY <2>4, <3>4, <3>5 DEF Untouched
    <3>7. pk_is_rsa(pk'[p])
      BY <3>4 DEF Owned, EntriesAreLive
    <3>8. OwnedContexts'[p] = EmptyCtx
      BY <2>1, <3>3, <3>4, <3>7 DEF OwnedIs
    <3>9. OwnedContexts[p] = Free
      BY <1>2, <2>1 DEF OwnedIs, pk_is_rsa
    <3>10. OwnedContexts' = [OwnedContexts EXCEPT ![p] = EmptyCtx]
      BY <3>6, <3>8, OneOwnedChanges
    <3>11. Legacy!Setup(p)
      BY <3>9, <3>10, SameContexts
      DEF Setup, Legacy!Setup, Legacy!SayNothing, Legacy!Say, Quiet
    <3> QED
      BY <3>11 DEF Legacy!Next
  <2>6. ASSUME NEW r, PkRsaHit(p, x, r) PROVE FALSE
    BY <2>3, <2>6 DEF PkRsaHit, cache_find
  <2>7. CASE PkRsaNull(p, x, FreshPk)
    <3>1. heap' = heap /\ cache' = cache /\ pk' = [pk EXCEPT ![p] = FreshPk]
      BY <2>7, NullStep, FreshPkType DEF PkRsaNull, Owned
    <3>2. pk'[p] = FreshPk
      BY <3>1 DEF Owned, StateOK
    <3>3. \A q \in Pk \ {p} : Untouched(q)
      BY <2>4, <3>1 DEF Untouched
    <3>4. OwnedContexts'[p] = OwnedContexts[p]
      BY <1>2, <2>1, <3>2 DEF OwnedIs, pk_is_rsa, FreshPk
    <3> QED
      BY <3>3, <3>4, UntouchedOwns, NoOwnedChanges, SilentCall DEF Setup
  <2> QED
    BY <1>2, <2>5, <2>6, <2>7 DEF Setup, x
<1> QED
  BY <1>1, <1>2 DEF Setup

\* The real library parses a key into the pk context.
LEMMA ParseRefines ==
  ASSUME KeyInv, KeyInv', NEW p \in Pk, Parse(p)
  PROVE  Legacy!Next
<1> USE DEF KeyInv
<1>1. OwnedIs(p) /\ OwnedIs(p)'
  BY OwnedContextsOf, OwnedContextsNext DEF OwnedContextsKnown, Owned, StateOK
<1>2. /\ cache' = cache /\ heap' = heap
      /\ \A e \in cache : e.pk # p
  BY DEF Parse, Owned, EntriesAreLive, pk_is_rsa
<1>3. ~IsCached(p)'
  BY <1>2 DEF IsCached, cache_find
<1>4. \A q \in Pk \ {p} : Untouched(q)
  <2>1. \A q \in Pk \ {p} : pk'[q] = pk[q]
    BY DEF Parse, Owned, StateOK
  <2> QED
    BY <1>2, <2>1 DEF Untouched
<1>5. OwnedContexts[p] = Free
  BY <1>1 DEF Parse, OwnedIs, pk_is_rsa
<1>6. CASE pk' = [pk EXCEPT ![p] = ParsedOther]
  <2>1. OwnedContexts'[p] = OwnedContexts[p]
    BY <1>1, <1>5, <1>6 DEF OwnedIs, pk_is_rsa, ParsedOther, Owned, StateOK
  <2> QED
    BY <1>4, <2>1, UntouchedOwns, NoOwnedChanges, SilentCall DEF Parse
<1>7. ASSUME NEW k \in Key, NEW x \in Parsed(k), pk' = [pk EXCEPT ![p] = x]
      PROVE  Legacy!Next
  <2>1. pk'[p] = x /\ pk_is_rsa(x)
    BY <1>7 DEF Parsed, pk_is_rsa, Owned, StateOK
  <2>2. OwnedContexts'[p] = Unmaterialized(x)
    BY <1>1, <1>3, <2>1 DEF OwnedIs
  <2>3. Unmaterialized(x) = PrivateCtx(k) \/ Unmaterialized(x) = Legacy!PublicCtx(k)
    <3>1. CASE x.priv = Null /\ x.pub = k
      BY <3>1, KeyBits, SamePublicCtx
    <3>2. CASE x.priv = k
      BY <3>2, KeyBits DEF Unmaterialized
    <3> QED
      BY <3>1, <3>2 DEF Parsed
  <2>4. OwnedContexts' = [OwnedContexts EXCEPT ![p] = Unmaterialized(x)]
    BY <1>4, <2>2, OneOwnedChanges
  <2>5. Legacy!Parse(p)
    BY <1>5, <2>3, <2>4, SameContexts
    DEF Parse, Legacy!Parse, Legacy!SayNothing, Legacy!Say, Quiet
  <2> QED
    BY <2>5 DEF Legacy!Next
<1> QED
  BY <1>6, <1>7 DEF Parse

\* No pk context, no RSA context and no entry changes.
LEMMA NothingOwnedChanges ==
  ASSUME Owned, Owned', UNCHANGED <<pk, heap, cache>>
  PROVE  OwnedContexts' = OwnedContexts
<1>1. \A q \in Pk : Untouched(q)
  BY DEF Untouched
<1> QED
  BY <1>1, UntouchedOwns, NoOwnedChanges

\* mbedtls_pk_verify answers with what is in pub_raw.
LEMMA VerifyRefines ==
  ASSUME KeyInv, KeyInv', NEW p \in Pk, Verify(p)
  PROVE  Legacy!Next
<1> USE DEF KeyInv
<1>1. OwnedContexts' = OwnedContexts
  BY NothingOwnedChanges, ShimPkRsaOwns DEF Verify
<1>2. pk_is_rsa(pk[p]) /\ pk_is_rsa(pk'[p])
  BY ShimPkRsaFrame DEF Verify, pk_is_rsa, Owned
<1>3. OneAnswer(p)'
  BY AnswersAgreeNext DEF OneAnswerEach
<1>4. pk'[p].pub \in Value \cup {Null}
  BY DEF Owned, StateOK, PkCtx, Value
<1>5. CASE pk'[p].pub = Null
  <2>1. out' = Told("verify", p, "error", Null)
    BY <1>5 DEF Verify
  <2> QED
    BY <1>1, <1>2, <2>1, AnsweringCall
<1>6. CASE pk'[p].pub # Null
  <2> DEFINE k == pk'[p].pub
  <2>1. k \in Value /\ out' = Told("verify", p, "ok", k)
    BY <1>4, <1>6 DEF Verify
  <2>2. Legacy!HoldsKey(OwnedContexts[p]) => k = PublicOf(OwnedContexts[p])
    BY <1>1, <1>2, <1>3, <1>6 DEF OneAnswer
  <2> HIDE DEF k
  <2> QED
    BY <1>1, <1>2, <2>1, <2>2, AnsweringCall
<1> QED
  BY <1>5, <1>6

\* mbedtls_pk_sign answers with what is in the PSA slot.
LEMMA SignRefines ==
  ASSUME KeyInv, KeyInv', NEW p \in Pk, Sign(p)
  PROVE  Legacy!Next
<1> USE DEF KeyInv
<1>1. OwnedContexts' = OwnedContexts
  BY NothingOwnedChanges DEF Sign
<1>2. pk_is_rsa(pk[p]) /\ OneAnswer(p)
  BY AnswersAgree DEF Sign, OneAnswerEach
<1>3. pk[p].priv \in Value \cup {Null}
  BY DEF Owned, StateOK, PkCtx, Value
<1>4. CASE pk[p].priv = Null
  <2>1. out' = Told("sign", p, "error", Null)
    BY <1>4 DEF Sign
  <2> QED
    BY <1>1, <1>2, <2>1, AnsweringCall
<1>5. CASE pk[p].priv # Null
  <2> DEFINE k == pk[p].priv
  <2>1. k \in Value /\ out' = Told("sign", p, "ok", k)
    BY <1>3, <1>5 DEF Sign
  <2>2. k = PublicOf(OwnedContexts[p])
    BY <1>2, <1>5 DEF OneAnswer
  <2> HIDE DEF k
  <2> QED
    BY <1>1, <1>2, <2>1, <2>2, AnsweringCall
<1> QED
  BY <1>4, <1>5

\* mbedtls_pk_encrypt and mbedtls_pk_decrypt use the RSA context itself.
LEMMA CryptRefines ==
  ASSUME KeyInv, KeyInv', NEW p \in Pk, NEW op \in {"encrypt", "decrypt"}, Crypt(op, p)
  PROVE  Legacy!Next
<1> USE DEF KeyInv
<1>1. op \in {"verify", "sign", "encrypt", "decrypt"} /\ pk_is_rsa(pk[p])
  BY DEF Crypt
<1>2. CASE ShimPkRsa(p, Null) /\ out' = Told(op, p, "error", Null)
  <2>1. OwnedContexts' = OwnedContexts
    BY <1>2, ShimPkRsaOwns
  <2> QED
    BY <1>1, <1>2, <2>1, AnsweringCall
<1>3. ASSUME NEW r \in Rsa, ShimPkRsa(p, r),
             \/ out' = Told(op, p, "length", Null)
             \/ out' = Told(op, p, "ok", heap'[r].mpi["N"])
      PROVE  Legacy!Next
  <2> DEFINE k == heap'[r].mpi["N"]
  <2>1. OwnedContexts' = OwnedContexts /\ OwnedContexts[p] = heap'[r]
    BY <1>3, ShimPkRsaOwns
  <2>2. PICK e \in cache' : e.pk = p /\ e.rsa = r
    BY <1>3, ShimPkRsaOwns
  <2>3. k \in Value
    <3>1. heap'[r] \in Ctx
      BY <1>3, ShimPkRsaStep DEF Owned
    <3> QED
      BY <3>1 DEF Ctx, Field, Part
  <2>4. ASSUME Legacy!HoldsKey(OwnedContexts[p]) PROVE k = PublicOf(OwnedContexts[p])
    <3>1. Have(heap'[r], "N") /\ Have(heap'[r], "E")
      BY <2>1, <2>4, SameContexts DEF Legacy!HoldsKey
    <3>2. heap'[r] # EmptyCtx
      BY <3>1 DEF EmptyCtx, Have, Field, Part
    <3>3. PICK j \in Key : Agrees(pk'[p], heap'[r], j)
      BY <2>2, <3>2 DEF KeysAgree, EntryAgrees
    <3>4. heap'[r].mpi["N"] = j /\ heap'[r].mpi["E"] = j
      BY <3>1, <3>3, HaveIsKey DEF Agrees
    <3> QED
      BY <2>1, <3>4 DEF PublicOf
  <2> HIDE DEF k
  <2>5. \/ out' = Told(op, p, "length", Null)
        \/ out' = Told(op, p, "ok", k)
    BY <1>3 DEF k
  <2> QED
    BY <1>1, <2>1, <2>3, <2>4, <2>5, AnsweringCall
<1> QED
  BY <1>2, <1>3 DEF Crypt

\* mbedtls_pk_write_pubkey_der and _pem rebuild pub_raw and change no context.
LEMMA WritePubkeyRefines ==
  ASSUME KeyInv, KeyInv', NEW p \in Pk, WritePubkey(p)
  PROVE  Legacy!Next
<1> USE DEF KeyInv
<1>1. cache' = cache /\ heap' = heap /\ out' = Quiet
  BY DEF WritePubkey
<1>2. \A q \in Pk : /\ pk'[q].type = pk[q].type
                    /\ ~IsCached(q) => pk'[q] = pk[q]
  <2>1. CASE UNCHANGED pk
    BY <2>1
  <2>2. ASSUME NEW e \in cache_find(p),
               pk' = [pk EXCEPT ![p] = pk_sync_pubkey_raw_from_rsa(
                                         [@ EXCEPT !.pub = Null], heap[e.rsa])]
        PROVE  \A q \in Pk : /\ pk'[q].type = pk[q].type
                             /\ ~IsCached(q) => pk'[q] = pk[q]
    <3>1. pk'[p].type = pk[p].type
      BY <2>2 DEF pk_sync_pubkey_raw_from_rsa, Owned, StateOK, PkCtx
    <3>2. IsCached(p) /\ \A q \in Pk \ {p} : pk'[q] = pk[q]
      BY <2>2 DEF IsCached, Owned, StateOK
    <3> QED
      BY <3>1, <3>2
  <2> QED
    BY <2>1, <2>2 DEF WritePubkey, pk_resync_pubkey_raw_if_cached
<1>3. \A q \in Pk : Untouched(q)
  BY <1>1, <1>2 DEF Untouched, pk_is_rsa
<1> QED
  BY <1>1, <1>3, UntouchedOwns, NoOwnedChanges, SilentCall

\* The pk context is freed.
LEMMA FreeRefines ==
  ASSUME KeyInv, KeyInv', NEW p \in Pk, PkFree(p) \/ (LibraryFree(p) /\ ~IsCached(p))
  PROVE  Legacy!Next
<1> USE DEF KeyInv
<1>1. /\ \A q \in Pk \ {p} : pk'[q] = pk[q]
      /\ pk'[p] = FreshPk
      /\ out' = Quiet
  BY DEF PkFree, LibraryFree, Owned, StateOK
<1>2. OwnedContexts'[p] = Free
  <2>1. OwnedIs(p)'
    BY OwnedContextsNext DEF OwnedContextsKnown, Owned, StateOK
  <2> QED
    BY <1>1, <2>1 DEF OwnedIs, FreshPk, pk_is_rsa
<1>3. \A q \in Pk \ {p} : Untouched(q)
  <2>1. CASE PkFree(p)
    <3>1. cache' \subseteq cache /\ \A e \in cache : e \in cache' <=> e.pk # p
      BY <2>1, FreeFrame DEF Owned
    <3>2. \A e \in cache : e.pk # p => heap'[e.rsa] = heap[e.rsa]
      <4>1. ASSUME NEW d \in cache_find(p), heap' = [heap EXCEPT ![d.rsa] = Free],
                   NEW e \in cache, e.pk # p
            PROVE  heap'[e.rsa] = heap[e.rsa]
        <5>1. e.rsa # d.rsa
          BY <4>1 DEF cache_find, Owned, StateOK, CacheIsAMap
        <5> QED
          BY <4>1, <5>1, CachedIsRsa DEF Owned, StateOK
      <4> QED
        BY <2>1, <4>1 DEF PkFree, cache_remove, Release
    <3> QED
      BY <1>1, <3>1, <3>2 DEF Untouched
  <2>2. CASE LibraryFree(p)
    BY <1>1, <2>2 DEF LibraryFree, Untouched
  <2> QED
    BY <2>1, <2>2
<1>4. OwnedContexts' = [OwnedContexts EXCEPT ![p] = Free]
  BY <1>2, <1>3, OneOwnedChanges
<1>5. Legacy!Release(p)
  BY <1>1, <1>4 DEF Legacy!Release, Legacy!SayNothing, Legacy!Say, Quiet
<1> QED
  BY <1>5 DEF Legacy!Next

\* The content of the RSA context at r changes, and the copies of its key.
LEMMA ContextOwns ==
  ASSUME Owned, Owned', NEW e \in cache, NEW c, UNCHANGED cache,
         heap' = [heap EXCEPT ![e.rsa] = c],
         \A q \in Pk \ {e.pk} : pk'[q] = pk[q]
  PROVE  /\ OwnedContexts[e.pk] = heap[e.rsa]
         /\ OwnedContexts' = [OwnedContexts EXCEPT ![e.pk] = c]
<1> DEFINE p == e.pk
<1>1. p \in Pk /\ pk_is_rsa(pk[p]) /\ e.rsa \in Rsa
  BY CachedIsRsa
<1>2. OwnedIs(p) /\ OwnedIs(p)'
  BY <1>1, OwnedContextsOf, OwnedContextsNext DEF OwnedContextsKnown, Owned, StateOK
<1>3. heap'[e.rsa] = c /\ \A q \in Rsa \ {e.rsa} : heap'[q] = heap[q]
  BY <1>1 DEF Owned, StateOK
<1>4. pk_is_rsa(pk'[p])
  BY DEF Owned, EntriesAreLive
<1>5. OwnedContexts'[p] = c
  BY <1>2, <1>3, <1>4 DEF OwnedIs
<1>6. \A q \in Pk \ {p} : Untouched(q)
  <2>1. \A f \in cache : f.pk # p => heap'[f.rsa] = heap[f.rsa]
    BY <1>3, CachedIsRsa DEF Owned, StateOK, CacheIsAMap
  <2> QED
    BY <2>1 DEF Untouched
<1>7. OwnedContexts[p] = heap[e.rsa]
  BY <1>1, <1>2 DEF OwnedIs
<1> QED
  BY <1>1, <1>5, <1>6, <1>7, OneOwnedChanges

\* An import goes to the context of the pk context that owns it.
LEMMA ImportRefines ==
  ASSUME CallersBuildOneKey, KeyInv, KeyInv', NEW r \in Rsa, Import(r)
  PROVE  Legacy!Next
<1> USE DEF KeyInv
<1>1. PICK e \in cache : e.rsa = r
  BY UsableHasEntry DEF Import
<1>2. PICK k \in Key, S \in Imports :
        \E o \in mbedtls_rsa_import(heap[r], PartsOf(k), S)
                   \cup mbedtls_rsa_import_raw(heap[r], PartsOf(k), S) :
          heap' = [heap EXCEPT ![r] = o.ctx]
  BY DEF Import
<1>3. PICK o \in mbedtls_rsa_import(heap[r], PartsOf(k), S)
                   \cup mbedtls_rsa_import_raw(heap[r], PartsOf(k), S) :
        heap' = [heap EXCEPT ![r] = o.ctx]
  BY <1>2
<1>4. /\ OwnedContexts[e.pk] = heap[r]
      /\ OwnedContexts' = [OwnedContexts EXCEPT ![e.pk] = o.ctx]
  BY <1>1, <1>3, ContextOwns DEF Import
<1>5. heap[r] # Free /\ out' = Quiet /\ e.pk \in Pk
  BY CachedIsRsa DEF Import, Usable
<1>6. o \in Legacy!mbedtls_rsa_import(heap[r], Legacy!PartsOf(k), S)
              \cup Legacy!mbedtls_rsa_import_raw(heap[r], Legacy!PartsOf(k), S)
  BY <1>3, SameContexts, SameImport
<1>7. Legacy!Import(e.pk)
  BY <1>4, <1>5, <1>6 DEF Legacy!Import, Legacy!SayNothing, Legacy!Say, Quiet
<1> QED
  BY <1>5, <1>7 DEF Legacy!Next

\* So does its completion, and tells the key of that context.
LEMMA CompleteRefines ==
  ASSUME CallersBuildOneKey, KeyInv, KeyInv', NEW r \in Rsa, Complete(r)
  PROVE  Legacy!Next
<1> USE DEF KeyInv
<1>1. PICK e \in cache : e.rsa = r
  BY UsableHasEntry DEF Complete
<1>2. PICK o \in mbedtls_rsa_complete(heap[r]) :
        /\ heap' = [heap EXCEPT ![r] = o.ctx]
        /\ IF o.ok THEN SyncFromCtx(r, o.ctx) ELSE UNCHANGED pk
        /\ out' = IF o.ok THEN Told("complete", Owner(r), "ok", PublicOf(o.ctx))
                           ELSE Told("complete", Owner(r), "error", Null)
  BY DEF Complete
<1>3. \A f \in cache : f.rsa = r => f = e
  BY <1>1 DEF Owned, StateOK, CacheIsAMap
<1>4. Owner(r) = e.pk
  BY <1>1, <1>3 DEF Owner
<1>5. \A q \in Pk \ {e.pk} : pk'[q] = pk[q]
  BY <1>2, <1>3, CachedIsRsa DEF SyncFromCtx, Owned, StateOK
<1>6. /\ OwnedContexts[e.pk] = heap[r]
      /\ OwnedContexts' = [OwnedContexts EXCEPT ![e.pk] = o.ctx]
  BY <1>1, <1>2, <1>5, ContextOwns DEF Complete
<1>7. heap[r] # Free /\ e.pk \in Pk
  BY CachedIsRsa DEF Complete, Usable
<1>8. o \in Legacy!mbedtls_rsa_complete(heap[r])
  BY SameComplete
<1>9. IF o.ok THEN Legacy!Say("complete", e.pk, "ok", Legacy!PublicOf(o.ctx))
              ELSE Legacy!Say("complete", e.pk, "error", Null)
  BY <1>2, <1>4, SameContexts DEF Legacy!Say, Told
<1>10. Legacy!Complete(e.pk)
  BY <1>6, <1>7, <1>8, <1>9 DEF Legacy!Complete
<1> QED
  BY <1>7, <1>10 DEF Legacy!Next

\* Every step of PkRsa is a step of LegacyPk, or leaves it alone.
LEMMA NextRefines ==
  ASSUME CallersBuildOneKey, KeyInv, KeyInv', [Next]_vars
  PROVE  [Legacy!Next]_(Legacy!vars)
<1>1. CASE UNCHANGED vars
  BY <1>1, NothingOwnedChanges DEF vars, Legacy!vars, KeyInv
<1>2. ASSUME NEW p \in Pk, CallOnPk(p) PROVE Legacy!Next
  <2>1. CASE Setup(p) \/ Parse(p) \/ WritePubkey(p)
    BY <2>1, SetupRefines, ParseRefines, WritePubkeyRefines
  <2>2. CASE PkRsa(p) \/ GetBitlen(p)
    <3>1. OwnedContexts' = OwnedContexts /\ out' = Quiet
      BY <2>2, NothingOwnedChanges, ShimPkRsaOwns DEF PkRsa, GetBitlen, KeyInv
    <3> QED
      BY <3>1, SilentCall
  <2>3. CASE Verify(p) \/ Sign(p)
    BY <2>3, VerifyRefines, SignRefines
  <2>4. CASE Crypt("encrypt", p) \/ Crypt("decrypt", p)
    BY <2>4, CryptRefines
  <2>5. CASE PkFree(p) \/ LibraryFree(p)
    BY <2>5, FreeRefines DEF LibraryFree, CallersBuildOneKey
  <2> QED
    BY <1>2, <2>1, <2>2, <2>3, <2>4, <2>5 DEF CallOnPk
<1>3. ASSUME NEW r \in Rsa, CallOnRsa(r) PROVE Legacy!Next
  BY <1>3, ImportRefines, CompleteRefines DEF CallOnRsa
<1> QED
  BY <1>1, <1>2, <1>3 DEF Next

\* What legacy code sees of pk_rsa.c is what it would see if each pk context
\* simply owned a transparent RSA context: no call changes a context but an
\* import or a completion of it, and every answer is given with the key in
\* the context of the pk context asked.
THEOREM MaterializationIsInvisible ==
  ASSUME CallersBuildOneKey
  PROVE  Spec => ImplementsLegacyPk
<1>1. Init => Legacy!Init
  <2> SUFFICES ASSUME Init PROVE Legacy!Init
    OBVIOUS
  <2>1. \A p \in Pk : ~pk_is_rsa(pk[p])
    BY DEF Init, pk_is_rsa, FreshPk
  <2>2. OwnedContexts = [p \in Pk |-> Free]
    BY <2>1 DEF OwnedContexts
  <2> QED
    BY <2>2 DEF Init, Legacy!Init, Quiet
<1>2. KeyInv /\ KeyInv' /\ [Next]_vars => [Legacy!Next]_(Legacy!vars)
  BY NextRefines
<1> QED
  BY <1>1, <1>2, KeyInvariance, PTL DEF Spec, ImplementsLegacyPk, Legacy!Spec
=============================================================================

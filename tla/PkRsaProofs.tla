---------------------------- MODULE PkRsaProofs -----------------------------
(***************************************************************************)
(* Proofs about PkRsa, for any number of pk contexts, keys and addresses,  *)
(* whatever fails and whatever callers do.                                 *)
(*                                                                         *)
(* Type correctness and the ownership invariants need each other: a lookup *)
(* dereferences the RSA context of an entry, which is a context only       *)
(* because HeapIsTheCache says that it is allocated; that invariant        *)
(* survives cache_remove only because no two entries share a context,      *)
(* which CacheIsAMap says; and CacheIsAMap survives an insertion only      *)
(* because, by HeapIsTheCache, an address that was free has no entry.      *)
(***************************************************************************)
EXTENDS PkRsa, RsaContextProofs

StateOK ==
  /\ pk \in [Pk -> PkCtx]
  /\ heap \in [Rsa -> Ctx \cup {Free}]
  /\ cache \in SUBSET Entry
  /\ CacheIsAMap
  /\ HeapIsTheCache

IInv == StateOK /\ out \in Out

-----------------------------------------------------------------------------
(* Operators on one pk context.                                            *)

\* Synchronization fills in what is missing and touches nothing else.
LEMMA SyncType ==
  ASSUME NEW x \in PkCtx, NEW c \in Ctx
  PROVE  /\ pk_sync_pubkey_raw_from_rsa(x, c) \in PkCtx
         /\ pk_sync_from_rsa(x, c) \in PkCtx
         /\ pk_sync_from_rsa(x, c).type = x.type
         /\ pk_sync_from_rsa(x, c).priv = x.priv
         /\ x.pub # Null => pk_sync_from_rsa(x, c).pub = x.pub
<1> DEFINE y == pk_sync_bits_from_rsa(x, c)
<1>1. c.mpi["N"] \in Value /\ c.mpi["E"] \in Value
  BY DEF Ctx, Field, Part
<1>2. /\ y \in PkCtx /\ y.type = x.type /\ y.priv = x.priv /\ y.pub = x.pub
  <2>1. Bits(c.mpi["N"]) \in Nat
    BY <1>1, SizeType
  <2> QED
    BY <2>1 DEF pk_sync_bits_from_rsa, PkCtx
<1>3. Have(c, "N") /\ Have(c, "E") => PublicOf(c) \in Key \cup {Junk}
  BY <1>1 DEF Have, PublicOf, Value
<1> HIDE DEF y
<1>4. \A z \in PkCtx :
        LET s == pk_sync_pubkey_raw_from_rsa(z, c)
        IN  /\ s \in PkCtx /\ s.type = z.type /\ s.priv = z.priv
            /\ z.pub # Null => s.pub = z.pub
  BY <1>3 DEF pk_sync_pubkey_raw_from_rsa, PkCtx
<1>5. pk_sync_from_rsa(x, c) = pk_sync_pubkey_raw_from_rsa(y, c)
  BY DEF pk_sync_from_rsa, y
<1> QED
  BY <1>2, <1>4, <1>5

LEMMA MaterializeType ==
  ASSUME NEW x \in PkCtx
  PROVE  materialize_rsa(x) \subseteq Ctx
<1>1. x.priv # Null => PrivateCtx(x.priv) \in Ctx
  BY NewContextTypes DEF PkCtx
<1> QED
  BY <1>1, NewContextTypes
  DEF materialize_rsa, materialize_rsa_from_pk_der, materialize_rsa_from_psa,
      When, pk_has_private_psa_key

LEMMA FreshPkType == FreshPk \in PkCtx
  BY DEF FreshPk, PkCtx

LEMMA ToldType ==
  ASSUME NEW op \in {"none", "verify", "sign", "encrypt", "decrypt", "complete"},
         NEW p \in Pk \cup {Null}, NEW rc \in {"ok", "error", "length"},
         NEW k \in Value \cup {Null}
  PROVE  Told(op, p, rc, k) \in Out /\ Quiet \in Out
  BY DEF Told, Quiet, Out

-----------------------------------------------------------------------------
(* What the parts of a call do to the cache and the heap.                  *)

\* The RSA context of an entry is allocated.
LEMMA EntryHasContext ==
  ASSUME StateOK, NEW e \in cache
  PROVE  e.pk \in Pk /\ e.rsa \in Rsa /\ heap[e.rsa] \in Ctx
<1>1. e.pk \in Pk /\ e.rsa \in Rsa
  BY DEF StateOK, Entry
<1>2. heap[e.rsa] # Free
  BY <1>1 DEF StateOK, HeapIsTheCache
<1> QED
  BY <1>1, <1>2 DEF StateOK

\* Nothing but the content of one pk context changes.
LEMMA PkChange ==
  ASSUME StateOK, NEW p, NEW y \in PkCtx,
         pk' = [pk EXCEPT ![p] = y], UNCHANGED <<heap, cache>>
  PROVE  StateOK'
  BY DEF StateOK, CacheIsAMap, HeapIsTheCache

\* Nothing but the content of one allocated RSA context changes, and pk.
LEMMA ContextChange ==
  ASSUME StateOK, NEW r, heap[r] # Free, NEW c \in Ctx,
         pk' \in [Pk -> PkCtx], heap' = [heap EXCEPT ![r] = c], UNCHANGED cache
  PROVE  StateOK'
<1>1. heap' \in [Rsa -> Ctx \cup {Free}]
  BY DEF StateOK
<1>2. \A q \in Rsa : heap'[q] # Free <=> heap[q] # Free
  BY PkRsaAssumption DEF StateOK
<1> QED
  BY <1>1, <1>2 DEF StateOK, CacheIsAMap, HeapIsTheCache

\* A cache hit.
LEMMA HitStep ==
  ASSUME StateOK, NEW p \in Pk, NEW x \in PkCtx, NEW r, PkRsaHit(p, x, r)
  PROVE  StateOK' /\ r \in Rsa /\ heap'[r] \in Ctx
<1>1. PICK e \in cache : e.pk = p /\ r = e.rsa
  BY DEF PkRsaHit, cache_find
<1>2. r \in Rsa /\ heap[r] \in Ctx
  BY <1>1, EntryHasContext
<1>3. pk_sync_from_rsa(x, heap[r]) \in PkCtx
  BY <1>2, SyncType
<1>4. StateOK'
  BY <1>3, PkChange DEF PkRsaHit
<1> QED
  BY <1>2, <1>4 DEF PkRsaHit

\* A cache miss: the new entry is the only one of its pk context and of its
\* RSA context.
LEMMA MissStep ==
  ASSUME StateOK, NEW p \in Pk, NEW x \in PkCtx, NEW r, PkRsaMiss(p, x, r)
  PROVE  StateOK' /\ r \in Rsa /\ heap'[r] \in Ctx
<1> DEFINE new == [pk |-> p, rsa |-> r]
<1>1. PICK c \in materialize_rsa(x) :
        /\ heap' = [heap EXCEPT ![r] = c]
        /\ pk' = [pk EXCEPT ![p] = pk_sync_from_rsa(x, c)]
  BY DEF PkRsaMiss, Allocate
<1>2. c \in Ctx /\ c # Free
  BY MaterializeType, PkRsaAssumption
<1>3. r \in Rsa /\ heap[r] = Free
  BY DEF PkRsaMiss, Available
<1>4. cache' = cache \cup {new}
  BY DEF PkRsaMiss, cache_insert
<1>5. \A e \in cache : e.pk # p /\ e.rsa # r
  BY <1>3 DEF PkRsaMiss, IsCached, cache_find, StateOK, HeapIsTheCache
<1>6. pk' \in [Pk -> PkCtx]
  <2>1. pk_sync_from_rsa(x, c) \in PkCtx
    BY <1>2, SyncType
  <2> QED
    BY <1>1, <2>1 DEF StateOK
<1>7. heap' \in [Rsa -> Ctx \cup {Free}] /\ heap'[r] = c
  BY <1>1, <1>2, <1>3 DEF StateOK
<1>8. cache' \in SUBSET Entry
  BY <1>3, <1>4 DEF StateOK, Entry
<1>9. CacheIsAMap'
  BY <1>4, <1>5 DEF StateOK, CacheIsAMap
<1>10. HeapIsTheCache'
  <2> SUFFICES ASSUME NEW q \in Rsa
               PROVE  heap'[q] # Free <=> \E e \in cache' : e.rsa = q
    BY DEF HeapIsTheCache
  <2>1. CASE q = r
    <3>1. new \in cache' /\ new.rsa = r
      BY <1>4
    <3> QED
      BY <1>2, <1>7, <2>1, <3>1
  <2>2. CASE q # r
    BY <1>1, <1>3, <1>4, <2>2 DEF StateOK, HeapIsTheCache
  <2> QED
    BY <2>1, <2>2
<1> QED
  BY <1>2, <1>3, <1>6, <1>7, <1>8, <1>9, <1>10 DEF StateOK

\* A failed materialization leaves the heap as it was.
LEMMA NullStep ==
  ASSUME StateOK, NEW p \in Pk, NEW x, NEW y \in PkCtx, PkRsaNull(p, x, y)
  PROVE  StateOK' /\ heap' = heap
<1>1. ASSUME InsertFails(p, x) PROVE heap' = heap
  <2>1. PICK r \in Available, c \in materialize_rsa(x) :
          heap' = [[heap EXCEPT ![r] = c] EXCEPT ![r] = Free]
    BY <1>1 DEF InsertFails, Release, Allocate
  <2> QED
    BY <2>1 DEF Available, StateOK
<1>2. heap' = heap
  BY <1>1 DEF PkRsaNull, MaterializeFails
<1> QED
  BY <1>2, PkChange DEF PkRsaNull

\* mbedtls_v3_shim_pk_rsa.
LEMMA ShimPkRsaStep ==
  ASSUME StateOK, NEW p \in Pk, NEW r, ShimPkRsa(p, r)
  PROVE  StateOK' /\ (r \in Rsa => heap'[r] \in Ctx)
<1>0. pk[p] \in PkCtx
  BY DEF StateOK
<1>1. CASE PkRsaHit(p, pk[p], r)
  BY <1>0, <1>1, HitStep
<1>2. CASE PkRsaMiss(p, pk[p], r)
  BY <1>0, <1>2, MissStep
<1>3. CASE r = Null /\ PkRsaNull(p, pk[p], pk[p])
  BY <1>0, <1>3, NullStep, PkRsaAssumption
<1> QED
  BY <1>1, <1>2, <1>3 DEF ShimPkRsa

\* cache_remove, with whatever happens to the pk context.
LEMMA RemoveStep ==
  ASSUME StateOK, NEW p, cache_remove(p), pk' \in [Pk -> PkCtx]
  PROVE  StateOK'
<1>1. CASE UNCHANGED <<heap, cache>>
  BY <1>1 DEF StateOK, CacheIsAMap, HeapIsTheCache
<1>2. ASSUME NEW e \in cache_find(p), cache' = cache \ {e}, heap' = Release(heap, e.rsa)
      PROVE  StateOK'
  <2>1. e \in cache /\ e.rsa \in Rsa
    BY <1>2, EntryHasContext DEF cache_find
  <2>2. heap' \in [Rsa -> Ctx \cup {Free}] /\ cache' \in SUBSET Entry
    BY <1>2 DEF StateOK, Release
  <2>3. CacheIsAMap'
    BY <1>2 DEF StateOK, CacheIsAMap
  <2>4. \A f \in cache : f.rsa = e.rsa => f = e
    BY <2>1 DEF StateOK, CacheIsAMap
  <2>5. HeapIsTheCache'
    <3> SUFFICES ASSUME NEW q \in Rsa
                 PROVE  heap'[q] # Free <=> \E f \in cache' : f.rsa = q
      BY DEF HeapIsTheCache
    <3>1. CASE q = e.rsa
      BY <1>2, <2>4, <3>1 DEF StateOK, Release
    <3>2. CASE q # e.rsa
      BY <1>2, <3>2 DEF StateOK, Release, HeapIsTheCache
    <3> QED
      BY <3>1, <3>2
  <2> QED
    BY <2>2, <2>3, <2>5 DEF StateOK
<1> QED
  BY <1>1, <1>2 DEF cache_remove

-----------------------------------------------------------------------------
(* The invariant.                                                          *)

LEMMA IInvInit == Init => IInv
<1> SUFFICES ASSUME Init PROVE IInv
  OBVIOUS
<1>1. FreshPk \in PkCtx /\ Quiet \in Out
  BY FreshPkType, ToldType DEF Quiet, Out
<1> QED
  BY <1>1 DEF Init, IInv, StateOK, CacheIsAMap, HeapIsTheCache

\* A pk context and its RSA part are set up, or neither is.
LEMMA SetupStep ==
  ASSUME StateOK, NEW p \in Pk, Setup(p)
  PROVE  StateOK'
<1> DEFINE x == [pk[p] EXCEPT !.type = "rsa"]
<1>1. x \in PkCtx /\ FreshPk \in PkCtx
  BY FreshPkType DEF StateOK, PkCtx
<1> HIDE DEF x
<1>2. CASE UNCHANGED <<pk, heap, cache>>
  BY <1>2 DEF StateOK, CacheIsAMap, HeapIsTheCache
<1>3. ASSUME NEW r \in Rsa, PkRsaHit(p, x, r) PROVE StateOK'
  BY <1>1, <1>3, HitStep
<1>4. ASSUME NEW r \in Rsa, PkRsaMiss(p, x, r) PROVE StateOK'
  BY <1>1, <1>4, MissStep
<1>5. CASE PkRsaNull(p, x, FreshPk)
  BY <1>1, <1>5, NullStep
<1> QED
  BY <1>2, <1>3, <1>4, <1>5 DEF Setup, x

LEMMA ParseStep ==
  ASSUME StateOK, NEW p \in Pk, Parse(p)
  PROVE  StateOK'
<1>1. ParsedOther \in PkCtx /\ \A k \in Key : Parsed(k) \subseteq PkCtx
  BY RsaContextAssumption DEF Parsed, ParsedOther, PkCtx
<1>2. PICK y \in PkCtx : pk' = [pk EXCEPT ![p] = y]
  BY <1>1 DEF Parse
<1> QED
  BY <1>2, PkChange DEF Parse

\* pub_raw is rebuilt from the cached RSA context.
LEMMA WritePubkeyStep ==
  ASSUME StateOK, NEW p \in Pk, WritePubkey(p)
  PROVE  StateOK'
<1>1. CASE UNCHANGED pk
  BY <1>1 DEF WritePubkey, StateOK, CacheIsAMap, HeapIsTheCache
<1>2. ASSUME NEW e \in cache_find(p),
             pk' = [pk EXCEPT ![p] = pk_sync_pubkey_raw_from_rsa(
                                       [@ EXCEPT !.pub = Null], heap[e.rsa])]
      PROVE  StateOK'
  <2> DEFINE x == [pk[p] EXCEPT !.pub = Null]
  <2>1. x \in PkCtx
    BY DEF StateOK, PkCtx
  <2>2. heap[e.rsa] \in Ctx
    BY <1>2, EntryHasContext DEF cache_find
  <2> HIDE DEF x
  <2>3. pk_sync_pubkey_raw_from_rsa(x, heap[e.rsa]) \in PkCtx
    BY <2>1, <2>2, SyncType
  <2>4. pk' = [pk EXCEPT ![p] = pk_sync_pubkey_raw_from_rsa(x, heap[e.rsa])]
    BY <1>2 DEF x
  <2> QED
    BY <2>3, <2>4, PkChange DEF WritePubkey
<1> QED
  BY <1>1, <1>2 DEF WritePubkey, pk_resync_pubkey_raw_if_cached

\* A pk context is freed, with the cache entry or (LibraryFree) without.
LEMMA FreeStep ==
  ASSUME StateOK, NEW p \in Pk, PkFree(p) \/ LibraryFree(p)
  PROVE  StateOK'
<1>1. pk' \in [Pk -> PkCtx]
  BY FreshPkType DEF PkFree, LibraryFree, StateOK
<1>2. CASE PkFree(p)
  BY <1>1, <1>2, RemoveStep DEF PkFree
<1>3. CASE LibraryFree(p)
  BY <1>3, PkChange, FreshPkType DEF LibraryFree
<1> QED
  BY <1>2, <1>3

LEMMA ImportStep ==
  ASSUME StateOK, NEW r \in Rsa, Import(r)
  PROVE  StateOK'
<1>1. heap[r] # Free /\ heap[r] \in Ctx
  BY DEF Import, Usable, StateOK
<1>2. PICK k \in Key, S \in Imports :
        \E o \in mbedtls_rsa_import(heap[r], PartsOf(k), S)
                   \cup mbedtls_rsa_import_raw(heap[r], PartsOf(k), S) :
          heap' = [heap EXCEPT ![r] = o.ctx]
  BY DEF Import
<1>3. PICK o \in Outcome : heap' = [heap EXCEPT ![r] = o.ctx]
  <2>1. PartsOf(k) \in [Part -> Value] /\ S \subseteq Part
    BY PkRsaAssumption, PartsType
  <2>2. /\ mbedtls_rsa_import(heap[r], PartsOf(k), S) \subseteq Outcome
        /\ mbedtls_rsa_import_raw(heap[r], PartsOf(k), S) \subseteq Outcome
    BY <1>1, <2>1, ImportType, ImportRawType
  <2> QED
    BY <1>2, <2>2
<1>4. o.ctx \in Ctx /\ pk' \in [Pk -> PkCtx]
  BY DEF Outcome, Import, StateOK
<1> QED
  BY <1>1, <1>3, <1>4, ContextChange DEF Import

\* The synchronization after a completion: of the pk context that owns r.
LEMMA SyncFromCtxType ==
  ASSUME StateOK, NEW r, NEW c \in Ctx, SyncFromCtx(r, c)
  PROVE  pk' \in [Pk -> PkCtx]
<1>1. CASE UNCHANGED pk
  BY <1>1 DEF StateOK
<1>2. ASSUME NEW e \in cache, pk' = [pk EXCEPT ![e.pk] = pk_sync_from_rsa(@, c)]
      PROVE  pk' \in [Pk -> PkCtx]
  <2>1. e.pk \in Pk /\ pk[e.pk] \in PkCtx
    BY EntryHasContext DEF StateOK
  <2>2. pk_sync_from_rsa(pk[e.pk], c) \in PkCtx
    BY <2>1, SyncType
  <2> QED
    BY <1>2, <2>1, <2>2 DEF StateOK
<1> QED
  BY <1>1, <1>2 DEF SyncFromCtx

LEMMA OwnerType ==
  ASSUME StateOK, NEW r
  PROVE  Owner(r) \in Pk \cup {Null}
  BY EntryHasContext DEF Owner

LEMMA CompleteStep ==
  ASSUME StateOK, NEW r \in Rsa, Complete(r)
  PROVE  StateOK' /\ out' \in Out
<1>1. heap[r] # Free /\ heap[r] \in Ctx
  BY DEF Complete, Usable, StateOK
<1>2. PICK o \in mbedtls_rsa_complete(heap[r]) :
        /\ heap' = [heap EXCEPT ![r] = o.ctx]
        /\ IF o.ok THEN SyncFromCtx(r, o.ctx) ELSE UNCHANGED pk
        /\ out' = IF o.ok THEN Told("complete", Owner(r), "ok", PublicOf(o.ctx))
                          ELSE Told("complete", Owner(r), "error", Null)
  BY DEF Complete
<1>3. o.ctx \in Ctx
  BY <1>1, CompleteType DEF Outcome
<1>4. pk' \in [Pk -> PkCtx]
  BY <1>2, <1>3, SyncFromCtxType DEF StateOK
<1>5. StateOK'
  BY <1>1, <1>2, <1>3, <1>4, ContextChange DEF Complete
<1>6. PublicOf(o.ctx) \in Value \cup {Null} /\ Null \in Value \cup {Null}
  BY <1>3 DEF PublicOf, Ctx, Field, Part, Value
<1>7. out' \in Out
  BY <1>2, <1>6, OwnerType, ToldType
<1> QED
  BY <1>5, <1>7

\* mbedtls_pk_encrypt and mbedtls_pk_decrypt.
LEMMA CryptStep ==
  ASSUME StateOK, NEW p \in Pk, NEW op \in {"encrypt", "decrypt"}, Crypt(op, p)
  PROVE  StateOK' /\ out' \in Out
<1>1. CASE ShimPkRsa(p, Null) /\ out' = Told(op, p, "error", Null)
  BY <1>1, ShimPkRsaStep, ToldType
<1>2. ASSUME NEW r \in Rsa, ShimPkRsa(p, r),
             \/ out' = Told(op, p, "length", Null)
             \/ out' = Told(op, p, "ok", heap'[r].mpi["N"])
      PROVE  StateOK' /\ out' \in Out
  <2>1. StateOK' /\ heap'[r] \in Ctx
    BY <1>2, ShimPkRsaStep
  <2>2. heap'[r].mpi["N"] \in Value
    BY <2>1 DEF Ctx, Field, Part
  <2> QED
    BY <1>2, <2>1, <2>2, ToldType
<1> QED
  BY <1>1, <1>2 DEF Crypt

LEMMA VerifyStep ==
  ASSUME StateOK, NEW p \in Pk, Verify(p)
  PROVE  StateOK' /\ out' \in Out
<1>1. StateOK'
  <2>1. CASE UNCHANGED <<pk, heap, cache>>
    BY <2>1 DEF StateOK, CacheIsAMap, HeapIsTheCache
  <2> QED
    BY <2>1, ShimPkRsaStep DEF Verify
<1>2. pk'[p].pub \in Value \cup {Null}
  BY <1>1 DEF StateOK, PkCtx, Value
<1> QED
  BY <1>1, <1>2, ToldType DEF Verify

LEMMA SignStep ==
  ASSUME StateOK, NEW p \in Pk, Sign(p)
  PROVE  StateOK' /\ out' \in Out
<1>1. StateOK'
  BY DEF Sign, StateOK, CacheIsAMap, HeapIsTheCache
<1>2. pk[p].priv \in Value \cup {Null}
  BY DEF StateOK, PkCtx, Value
<1> QED
  BY <1>1, <1>2, ToldType DEF Sign

LEMMA IInvNext == IInv /\ [Next]_vars => IInv'
<1> SUFFICES ASSUME IInv, [Next]_vars PROVE IInv'
  OBVIOUS
<1> USE DEF IInv
<1>q. Quiet \in Out
  BY DEF Quiet, Out
<1>1. CASE UNCHANGED vars
  BY <1>1 DEF vars, StateOK, CacheIsAMap, HeapIsTheCache
<1>2. ASSUME NEW p \in Pk, CallOnPk(p) PROVE IInv'
  <2>1. CASE Setup(p)
    BY <1>q, <2>1, SetupStep DEF Setup
  <2>2. CASE Parse(p)
    BY <1>q, <2>2, ParseStep DEF Parse
  <2>3. CASE PkRsa(p)
    BY <1>q, <2>3, ShimPkRsaStep DEF PkRsa
  <2>4. CASE GetBitlen(p)
    <3>1. CASE UNCHANGED <<pk, heap, cache>>
      BY <1>q, <2>4, <3>1 DEF GetBitlen, StateOK, CacheIsAMap, HeapIsTheCache
    <3> QED
      BY <1>q, <2>4, <3>1, ShimPkRsaStep DEF GetBitlen
  <2>5. CASE Verify(p)
    BY <2>5, VerifyStep
  <2>6. CASE Crypt("encrypt", p) \/ Crypt("decrypt", p)
    BY <2>6, CryptStep
  <2>7. CASE WritePubkey(p)
    BY <1>q, <2>7, WritePubkeyStep DEF WritePubkey
  <2>8. CASE PkFree(p) \/ LibraryFree(p)
    BY <1>q, <2>8, FreeStep DEF PkFree, LibraryFree
  <2>9. CASE Sign(p)
    BY <2>9, SignStep
  <2> QED
    BY <1>2, <2>1, <2>2, <2>3, <2>4, <2>5, <2>6, <2>7, <2>8, <2>9 DEF CallOnPk
<1>3. ASSUME NEW r \in Rsa, CallOnRsa(r) PROVE IInv'
  <2>1. CASE Import(r)
    BY <1>q, <2>1, ImportStep DEF Import
  <2>2. CASE Complete(r)
    BY <2>2, CompleteStep
  <2> QED
    BY <1>3, <2>1, <2>2 DEF CallOnRsa
<1> QED
  BY <1>1, <1>2, <1>3 DEF Next

\* Every reachable state satisfies the invariant.
THEOREM Invariance == Spec => []IInv
  BY IInvInit, IInvNext, PTL DEF Spec

\* The type invariant of PkRsa: in particular no lookup dereferences an RSA
\* context that was freed.
THEOREM TypeCorrect == Spec => []TypeOK
<1>1. IInv => TypeOK
  BY DEF IInv, StateOK, TypeOK
<1> QED
  BY <1>1, Invariance, PTL

\* cache_find and the lookup by RSA context have one answer, for any number
\* of pk contexts and whatever fails.
THEOREM LookupsAreUnambiguous == Spec => []CacheIsAMap
<1>1. IInv => CacheIsAMap
  BY DEF IInv, StateOK
<1> QED
  BY <1>1, Invariance, PTL

\* No path of pk_rsa.c leaks an RSA context or leaves an entry dangling.
THEOREM NoLeakNoDangling == Spec => []HeapIsTheCache
<1>1. IInv => HeapIsTheCache
  BY DEF IInv, StateOK
<1> QED
  BY <1>1, Invariance, PTL

-----------------------------------------------------------------------------
(* Which entries there are.                                                *)

\* mbedtls_v3_shim_pk_rsa on p touches no other pk context, keeps the type
\* of p and every entry, and returns NULL only if p has no entry.
LEMMA ShimPkRsaFrame ==
  ASSUME StateOK, NEW p \in Pk, NEW r, ShimPkRsa(p, r)
  PROVE  /\ cache \subseteq cache'
         /\ \A q \in Pk \ {p} : pk'[q] = pk[q]
         /\ pk'[p].type = pk[p].type
         /\ \A e \in cache' \ cache : e.pk = p /\ pk_is_rsa(pk[p])
         /\ (\E e \in cache' : e.pk = p) \/ pk'[p] = pk[p]
<1>0. pk[p] \in PkCtx
  BY DEF StateOK
<1>1. CASE PkRsaHit(p, pk[p], r)
  <2>1. PICK e \in cache : e.pk = p /\ r = e.rsa
    BY <1>1 DEF PkRsaHit, cache_find
  <2>2. pk_sync_from_rsa(pk[p], heap[r]).type = pk[p].type
    BY <1>0, <2>1, EntryHasContext, SyncType
  <2> QED
    BY <1>1, <2>1, <2>2 DEF PkRsaHit, StateOK
<1>2. CASE PkRsaMiss(p, pk[p], r)
  <2>1. PICK c \in materialize_rsa(pk[p]) :
          pk' = [pk EXCEPT ![p] = pk_sync_from_rsa(pk[p], c)]
    BY <1>2 DEF PkRsaMiss
  <2>2. pk_sync_from_rsa(pk[p], c).type = pk[p].type
    BY <1>0, MaterializeType, SyncType
  <2>3. cache' = cache \cup {[pk |-> p, rsa |-> r]} /\ pk_is_rsa(pk[p])
    BY <1>2 DEF PkRsaMiss, cache_insert
  <2>4. /\ cache \subseteq cache'
        /\ \A e \in cache' \ cache : e.pk = p
        /\ \E e \in cache' : e.pk = p
    <3> DEFINE new == [pk |-> p, rsa |-> r]
    <3>1. new \in cache' /\ new.pk = p
      BY <2>3
    <3> QED
      BY <2>3, <3>1
  <2>5. (\A q \in Pk \ {p} : pk'[q] = pk[q]) /\ pk'[p].type = pk[p].type
    BY <2>1, <2>2 DEF StateOK
  <2> QED
    BY <2>3, <2>4, <2>5
<1>3. CASE r = Null /\ PkRsaNull(p, pk[p], pk[p])
  BY <1>3 DEF PkRsaNull, StateOK
<1> QED
  BY <1>1, <1>2, <1>3 DEF ShimPkRsa

\* The same of mbedtls_pk_setup, on a context that it sets up.
LEMMA SetupFrame ==
  ASSUME StateOK, NEW p \in Pk, Setup(p), ~UNCHANGED <<pk, heap, cache>>
  PROVE  /\ cache \subseteq cache'
         /\ \A q \in Pk \ {p} : pk'[q] = pk[q]
         /\ \A e \in cache' \ cache : e.pk = p
         /\ \/ pk_is_rsa(pk'[p]) /\ \E e \in cache' : e.pk = p
            \/ pk'[p] = FreshPk /\ cache' = cache /\ \A e \in cache : e.pk # p
<1> DEFINE x == [pk[p] EXCEPT !.type = "rsa"]
<1>1. x \in PkCtx /\ x.type = "rsa"
  BY DEF StateOK, PkCtx
<1> HIDE DEF x
<1>2. ASSUME NEW r \in Rsa, PkRsaHit(p, x, r)
      PROVE  /\ cache' = cache /\ \A q \in Pk \ {p} : pk'[q] = pk[q]
             /\ pk_is_rsa(pk'[p]) /\ \E e \in cache' : e.pk = p
  <2>1. PICK e \in cache : e.pk = p /\ r = e.rsa
    BY <1>2 DEF PkRsaHit, cache_find
  <2>2. pk_sync_from_rsa(x, heap[r]).type = "rsa"
    BY <1>1, <2>1, EntryHasContext, SyncType
  <2> QED
    BY <1>2, <2>1, <2>2 DEF PkRsaHit, StateOK, pk_is_rsa
<1>3. ASSUME NEW r \in Rsa, PkRsaMiss(p, x, r)
      PROVE  /\ cache \subseteq cache'
             /\ \A e \in cache' \ cache : e.pk = p
             /\ \E e \in cache' : e.pk = p
             /\ \A q \in Pk \ {p} : pk'[q] = pk[q]
             /\ pk_is_rsa(pk'[p])
  <2>1. PICK c \in materialize_rsa(x) : pk' = [pk EXCEPT ![p] = pk_sync_from_rsa(x, c)]
    BY <1>3 DEF PkRsaMiss
  <2>2. pk_sync_from_rsa(x, c).type = "rsa"
    BY <1>1, MaterializeType, SyncType
  <2> DEFINE new == [pk |-> p, rsa |-> r]
  <2>3. cache' = cache \cup {new} /\ new.pk = p
    BY <1>3 DEF PkRsaMiss, cache_insert
  <2>4. (\A q \in Pk \ {p} : pk'[q] = pk[q]) /\ pk_is_rsa(pk'[p])
    BY <2>1, <2>2 DEF StateOK, pk_is_rsa
  <2> HIDE DEF new
  <2> QED
    BY <2>3, <2>4
<1>4. ASSUME PkRsaNull(p, x, FreshPk)
      PROVE  /\ cache' = cache /\ \A q \in Pk \ {p} : pk'[q] = pk[q]
             /\ pk'[p] = FreshPk /\ \A e \in cache : e.pk # p
  BY <1>1, <1>4
  DEF PkRsaNull, MaterializeFails, InsertFails, IsCached, cache_find, pk_is_rsa, StateOK
<1> QED
  BY <1>2, <1>3, <1>4 DEF Setup, x

\* Only mbedtls_v3_shim_pk_free takes an entry out of the cache.
LEMMA EntriesStay ==
  ASSUME StateOK, [Next]_vars
  PROVE  \/ cache \subseteq cache'
         \/ \E p \in Pk : PkFree(p)
<1>1. CASE UNCHANGED vars
  BY <1>1 DEF vars
<1>2. ASSUME NEW p \in Pk, CallOnPk(p), ~PkFree(p) PROVE cache \subseteq cache'
  <2>1. CASE Setup(p)
    BY <2>1, SetupFrame
  <2>2. CASE Parse(p) \/ Sign(p) \/ WritePubkey(p) \/ LibraryFree(p)
    BY <2>2 DEF Parse, Sign, WritePubkey, LibraryFree
  <2>3. CASE PkRsa(p) \/ GetBitlen(p) \/ Verify(p)
    BY <2>3, ShimPkRsaFrame DEF PkRsa, GetBitlen, Verify
  <2>4. CASE Crypt("encrypt", p) \/ Crypt("decrypt", p)
    BY <2>4, ShimPkRsaFrame DEF Crypt
  <2> QED
    BY <1>2, <2>1, <2>2, <2>3, <2>4 DEF CallOnPk
<1>3. ASSUME NEW r \in Rsa, CallOnRsa(r) PROVE cache \subseteq cache'
  BY <1>3 DEF CallOnRsa, Import, Complete
<1> QED
  BY <1>1, <1>2, <1>3 DEF Next

\* mbedtls_v3_shim_pk_free takes out all that p has, and nothing else.
LEMMA FreeFrame ==
  ASSUME StateOK, NEW p \in Pk, PkFree(p)
  PROVE  /\ pk' = [pk EXCEPT ![p] = FreshPk] /\ pk'[p] = FreshPk
         /\ \A e \in cache : e \in cache' <=> e.pk # p
         /\ cache' \subseteq cache
<1>1. pk' = [pk EXCEPT ![p] = FreshPk] /\ pk'[p] = FreshPk
  BY DEF PkFree, StateOK
<1>2. CASE ~IsCached(p) /\ UNCHANGED <<heap, cache>>
  BY <1>1, <1>2 DEF IsCached, cache_find
<1>3. ASSUME NEW e \in cache_find(p), cache' = cache \ {e}
      PROVE  (\A f \in cache : f \in cache' <=> f.pk # p) /\ cache' \subseteq cache
  BY <1>3 DEF cache_find, StateOK, CacheIsAMap
<1> QED
  BY <1>1, <1>2, <1>3 DEF PkFree, cache_remove

\* The pointer that mbedtls_pk_rsa returned is the one it goes on returning
\* until the pk context is freed, whatever else is called or fails.
THEOREM PointersAreStable == Spec => EntryStaysUntilFree
<1>1. ASSUME IInv, [Next]_vars
      PROVE  [\A e \in cache : e \in cache' \/ ~pk_is_rsa(pk'[e.pk])]_vars
  <2>1. CASE cache \subseteq cache'
    BY <2>1
  <2>2. ASSUME NEW p \in Pk, PkFree(p)
        PROVE  \A e \in cache : e \in cache' \/ ~pk_is_rsa(pk'[e.pk])
    BY <1>1, <2>2, FreeFrame DEF IInv, pk_is_rsa, FreshPk
  <2> QED
    BY <1>1, <2>1, <2>2, EntriesStay DEF IInv
<1> QED
  BY <1>1, Invariance, PTL DEF Spec, EntryStaysUntilFree

-----------------------------------------------------------------------------
(* Empty RSA contexts are never forgotten.                                 *)

LEMMA TemplatesNext ==
  ASSUME StateOK, TemplatesAreCached, [Next]_vars
  PROVE  TemplatesAreCached'
<1> DEFINE Has(q) == \E e \in cache : e.pk = q
           Good(q) == pk_is_empty_rsa_template(pk[q]) => Has(q)
<1>1. (\A q \in Pk : Good(q)) /\ (TemplatesAreCached' <=> (\A q \in Pk : Good(q))')
  BY DEF TemplatesAreCached, IsCached, cache_find
<1>2. ~pk_is_empty_rsa_template(FreshPk)
  BY DEF FreshPk, pk_is_empty_rsa_template, pk_is_rsa
\* It is enough that old entries stay and the one pk context that changes is good.
<1>3. ASSUME NEW p \in Pk, cache \subseteq cache',
             \A q \in Pk \ {p} : pk'[q] = pk[q],
             Has(p)' \/ pk'[p] = pk[p] \/ ~pk_is_empty_rsa_template(pk'[p])
      PROVE  \A q \in Pk : Good(q)'
  BY <1>1, <1>3
<1>4. ASSUME UNCHANGED <<pk, cache>> PROVE \A q \in Pk : Good(q)'
  BY <1>1, <1>4
<1>5. ASSUME NEW p \in Pk, NEW r, ShimPkRsa(p, r) PROVE \A q \in Pk : Good(q)'
  <2>1. /\ cache \subseteq cache' /\ \A q \in Pk \ {p} : pk'[q] = pk[q]
        /\ Has(p)' \/ pk'[p] = pk[p]
    BY <1>5, ShimPkRsaFrame
  <2> HIDE DEF Has, Good
  <2> QED
    BY <1>3, <2>1
<1>6. ASSUME NEW p \in Pk, CallOnPk(p) PROVE \A q \in Pk : Good(q)'
  <2>1. CASE Setup(p)
    <3>1. CASE UNCHANGED <<pk, heap, cache>>
      BY <1>4, <3>1
    <3>2. CASE ~UNCHANGED <<pk, heap, cache>>
      <4>1. /\ cache \subseteq cache' /\ \A q \in Pk \ {p} : pk'[q] = pk[q]
            /\ Has(p)' \/ pk'[p] = FreshPk
        BY <2>1, <3>2, SetupFrame
      <4> HIDE DEF Has, Good
      <4> QED
        BY <1>2, <1>3, <4>1
    <3> QED
      BY <3>1, <3>2
  <2>2. CASE Parse(p)
    <3>1. /\ ~pk_is_empty_rsa_template(ParsedOther)
          /\ \A k \in Key : \A x \in Parsed(k) : ~pk_is_empty_rsa_template(x)
      BY PkRsaAssumption
      DEF Parsed, ParsedOther, pk_is_empty_rsa_template, pk_is_rsa, Value
    <3>2. PICK y : pk' = [pk EXCEPT ![p] = y] /\ ~pk_is_empty_rsa_template(y)
      BY <2>2, <3>1 DEF Parse
    <3>3. (\A q \in Pk \ {p} : pk'[q] = pk[q]) /\ ~pk_is_empty_rsa_template(pk'[p])
      BY <3>2 DEF StateOK
    <3>4. cache \subseteq cache'
      BY <2>2 DEF Parse
    <3> HIDE DEF Has, Good
    <3> QED
      BY <1>3, <3>3, <3>4
  <2>3. CASE PkRsa(p) \/ Crypt("encrypt", p) \/ Crypt("decrypt", p)
    BY <1>5, <2>3 DEF PkRsa, Crypt
  <2>4. CASE GetBitlen(p) \/ Verify(p)
    BY <1>4, <1>5, <2>4 DEF GetBitlen, Verify
  <2>5. CASE WritePubkey(p)
    <3>1. CASE UNCHANGED pk
      BY <1>4, <2>5, <3>1 DEF WritePubkey
    <3>2. CASE IsCached(p) /\ \A q \in Pk \ {p} : pk'[q] = pk[q]
      BY <1>3, <2>5, <3>2 DEF WritePubkey, IsCached, cache_find
    <3> QED
      BY <2>5, <3>1, <3>2
      DEF WritePubkey, pk_resync_pubkey_raw_if_cached, IsCached, StateOK
  <2>6. CASE PkFree(p)
    <3>1. /\ pk' = [pk EXCEPT ![p] = FreshPk] /\ pk'[p] = FreshPk
          /\ \A e \in cache : e \in cache' <=> e.pk # p
      BY <2>6, FreeFrame
    <3> QED
      BY <1>1, <1>2, <3>1 DEF StateOK
  <2>7. CASE LibraryFree(p)
    BY <1>1, <1>2, <2>7 DEF LibraryFree, StateOK
  <2>8. CASE Sign(p)
    BY <1>4, <2>8 DEF Sign
  <2> QED
    BY <1>6, <2>1, <2>2, <2>3, <2>4, <2>5, <2>6, <2>7, <2>8 DEF CallOnPk
<1>7. ASSUME NEW r \in Rsa, CallOnRsa(r) PROVE \A q \in Pk : Good(q)'
  <2>1. CASE UNCHANGED <<pk, cache>>
    BY <1>4, <2>1
  <2>2. ASSUME NEW c \in Ctx, SyncFromCtx(r, c), ~UNCHANGED pk, UNCHANGED cache
        PROVE  \A q \in Pk : Good(q)'
    <3>1. PICK e \in cache : pk' = [pk EXCEPT ![e.pk] = pk_sync_from_rsa(@, c)]
      BY <2>2 DEF SyncFromCtx
    <3>2. e.pk \in Pk /\ \A q \in Pk \ {e.pk} : pk'[q] = pk[q]
      BY <3>1, EntryHasContext DEF StateOK
    <3> QED
      BY <1>3, <2>2, <3>1, <3>2
  <2>3. CASE Import(r)
    BY <2>1, <2>3 DEF Import
  <2>4. CASE Complete(r)
    <3>1. heap[r] \in Ctx
      BY <2>4 DEF Complete, Usable, StateOK
    <3>2. \A o \in mbedtls_rsa_complete(heap[r]) : o.ctx \in Ctx
      BY <3>1, CompleteType DEF Outcome
    <3> QED
      BY <2>1, <2>2, <2>4, <3>2 DEF Complete
  <2> QED
    BY <1>7, <2>3, <2>4 DEF CallOnRsa
<1>8. CASE UNCHANGED vars
  BY <1>1, <1>4, <1>8 DEF vars
<1> QED
  BY <1>1, <1>6, <1>7, <1>8 DEF Next

\* A pk context that waits for imports always has the RSA context they go
\* to, whatever fails and whatever callers do.
THEOREM NoTemplateIsForgotten == Spec => []TemplatesAreCached
<1>1. Init => TemplatesAreCached
  BY DEF Init, TemplatesAreCached, pk_is_empty_rsa_template, pk_is_rsa, FreshPk
<1>2. IInv /\ TemplatesAreCached /\ [Next]_vars => TemplatesAreCached'
  BY TemplatesNext DEF IInv
<1> QED
  BY <1>1, <1>2, Invariance, PTL DEF Spec

-----------------------------------------------------------------------------
(* What a call can do to a pk context.                                     *)

\* A call on one pk context leaves the others as they are.
LEMMA OthersStay ==
  ASSUME StateOK, NEW p \in Pk, CallOnPk(p)
  PROVE  \A q \in Pk \ {p} : pk'[q] = pk[q]
<1>1. CASE Setup(p)
  BY <1>1, SetupFrame
<1>2. CASE Parse(p) \/ PkFree(p) \/ LibraryFree(p) \/ Sign(p)
  BY <1>2 DEF Parse, PkFree, LibraryFree, Sign, StateOK
<1>3. CASE PkRsa(p) \/ GetBitlen(p) \/ Verify(p) \/ Crypt("encrypt", p) \/ Crypt("decrypt", p)
  BY <1>3, ShimPkRsaFrame DEF PkRsa, GetBitlen, Verify, Crypt
<1>4. CASE WritePubkey(p)
  BY <1>4 DEF WritePubkey, pk_resync_pubkey_raw_if_cached, StateOK
<1> QED
  BY <1>1, <1>2, <1>3, <1>4 DEF CallOnPk

\* A pk context that changes is freed, or set up after it was free, or keeps
\* its type, and is RSA or was when it got its entry.
LEMMA ContextChanges ==
  ASSUME StateOK, [Next]_vars, NEW p \in Pk
  PROVE  \/ pk'[p] = pk[p]
         \/ pk'[p] = FreshPk
         \/ pk[p].type = "none" /\ pk'[p].type # "none"
         \/ /\ pk'[p].type = pk[p].type
            /\ pk_is_rsa(pk[p]) \/ \E e \in cache : e.pk = p
<1>1. CASE UNCHANGED pk
  BY <1>1
<1>2. ASSUME NEW r, ShimPkRsa(p, r)
      PROVE  pk'[p] = pk[p] \/ (pk'[p].type = pk[p].type /\ pk_is_rsa(pk[p]))
  BY <1>2, ShimPkRsaFrame
  DEF ShimPkRsa, PkRsaHit, PkRsaMiss, PkRsaNull, StateOK
<1>3. ASSUME CallOnPk(p), ~UNCHANGED pk
      PROVE  \/ pk'[p] = FreshPk
             \/ pk[p].type = "none" /\ pk'[p].type # "none"
             \/ pk'[p] = pk[p]
             \/ pk'[p].type = pk[p].type /\ pk_is_rsa(pk[p])
  <2>1. CASE Setup(p)
    <3>1. pk[p].type = "none"
      BY <1>3, <2>1 DEF Setup
    <3> QED
      BY <1>3, <2>1, <3>1, SetupFrame DEF pk_is_rsa
  <2>2. CASE Parse(p)
    <3>1. \A y : y = ParsedOther \/ (\E k \in Key : y \in Parsed(k)) => y.type # "none"
      BY DEF Parsed, ParsedOther
    <3>2. PICK y : pk' = [pk EXCEPT ![p] = y] /\ y.type # "none"
      BY <2>2, <3>1 DEF Parse
    <3> QED
      BY <2>2, <3>2 DEF Parse, StateOK
  <2>3. CASE PkFree(p) \/ LibraryFree(p)
    BY <2>3 DEF PkFree, LibraryFree, StateOK
  <2>4. CASE WritePubkey(p)
    BY <1>3, <2>4
    DEF WritePubkey, pk_resync_pubkey_raw_if_cached, pk_sync_pubkey_raw_from_rsa,
        StateOK, PkCtx
  <2>5. CASE PkRsa(p) \/ GetBitlen(p) \/ Verify(p) \/ Sign(p)
               \/ Crypt("encrypt", p) \/ Crypt("decrypt", p)
    BY <1>2, <1>3, <2>5 DEF PkRsa, GetBitlen, Verify, Sign, Crypt
  <2> QED
    BY <1>3, <2>1, <2>2, <2>3, <2>4, <2>5 DEF CallOnPk
<1>4. ASSUME NEW q \in Pk, CallOnPk(q), q # p PROVE pk'[p] = pk[p]
  BY <1>4, OthersStay
<1>5. ASSUME NEW r \in Rsa, Complete(r), ~UNCHANGED pk
      PROVE  \/ pk'[p] = pk[p]
             \/ pk'[p].type = pk[p].type /\ \E e \in cache : e.pk = p
  <2>1. heap[r] \in Ctx
    BY <1>5 DEF Complete, Usable, StateOK
  <2>2. \A o \in mbedtls_rsa_complete(heap[r]) : o.ctx \in Ctx
    BY <2>1, CompleteType DEF Outcome
  <2>3. PICK c \in Ctx, e \in cache : pk' = [pk EXCEPT ![e.pk] = pk_sync_from_rsa(@, c)]
    BY <1>5, <2>2 DEF Complete, SyncFromCtx
  <2>4. e.pk = p => pk_sync_from_rsa(pk[p], c).type = pk[p].type
    BY SyncType DEF StateOK
  <2> QED
    BY <2>3, <2>4 DEF StateOK
<1>6. ASSUME NEW r \in Rsa, Import(r) PROVE UNCHANGED pk
  BY <1>6 DEF Import
<1> QED
  BY <1>1, <1>3, <1>4, <1>5, <1>6 DEF Next, CallOnRsa, vars

LEMMA EntriesLiveNext ==
  ASSUME ~LibraryFrees, IInv, EntriesAreLive, [Next]_vars
  PROVE  EntriesAreLive'
<1> USE DEF IInv, pk_is_rsa
<1>1. CASE UNCHANGED <<pk, cache>>
  BY <1>1 DEF EntriesAreLive
<1>2. ASSUME NEW p \in Pk, NEW r, ShimPkRsa(p, r) PROVE EntriesAreLive'
  <2> SUFFICES ASSUME NEW e \in cache' PROVE pk'[e.pk].type = "rsa"
    BY DEF EntriesAreLive
  <2>1. e \in cache \/ (e.pk = p /\ pk[p].type = "rsa")
    BY <1>2, ShimPkRsaFrame
  <2>2. e \in cache => pk[e.pk].type = "rsa" /\ e.pk \in Pk
    BY EntryHasContext DEF EntriesAreLive
  <2> QED
    BY <1>2, <2>1, <2>2, ShimPkRsaFrame
<1>3. ASSUME NEW p \in Pk, CallOnPk(p) PROVE EntriesAreLive'
  <2>1. CASE Setup(p)
    <3>1. CASE UNCHANGED <<pk, heap, cache>>
      BY <1>1, <3>1
    <3>2. CASE ~UNCHANGED <<pk, heap, cache>>
      <4> SUFFICES ASSUME NEW e \in cache' PROVE pk'[e.pk].type = "rsa"
        BY DEF EntriesAreLive
      <4>1. e.pk = p => pk'[p].type = "rsa"
        BY <2>1, <3>2, SetupFrame
      <4>2. e.pk # p => e \in cache
        BY <2>1, <3>2, SetupFrame
      <4>3. e \in cache => pk[e.pk].type = "rsa" /\ e.pk \in Pk
        BY EntryHasContext DEF EntriesAreLive
      <4> QED
        BY <2>1, <3>2, <4>1, <4>2, <4>3, SetupFrame
    <3> QED
      BY <3>1, <3>2
  <2>2. CASE Parse(p)
    <3>1. \A e \in cache : e.pk # p
      BY <2>2 DEF Parse, EntriesAreLive
    <3>2. cache' = cache /\ \A q \in Pk \ {p} : pk'[q] = pk[q]
      BY <2>2 DEF Parse, StateOK
    <3> QED
      BY <3>1, <3>2, EntryHasContext DEF EntriesAreLive
  <2>3. CASE PkRsa(p) \/ Crypt("encrypt", p) \/ Crypt("decrypt", p)
    BY <1>2, <2>3 DEF PkRsa, Crypt
  <2>4. CASE GetBitlen(p) \/ Verify(p)
    BY <1>1, <1>2, <2>4 DEF GetBitlen, Verify
  <2>5. CASE WritePubkey(p)
    <3>1. CASE UNCHANGED pk
      BY <1>1, <2>5, <3>1 DEF WritePubkey
    <3>2. ASSUME NEW e \in cache_find(p),
                 pk' = [pk EXCEPT ![p] = pk_sync_pubkey_raw_from_rsa(
                                           [@ EXCEPT !.pub = Null], heap[e.rsa])]
          PROVE  EntriesAreLive'
      <4>1. pk'[p].type = pk[p].type
        BY <3>2 DEF pk_sync_pubkey_raw_from_rsa, StateOK, PkCtx
      <4>2. \A q \in Pk \ {p} : pk'[q] = pk[q]
        BY <3>2 DEF StateOK
      <4> QED
        BY <2>5, <4>1, <4>2, EntryHasContext DEF WritePubkey, EntriesAreLive
    <3> QED
      BY <2>5, <3>1, <3>2 DEF WritePubkey, pk_resync_pubkey_raw_if_cached
  <2>6. CASE PkFree(p)
    <3> SUFFICES ASSUME NEW e \in cache' PROVE pk'[e.pk].type = "rsa"
      BY DEF EntriesAreLive
    <3>1. e \in cache /\ e.pk # p /\ pk' = [pk EXCEPT ![p] = FreshPk]
      BY <2>6, FreeFrame
    <3>2. e.pk \in Pk /\ pk[e.pk].type = "rsa"
      BY <3>1, EntryHasContext DEF EntriesAreLive
    <3> QED
      BY <3>1, <3>2 DEF StateOK
  <2>7. CASE LibraryFree(p)
    <3>1. \A e \in cache : e.pk # p
      BY <2>7 DEF LibraryFree, IsCached, cache_find
    <3> QED
      BY <2>7, <3>1, EntryHasContext DEF LibraryFree, EntriesAreLive, StateOK
  <2>8. CASE Sign(p)
    BY <1>1, <2>8 DEF Sign
  <2> QED
    BY <1>3, <2>1, <2>2, <2>3, <2>4, <2>5, <2>6, <2>7, <2>8 DEF CallOnPk
<1>4. ASSUME NEW r \in Rsa, Complete(r) PROVE EntriesAreLive'
  <2>1. heap[r] \in Ctx
    BY <1>4 DEF Complete, Usable, StateOK
  <2>2. \A o \in mbedtls_rsa_complete(heap[r]) : o.ctx \in Ctx
    BY <2>1, CompleteType DEF Outcome
  <2>3. ASSUME NEW c \in Ctx, SyncFromCtx(r, c), UNCHANGED cache PROVE EntriesAreLive'
    <3>1. CASE UNCHANGED pk
      BY <1>1, <2>3, <3>1
    <3>2. ASSUME NEW e \in cache, pk' = [pk EXCEPT ![e.pk] = pk_sync_from_rsa(@, c)]
          PROVE  EntriesAreLive'
      <4>1. e.pk \in Pk /\ pk[e.pk] \in PkCtx
        BY EntryHasContext DEF StateOK
      <4>2. pk_sync_from_rsa(pk[e.pk], c).type = pk[e.pk].type
        BY <4>1, SyncType
      <4> QED
        BY <2>3, <3>2, <4>1, <4>2, EntryHasContext DEF EntriesAreLive, StateOK
    <3> QED
      BY <2>3, <3>1, <3>2 DEF SyncFromCtx
  <2> QED
    BY <1>1, <1>4, <2>2, <2>3 DEF Complete
<1>5. ASSUME NEW r \in Rsa, Import(r) PROVE EntriesAreLive'
  BY <1>1, <1>5 DEF Import
<1>6. CASE UNCHANGED vars
  BY <1>1, <1>6 DEF vars
<1> QED
  BY <1>3, <1>4, <1>5, <1>6 DEF Next, CallOnRsa

\* Unless code that does not use pk.h frees pk contexts behind its back, the
\* cache holds entries of live RSA pk contexts only.
THEOREM EntriesDieWithTheirContext ==
  ASSUME ~LibraryFrees
  PROVE  Spec => []EntriesAreLive
<1>1. Init => EntriesAreLive
  BY DEF Init, EntriesAreLive
<1>2. IInv /\ EntriesAreLive /\ [Next]_vars => EntriesAreLive'
  BY EntriesLiveNext
<1> QED
  BY <1>1, <1>2, Invariance, PTL DEF Spec
=============================================================================

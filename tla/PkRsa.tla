------------------------------- MODULE PkRsa --------------------------------
(***************************************************************************)
(* Lazy RSA materialization: src/src/pk_rsa.c and the wrappers of          *)
(* src/src/mbedtls/pk.h that lead to it, as one thread of legacy code      *)
(* calls them.  Each action is one call; a call that allocates or reads    *)
(* PSA can fail at each of those points when MayFail is TRUE.              *)
(*                                                                         *)
(* A pk context is what src/ reads of mbedtls_pk_context: its type         *)
(* (pk_info), the key in its PSA slot (priv_id), the key in pub_raw and    *)
(* bits.  The cache is the set of the entries of the list s_pk_rsa_cache.  *)
(***************************************************************************)
EXTENDS RsaContext, FiniteSets

CONSTANTS
  Pk,              \* addresses of pk contexts
  Rsa,             \* addresses mbedtls_calloc can give to an RSA context
  Null,            \* the null pointer, and the absence of a key
  Free,            \* the content of an address that is not allocated
  Imports,         \* sets of components that callers import together
  PubRawMaxBits,   \* longest modulus whose public key fits in pub_raw
  PkWriteC,        \* MBEDTLS_PK_WRITE_C is defined
  PsaCryptoC,      \* MBEDTLS_PSA_CRYPTO_C is defined
  Reimport,        \* callers import a second key over a first one
  Retry,           \* callers go on with a context after a failed complete
  LibraryFrees     \* code compiled without pk.h frees cached pk contexts

ASSUME PkRsaAssumption ==
  /\ Null \notin Pk \cup Rsa \cup Value
  /\ Free \notin Ctx
  /\ Imports \subseteq SUBSET Part
  /\ PubRawMaxBits \in Nat
  /\ {PkWriteC, PsaCryptoC, Reimport, Retry, LibraryFrees} \subseteq BOOLEAN

VARIABLES
  pk,     \* pk[p] is the pk context at p
  heap,   \* heap[r] is the RSA context at r, or Free
  cache,  \* the entries of s_pk_rsa_cache
  out     \* what the last call told its caller

vars == <<pk, heap, cache, out>>

PkCtx == [type : {"none", "rsa", "other"}, priv : Key \cup {Null},
          pub : Key \cup {Junk, Null}, bits : Nat]
Entry == [pk : Pk, rsa : Rsa]
Out   == [op : {"none", "verify", "sign", "encrypt", "decrypt", "complete"},
          pk : Pk \cup {Null}, rc : {"ok", "error", "length"},
          key : Value \cup {Null}]

Quiet == [op |-> "none", pk |-> Null, rc |-> "ok", key |-> Null]
Told(op, p, rc, k) == [op |-> op, pk |-> p, rc |-> rc, key |-> k]

-----------------------------------------------------------------------------
(* The cache.                                                              *)

cache_find(p) == {e \in cache : e.pk = p}
IsCached(p)   == cache_find(p) # {}

Available   == {r \in Rsa : heap[r] = Free}
Allocate(h, r, c) == [h EXCEPT ![r] = c]
Release(h, r)     == [h EXCEPT ![r] = Free]

cache_insert(p, r) == cache' = cache \cup {[pk |-> p, rsa |-> r]}

\* Mutant: the search for the entry stops at the first one.
CacheRemoveTakesAnyEntry(p) ==
  \/ /\ cache = {}
     /\ UNCHANGED <<heap, cache>>
  \/ \E e \in cache :
       /\ cache' = cache \ {e}
       /\ heap' = Release(heap, e.rsa)

\* Drops the entry of p, if any, with the RSA context it owns.
cache_remove(p) ==
  \/ /\ ~IsCached(p)
     /\ UNCHANGED <<heap, cache>>
  \/ \E e \in cache_find(p) :
       /\ cache' = cache \ {e}
       /\ heap' = Release(heap, e.rsa)

-----------------------------------------------------------------------------
(* Materialization.                                                        *)

\* A context after mbedtls_pk_init or the real mbedtls_pk_free.
FreshPk == [type |-> "none", priv |-> Null, pub |-> Null, bits |-> 0]

pk_is_rsa(x) == x.type = "rsa"
\* Mutants: the PSA slot, or pub_raw, is not looked at.
TemplateIgnoresPsaSlot(x) == pk_is_rsa(x) /\ x.pub = Null
TemplateIgnoresPubRaw(x)  == pk_is_rsa(x) /\ x.priv = Null

pk_is_empty_rsa_template(x) == pk_is_rsa(x) /\ x.priv = Null /\ x.pub = Null
pk_has_private_psa_key(x) == pk_is_rsa(x) /\ x.priv # Null

\* The external mbedtls_pk_write_key_der writes a private key, and so needs
\* the PSA slot; what it wrote parses as that key.
materialize_rsa_from_pk_der(x) == When(x.priv # Null, {PrivateCtx(x.priv)})

materialize_rsa_from_psa(x) == {PrivateCtx(x.priv)}

\* What materialize_rsa can make of the context x when nothing fails.
materialize_rsa(x) ==
  IF pk_is_empty_rsa_template(x)
    THEN {EmptyCtx}
    ELSE When(PkWriteC /\ (pk_has_private_psa_key(x) \/ x.pub # Null),
              materialize_rsa_from_pk_der(x))
           \cup When(PsaCryptoC /\ pk_has_private_psa_key(x),
                     materialize_rsa_from_psa(x))

\* Mutant: the length in bytes stands for the bit length.
SyncBitsFromLen(x, c) ==
  IF x.bits # 0 \/ ~Have(c, "N") THEN x ELSE [x EXCEPT !.bits = 8 * c.len]

pk_sync_bits_from_rsa(x, c) ==
  IF x.bits # 0 \/ ~Have(c, "N") THEN x
                                 ELSE [x EXCEPT !.bits = Bits(c.mpi["N"])]

\* Mutant: a key without modulus or exponent is written to pub_raw.
SyncPubkeyUnchecked(x, c) ==
  IF x.pub # Null \/ Bits(c.mpi["N"]) > PubRawMaxBits
    THEN x ELSE [x EXCEPT !.pub = PublicOf(c)]

pk_sync_pubkey_raw_from_rsa(x, c) ==
  IF \/ x.pub # Null
     \/ ~Have(c, "N") \/ ~Have(c, "E")
     \/ Bits(c.mpi["N"]) > PubRawMaxBits
    THEN x
    ELSE [x EXCEPT !.pub = PublicOf(c)]

pk_sync_from_rsa(x, c) ==
  pk_sync_pubkey_raw_from_rsa(pk_sync_bits_from_rsa(x, c), c)

\* mbedtls_v3_shim_pk_rsa on the context p, whose value is x, returning r.
PkRsaHit(p, x, r) ==
  /\ pk_is_rsa(x)
  /\ \E e \in cache_find(p) : r = e.rsa
  /\ pk' = [pk EXCEPT ![p] = pk_sync_from_rsa(x, heap[r])]
  /\ UNCHANGED <<heap, cache>>

\* Mutant: materializes without a look at the cache.
PkRsaMissWithoutLookup(p, x, r) ==
  /\ pk_is_rsa(x)
  /\ r \in Available
  /\ \E c \in materialize_rsa(x) :
       /\ heap' = Allocate(heap, r, c)
       /\ pk' = [pk EXCEPT ![p] = pk_sync_from_rsa(x, c)]
  /\ cache_insert(p, r)

PkRsaMiss(p, x, r) ==
  /\ pk_is_rsa(x)
  /\ ~IsCached(p)
  /\ r \in Available
  /\ \E c \in materialize_rsa(x) :
       /\ heap' = Allocate(heap, r, c)
       /\ pk' = [pk EXCEPT ![p] = pk_sync_from_rsa(x, c)]
  /\ cache_insert(p, r)

\* Nothing can be materialized, or an allocation or a PSA call fails first.
MaterializeFails(p, x) ==
  /\ pk_is_rsa(x) => /\ ~IsCached(p)
                     /\ MayFail \/ Available = {} \/ materialize_rsa(x) = {}
  /\ UNCHANGED heap

\* Mutant: the RSA context that found no entry is not freed.
InsertFailsLeaks(p, x) ==
  /\ pk_is_rsa(x) /\ ~IsCached(p) /\ MayFail
  /\ \E r \in Available, c \in materialize_rsa(x) : heap' = Allocate(heap, r, c)

\* cache_insert cannot allocate its entry: the new RSA context is freed.
InsertFails(p, x) ==
  /\ pk_is_rsa(x) /\ ~IsCached(p) /\ MayFail
  /\ \E r \in Available, c \in materialize_rsa(x) :
       heap' = Release(Allocate(heap, r, c), r)

\* The call returns NULL; y is what becomes of the pk context.
PkRsaNull(p, x, y) ==
  /\ MaterializeFails(p, x) \/ InsertFails(p, x)
  /\ pk' = [pk EXCEPT ![p] = y]
  /\ UNCHANGED cache

ShimPkRsa(p, r) ==
  \/ PkRsaHit(p, pk[p], r)
  \/ PkRsaMiss(p, pk[p], r)
  \/ r = Null /\ PkRsaNull(p, pk[p], pk[p])

-----------------------------------------------------------------------------
(* Calls on a pk context.                                                  *)

\* Mutant: a context whose RSA part cannot be made stays set up.
SetupKeepsFailedContext(p) ==
  LET x == [pk[p] EXCEPT !.type = "rsa"]
  IN  /\ pk[p].type = "none"
      /\ \/ \E r \in Rsa : PkRsaHit(p, x, r) \/ PkRsaMiss(p, x, r)
         \/ PkRsaNull(p, x, x)
      /\ out' = Quiet

\* mbedtls_pk_setup with what mbedtls_pk_info_from_type gave: always the
\* dummy, resolved as RSA.  The real call refuses a context already in use;
\* a context whose RSA part cannot be made is freed again.
Setup(p) ==
  LET x == [pk[p] EXCEPT !.type = "rsa"]
  IN  /\ \/ pk[p].type # "none" /\ UNCHANGED <<pk, heap, cache>>
         \/ /\ pk[p].type = "none"
            /\ \/ \E r \in Rsa : PkRsaHit(p, x, r) \/ PkRsaMiss(p, x, r)
               \/ PkRsaNull(p, x, FreshPk)
      /\ out' = Quiet

\* What the external mbedtls_pk_parse_key, mbedtls_pk_parse_public_key and the
\* like make of an RSA key, and of a key that is not RSA, in a fresh context.
\* A private key lands in a PSA slot.
Parsed(k) ==
  {[type |-> "rsa", priv |-> k,    pub |-> k,    bits |-> ModulusBits[k]],
   [type |-> "rsa", priv |-> k,    pub |-> Null, bits |-> 0],
   [type |-> "rsa", priv |-> Null, pub |-> k,    bits |-> ModulusBits[k]]}

ParsedOther == [type |-> "other", priv |-> Null, pub |-> Null, bits |-> 0]

Parse(p) ==
  /\ pk[p].type = "none"
  /\ \/ pk' = [pk EXCEPT ![p] = ParsedOther]
     \/ \E k \in {j \in Key : ModulusBits[j] <= PubRawMaxBits} :
          \E x \in Parsed(k) : pk' = [pk EXCEPT ![p] = x]
  /\ out' = Quiet
  /\ UNCHANGED <<heap, cache>>

PkRsa(p) ==
  /\ \E r \in Rsa \cup {Null} : ShimPkRsa(p, r)
  /\ out' = Quiet

\* mbedtls_pk_get_bitlen materializes an RSA context whose bits are not
\* known; the synchronization in that call is what fills them in.
GetBitlen(p) ==
  /\ \/ pk[p].bits = 0 /\ pk_is_rsa(pk[p])
        /\ \E r \in Rsa \cup {Null} : ShimPkRsa(p, r)
     \/ (pk[p].bits # 0 \/ ~pk_is_rsa(pk[p])) /\ UNCHANGED <<pk, heap, cache>>
  /\ out' = Quiet

\* mbedtls_pk_verify; the real call imports pub_raw into PSA.
Verify(p) ==
  /\ pk_is_rsa(pk[p])
  /\ \/ pk[p].pub = Null /\ \E r \in Rsa \cup {Null} : ShimPkRsa(p, r)
     \/ pk[p].pub # Null /\ UNCHANGED <<pk, heap, cache>>
  /\ out' = Told("verify", p, IF pk'[p].pub # Null THEN "ok" ELSE "error", pk'[p].pub)

\* mbedtls_pk_sign; the real call signs with the key in the PSA slot.
Sign(p) ==
  /\ pk_is_rsa(pk[p])
  /\ out' = Told("sign", p, IF pk[p].priv # Null THEN "ok" ELSE "error", pk[p].priv)
  /\ UNCHANGED <<pk, heap, cache>>

\* mbedtls_pk_encrypt and mbedtls_pk_decrypt: no RSA context is an error, a
\* buffer of the wrong length another; with "ok" the call reached the real
\* RSA operation, with the key of that context.
Crypt(op, p) ==
  /\ pk_is_rsa(pk[p])
  /\ \/ ShimPkRsa(p, Null) /\ out' = Told(op, p, "error", Null)
     \/ \E r \in Rsa :
          /\ ShimPkRsa(p, r)
          /\ \/ /\ op = "decrypt" \/ heap'[r].len > 0
                /\ out' = Told(op, p, "length", Null)
             \/ out' = Told(op, p, "ok", heap'[r].mpi["N"])

\* Mutant: pub_raw is emptied and not rebuilt.
ResyncEmpties(p) ==
  /\ pk_is_rsa(pk[p]) /\ IsCached(p)
  /\ pk' = [pk EXCEPT ![p].pub = Null]

\* The public key of a cached context is written to pub_raw anew.
pk_resync_pubkey_raw_if_cached(p) ==
  \/ /\ pk_is_rsa(pk[p])
     /\ \E e \in cache_find(p) :
          pk' = [pk EXCEPT ![p] = pk_sync_pubkey_raw_from_rsa(
                                    [@ EXCEPT !.pub = Null], heap[e.rsa])]
  \/ ~(pk_is_rsa(pk[p]) /\ IsCached(p)) /\ UNCHANGED pk

\* mbedtls_pk_write_pubkey_der and mbedtls_pk_write_pubkey_pem.
WritePubkey(p) ==
  /\ pk_resync_pubkey_raw_if_cached(p)
  /\ out' = Quiet
  /\ UNCHANGED <<heap, cache>>

\* Mutant: the cache entry is not released.
PkFreeKeepsEntry(p) ==
  /\ pk' = [pk EXCEPT ![p] = FreshPk]
  /\ out' = Quiet
  /\ UNCHANGED <<heap, cache>>

\* mbedtls_v3_shim_pk_free.
PkFree(p) ==
  /\ cache_remove(p)
  /\ pk' = [pk EXCEPT ![p] = FreshPk]
  /\ out' = Quiet

\* The real mbedtls_pk_free, from code the macro does not reach.  It does no
\* harm to a context that mbedtls_pk_rsa has not seen.
LibraryFree(p) ==
  /\ LibraryFrees \/ ~IsCached(p)
  /\ pk' = [pk EXCEPT ![p] = FreshPk]
  /\ out' = Quiet
  /\ UNCHANGED <<heap, cache>>

-----------------------------------------------------------------------------
(* Calls on an RSA context that mbedtls_pk_rsa handed out.                 *)

\* A caller builds a key in a context that came from mbedtls_pk_setup, and
\* unless Reimport holds gives it the components of one key only.
OneKey(c, k) == \A f \in Field : c.mpi[f] \in {k, Zero, Junk}

MayImport(r, k) ==
  \/ Reimport
  \/ /\ OneKey(heap[r], k)
     /\ \A e \in cache :
          e.rsa = r => /\ pk[e.pk].priv = Null
                       /\ pk[e.pk].pub \in {Null, k}
                       /\ pk[e.pk].bits \in {0, ModulusBits[k]}

\* A failed mbedtls_rsa_complete may leave Junk behind; callers free the pk
\* context then, unless Retry holds.
Usable(r) == heap[r] # Free /\ (Retry \/ \A f \in Field : heap[r].mpi[f] # Junk)

Import(r) ==
  /\ Usable(r)
  /\ \E k \in Key, S \in Imports :
       /\ MayImport(r, k)
       /\ \E o \in mbedtls_rsa_import(heap[r], PartsOf(k), S)
                     \cup mbedtls_rsa_import_raw(heap[r], PartsOf(k), S) :
            heap' = [heap EXCEPT ![r] = o.ctx]
  /\ out' = Quiet
  /\ UNCHANGED <<pk, cache>>

\* Mutant: as its name says, only bits are synchronized.
SyncOnlyBits(r, c) ==
  \/ \E e \in cache : /\ e.rsa = r
                      /\ pk' = [pk EXCEPT ![e.pk] = pk_sync_bits_from_rsa(@, c)]
  \/ (\A e \in cache : e.rsa # r) /\ UNCHANGED pk

\* Mutant: the first entry is taken for that of r.
SyncFirstEntry(r, c) ==
  \/ \E e \in cache : pk' = [pk EXCEPT ![e.pk] = pk_sync_from_rsa(@, c)]
  \/ cache = {} /\ UNCHANGED pk

\* mbedtls_v3_shim_pk_rsa_sync_bits_from_ctx on the context r, now c.
SyncFromCtx(r, c) ==
  \/ \E e \in cache : /\ e.rsa = r
                      /\ pk' = [pk EXCEPT ![e.pk] = pk_sync_from_rsa(@, c)]
  \/ (\A e \in cache : e.rsa # r) /\ UNCHANGED pk

Owner(r) == IF \E e \in cache : e.rsa = r
              THEN (CHOOSE e \in cache : e.rsa = r).pk ELSE Null

Complete(r) ==
  /\ Usable(r)
  /\ \E o \in mbedtls_rsa_complete(heap[r]) :
       /\ heap' = [heap EXCEPT ![r] = o.ctx]
       /\ IF o.ok THEN SyncFromCtx(r, o.ctx) ELSE UNCHANGED pk
       /\ out' = IF o.ok THEN Told("complete", Owner(r), "ok", PublicOf(o.ctx))
                          ELSE Told("complete", Owner(r), "error", Null)
  /\ UNCHANGED cache

-----------------------------------------------------------------------------
Init ==
  /\ pk = [p \in Pk |-> FreshPk]
  /\ heap = [r \in Rsa |-> Free]
  /\ cache = {}
  /\ out = Quiet

CallOnPk(p) ==
  \/ Setup(p) \/ Parse(p) \/ PkRsa(p) \/ GetBitlen(p) \/ Verify(p)
  \/ Sign(p) \/ Crypt("encrypt", p) \/ Crypt("decrypt", p)
  \/ WritePubkey(p) \/ PkFree(p) \/ LibraryFree(p)

CallOnRsa(r) == Import(r) \/ Complete(r)

Next == (\E p \in Pk : CallOnPk(p)) \/ (\E r \in Rsa : CallOnRsa(r))

Spec == Init /\ [][Next]_vars

-----------------------------------------------------------------------------
(* Properties.                                                             *)

TypeOK ==
  /\ pk \in [Pk -> PkCtx]
  /\ heap \in [Rsa -> Ctx \cup {Free}]
  /\ cache \in SUBSET Entry
  /\ out \in Out

\* A pk context has at most one cached RSA context and no two share one: a
\* lookup by pk (cache_find) and one by RSA context
\* (mbedtls_v3_shim_pk_rsa_sync_bits_from_ctx) have one answer.
CacheIsAMap ==
  \A e, f \in cache : e.pk = f.pk \/ e.rsa = f.rsa => e = f

\* Between calls the RSA contexts that are allocated are those that an entry
\* owns: no failure path leaks one, and no entry points to a freed one.
HeapIsTheCache ==
  \A r \in Rsa : heap[r] # Free <=> \E e \in cache : e.rsa = r

\* The cache holds entries of live RSA contexts only: an entry is gone when
\* its pk context has been freed.
EntriesAreLive ==
  \A e \in cache : pk_is_rsa(pk[e.pk])

\* An RSA context set up to be filled by imports always has its entry:
\* otherwise what the caller imported would be lost, and the next
\* mbedtls_pk_rsa would hand out another, empty context.
TemplatesAreCached ==
  \A p \in Pk : pk_is_empty_rsa_template(pk[p]) => IsCached(p)

\* The transparent context of a key that is in PSA is that key.
CachedKeyIsPsaKey ==
  \A e \in cache :
    pk[e.pk].priv # Null => heap[e.rsa] = PrivateCtx(pk[e.pk].priv)

\* The public key that mbedtls_pk_verify imports from pub_raw and the one
\* that mbedtls_pk_encrypt uses, in the cached RSA context, are the same.
PublishedKeyIsContextKey ==
  \A e \in cache :
    LET c == heap[e.rsa]
    IN  pk[e.pk].pub # Null /\ Have(c, "N") /\ Have(c, "E")
          => pk[e.pk].pub = PublicOf(c)

\* The bit length that mbedtls_pk_get_bitlen answers without a look at the
\* RSA context is that of its modulus.
BitsAreModulusBits ==
  \A e \in cache :
    pk[e.pk].bits # 0 /\ Have(heap[e.rsa], "N")
      => pk[e.pk].bits = Bits(heap[e.rsa].mpi["N"])

\* When mbedtls_rsa_complete succeeds on the RSA context of a pk context, both
\* fields of the pk context are up to date: bits is the length of the modulus,
\* and pub_raw holds the completed key, for the next mbedtls_pk_verify, or is
\* empty when the key is too long for it: nothing of such a key is in there.
CompletedKeyIsPublished ==
  \A e \in cache :
    LET n == Bits(heap[e.rsa].mpi["N"])
    IN  out.op = "complete" /\ out.rc = "ok" /\ out.pk = e.pk
          => /\ pk[e.pk].bits = n
             /\ pk[e.pk].pub = IF n <= PubRawMaxBits THEN out.key ELSE Null

\* When mbedtls_rsa_complete succeeds, the context holds one key, whole or
\* its public half, however often imports and completions failed before.
CompletedKeyIsCoherent ==
  \A e \in cache :
    out.op = "complete" /\ out.rc = "ok" /\ out.pk = e.pk
      => \E k \in Key : Coherent(heap[e.rsa], k)

\* mbedtls_rsa_complete leaves a modulus and an exponent that are there as they
\* are, however it ends, and also when it is called again after failures that
\* left scratch values in P, Q or D: those spoil private numbers only.
CompletionKeepsThePublicHalf ==
  [][\A e \in cache :
       LET c == heap[e.rsa]
           d == heap'[e.rsa]
       IN  out'.op = "complete" /\ out'.pk = e.pk
             => /\ \A f \in {"N", "E"} : Have(c, f) => d.mpi[f] = c.mpi[f]
                /\ Have(c, "N") => d.len = c.len]_vars

\* The pointer that mbedtls_pk_rsa gave its caller stays the one it gives,
\* until the pk context is freed.
EntryStaysUntilFree ==
  [][\A e \in cache : e \in cache' \/ ~pk_is_rsa(pk'[e.pk])]_vars

\* Rebuilding pub_raw never loses a public key that the RSA context holds.
PublicKeyIsKept ==
  [][\A p \in Pk, e \in cache :
       /\ e.pk = p /\ pk[p].pub # Null /\ pk_is_rsa(pk'[p])
       /\ Have(heap[e.rsa], "N") /\ Have(heap[e.rsa], "E")
       => pk'[p].pub # Null]_vars

\* mbedtls_pk_encrypt finds an RSA context for every pk context that has a
\* public key, private key or not (the comment in
\* mbedtls_pk_encrypt_v4_compat says so).
EncryptNeedsOnlyPublicHalf ==
  \A p \in Pk :
    out.op = "encrypt" /\ out.pk = p /\ pk[p].pub # Null => out.rc # "error"

\* mbedtls_pk_sign works on every pk context whose RSA context is a completed
\* private key, however the key came there, as it did in mbedtls v3 (the first
\* sentence of README.md).
CompletedKeySigns ==
  \A e \in cache :
    /\ out.op = "sign" /\ out.pk = e.pk
    /\ \E k \in Key : heap[e.rsa] = PrivateCtx(k)
    => out.rc = "ok"
=============================================================================

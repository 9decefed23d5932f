# mbedtls_v3_shim in TLA+

Models, model-checking runs and proofs about `mbedtls_v3_shim`, the component
that lets code written for mbedTLS v3 run on mbedTLS v4. All paths below are
paths of the repository.

## 1. The system

mbedTLS v4 keeps private keys in PSA slots and drops part of the v3 interface.
The shim gives legacy code (libssh is the known caller) that interface back. It
has no threads, no I/O and no files of its own; it is a set of C functions and
macros, called by application code, that call into mbedTLS v4 and PSA.

| Part | Source | State | Operations |
|---|---|---|---|
| Legacy pk interface | `src/mbedtls/pk.h` | the caller's `mbedtls_pk_context` (`pk_info`, `priv_id`, `pub_raw`, `bits`) | macros and inline wrappers for setup, parse, sign, verify, get_bitlen, encrypt, decrypt, write key/pubkey, `mbedtls_pk_rsa`, `mbedtls_pk_ec`, free |
| Lazy RSA materialization | `src/pk_rsa.c` | the list `s_pk_rsa_cache` of (pk context, RSA context) and the RSA contexts it owns | find/insert/remove, materialize, synchronize `bits` and `pub_raw`, setup, free, encrypt, decrypt, write |
| RSA context construction | `src/rsa_import_export.c` | the components and `len` of an `mbedtls_rsa_context` | import, import_raw, complete, export, export_raw, export_crt, write_key_der |
| Lazy EC materialization | `src/pk_ec.c` | the list `s_pk_ec_cache` and its key pairs | find/insert/release, materialize |
| ECDH | `src/ecdh.c` | none | compute_shared |
| Random number stubs | `src/mbedtls/entropy.h`, `ctr_drbg.h` | none | forward to `psa_generate_random`; seed and reseed do nothing |
| Header bridges | the other headers | none | include chains and aliases |

How they interact: the macros of `pk.h` send legacy calls to `pk_rsa.c` and
`pk_ec.c`. A legacy caller gets the RSA context of a pk context
(`mbedtls_pk_rsa`) and changes it with the functions of `rsa_import_export.c`;
`mbedtls_rsa_complete` calls back into `pk_rsa.c`
(`mbedtls_v3_shim_pk_rsa_sync_bits_from_ctx`), which searches the cache for the
pk context that owns the RSA context and publishes the new key there, in `bits`
and `pub_raw`, because that is where the real v4 calls (verify) read it.

So one key exists in up to three places: the PSA slot, `pub_raw`/`bits`, and the
cached RSA context. What is hard is that

- they are filled at different times, by different calls, each guarded by "if it
  is not there yet" (`pk_rsa.c:239`, `:266`, `:374`);
- any allocation, PSA call or bignum operation may fail, at several points of one
  call, and leave a part of the work done;
- the cache is keyed by addresses the shim does not own, and entries must die
  with their pk context and not before;
- legacy code calls in any order, over several pk contexts, and RSA contexts are
  built in steps by the caller;
- nothing in the code is protected against two tasks, on a system (FreeRTOS)
  where applications have tasks.

What makes each part correct:

- *RSA construction*: a completion that succeeds leaves one whole key or a public
  key, with its `len`, however earlier imports failed.
- *RSA cache*: at most one entry per pk context and per RSA context; it owns
  exactly the allocated RSA contexts; an entry and the pointer in it stay until
  the pk context is freed, and no longer.
- *Synchronization*: `bits`, `pub_raw`, the PSA slot and the RSA context agree.
- *Legacy pk interface*: every call that uses a key uses the one that belongs to
  its pk context, as in v3, when materialization was not needed.
- *EC cache*: the same, and an empty key pair only for a pk context without key.
- *Writers*: the DER or PEM written parses as the key, or an error is returned.

## 2. Modules

| Module | What it is |
|---|---|
| `RsaContext` | operators for import, import_raw and complete: from an RSA context to the outcomes a call can have |
| `DeducePrimes` | the search of `rsa_deduce_primes` on numbers, step by step; its end is one of the outcomes that `RsaContext` has for the call |
| `KeyDup` | export, import and completion as a caller that duplicates a key uses them; uses `RsaContext` |
| `PkRsa` | the state machine of `pk_rsa.c` and of the wrappers of `pk.h` that lead to it; uses `RsaContext` |
| `LegacyPk` | the abstract specification: each pk context simply owns an RSA context |
| `PkRsaRefinement` | the mapping from `PkRsa` to `LegacyPk` and the property that the mapped behaviour is one of `LegacyPk` |
| `KeyWriter` | `PkRsa` with the writers of private keys and their buffers |
| `PkEc` | `PkRsa` with the EC cache of `pk_ec.c` on the same pk contexts |
| `Ecdh` | `PkEc` with `mbedtls_ecdh_compute_shared` on the key pairs it caches |
| `PkCacheTasks` | the linked list of a cache, one C statement at a time, with tasks that walk and change it |
| `PkCache` | the abstract specification of a cache: a map, on which each call takes effect in one step; `PkCacheTasks` implements it |
| `RsaContextProofs`, `PkRsaProofs`, `PkRsaKeyProofs`, `PkEcProofs`, `KeyDupProofs`, `KeyWriterProofs`, `PkCacheTasksProofs`, `DeducePrimesProofs` | theorems and proofs (section 4) |
| `MC...` | key lengths, numbers and symmetry sets for TLC |

### RsaContext

A context is a record of `mpi` (fields N, P, Q, D, E and CRT) and `len`. A number
is abstracted to the key it is a component of, `Zero` (not set), or `Junk`
(non-zero, of no key). The functions of the code test numbers only for being zero
and compute one component of a key from others, so nothing finer is needed to
follow which key a context holds. Consequences of the abstraction:

- two keys have no component in common (a shared public exponent would only make
  a mixed context look better than it is);
- DP, DQ and QP are one field, `Zero` unless all three are set:
  `mbedtls_rsa_complete` computes all three when any is missing;
- a computation on components of one key gives the component of that key; on
  mixed inputs it may fail or give `Junk`;
- an odd `Junk` number passes the tests of `rsa_check_context` and an even one
  does not, so both outcomes are there.

The order of the copies in an import, when `len` is set (after all copies in
`mbedtls_rsa_import`, right after N in `mbedtls_rsa_import_raw`), that what is
missing is decided once, before anything is deduced (`rsa_import_export.c:279-283`),
and what a failed `rsa_deduce_primes` leaves in P and Q, or a failed
`mbedtls_rsa_deduce_private_exponent` in D, are all kept. The two
imports take the values a caller passes as a function, so that `PkRsa` passes
components of one key and `KeyDup` passes what an export left. Each
operation returns the set of its outcomes; with `MayFail` the failures of
allocations and reads are among them.

### DeducePrimes

One call of `rsa_deduce_primes` with real numbers. `pc` says whether the call is
before the loops, at the next base (the outer loop), at the next squaring (the
inner loop), or has returned; the other variables are those of the code. `P` and
`Q` are also scratch space of the gcd and of `mbedtls_mpi_exp_mod`; a negative
number stands for what the latter leaves. Memory can run out in every step
(`OutOfMemory`), with P and Q as they are at that point. An action does the
calls between two tests of the loops at once; what a failure between them can
leave in P and Q is among the outcomes of `OutOfMemory`: after the gcd with a base
has put 1 into P, for instance, `mbedtls_mpi_exp_mod` can fail before it stores
R^2 in Q or after. The external gcd refuses an even N. The test that P and Q are
allocated (`rsa_import_export.c:125-127`) is left out: `mbedtls_rsa_complete` calls
the search only when both are zero, and what an empty number has allocated is not
modelled. The power of two in D * E - 1 is counted with `TwoTo`, a function and not
the operator `^`, because the provers know nothing of the latter. The reference definition of a key is `IsKey`: two odd primes, and E and
D inverse modulo each of them minus one.

### KeyDup

A caller builds or parses a key, exports it into numbers of its own, imports those
into a second context and completes it, in any order and again after failures. The
numbers of the caller stay what they are when a key is freed and another takes its
place, as buffers that are used again do. The caller takes numbers only from an
export that succeeded (`got`), does not use a context that could not be completed,
and exports a public key, or a key pair with all its components, as libssh does.

### PkRsa

| Variable | In the code |
|---|---|
| `pk[p]` | the pk context at address `p`: `type` (`pk_info`), `priv` (key in the slot `priv_id`), `pub` (key in `pub_raw`, `Null` when `pub_raw_len` is 0), `bits` |
| `heap[r]` | the RSA context allocated at address `r`, or `Free` |
| `cache` | the entries of `s_pk_rsa_cache`, without their order (no lookup depends on it while `CacheIsAMap` holds) |
| `out` | what the last call told its caller: which operation, on which pk context, and the key it used |

`psa_type`, which `pk_sync_pubkey_raw_from_rsa` also writes, is read by nothing in
the repository and left out.

Each action is a whole call: `Setup`, `Parse`, `PkRsa` (the macro
`mbedtls_pk_rsa`), `GetBitlen`, `Verify`, `Sign`, `Crypt` (encrypt and decrypt),
`WritePubkey` (`_der` and `_pem` have the same effect), `PkFree`, `Import`
(both functions), `Complete`; `LibraryFree` is the real `mbedtls_pk_free` reached
by code that does not include the shim's `pk.h`. `mbedtls_v3_shim_pk_rsa` is the
disjunction `ShimPkRsa`: a hit, a miss that succeeds, a materialization that fails
(an allocation, the writer, PSA or the parser), an insertion that fails. A call
on a pk context of another type than RSA returns at once in the code and is not an
action, except where it is a part of one (`GetBitlen`, `WritePubkey`, `PkFree`).
Calls are atomic: this is the behaviour for one task, or for callers that
serialise their calls.

What comes from outside the repository is modelled as the code uses it: the real
`mbedtls_pk_setup` refuses a context in use; `mbedtls_pk_parse_key` leaves a private
key in a slot, with or without its public key in `pub_raw`, or a public key in
`pub_raw`, and a key that is not RSA makes the pk context one of type "other"; the real `mbedtls_pk_write_key_der` writes private keys only;
`mbedtls_pk_verify` uses `pub_raw`, and `mbedtls_pk_sign` the key in the slot, without
which it fails. Parsed keys fit in `pub_raw`: the real parser
refuses others.

Three constants say what callers do:

| Constant | FALSE means |
|---|---|
| `Reimport` | a caller builds one key in the RSA context of a pk context, and does not import over the key of a parsed one |
| `Retry` | after a failed completion a caller frees the pk context |
| `LibraryFrees` | every free of a pk context that has a cache entry goes through the macro `mbedtls_pk_free` |

The key-agreement properties need some of them FALSE, and this is a fact about the code.
With one of them TRUE, on one pk context and one RSA address with three keys, all imports
and all failures, TLC finds:

| Property | `Reimport` | `Retry` | `LibraryFrees` |
|---|---|---|---|
| `CachedKeyIsPsaKey` | violated | holds | violated |
| `PublishedKeyIsContextKey`, `BitsAreModulusBits` | violated | violated | violated |
| `CompletedKeyIsPublished` | violated | violated | violated |
| `CompletedKeyIsCoherent` | violated | violated | holds |
| `PublicKeyIsKept` | violated | holds | violated |
| `ImplementsLegacyPk` | violated | violated | violated |
| `CompletionKeepsThePublicHalf` | holds | holds | holds |

Each "holds" is a theorem too: the theorem on the property assumes nothing of that
constant (section 4), so it assumes no more of callers than it needs.

The reasons in the code:

- with `Reimport`, `pub_raw` and `bits` keep the first key (`pk_rsa.c:239`, `:266`)
  while encrypt and decrypt use the second, and stale CRT components suppress the
  deduction of new ones (`rsa_import_export.c:311`);
- with `Retry`, `CompletedKeyIsCoherent` fails: a completion from N, D, E fails in
  `rsa_deduce_primes` and leaves scratch values in P and Q; the next completion
  finds P, Q, D and E set, deduces only the CRT components, and may return 0. The
  modulus and exponent that the caller put in are still there
  (`CompletionKeepsThePublicHalf`), unless another import empties them: a raw import of
  N that fails after such a completion leaves N empty, and the next completion
  computes a modulus of no key from P and Q and publishes it;
- with `LibraryFrees`, `EntriesAreLive` fails and a later key at the same address
  is answered with the RSA context of the earlier one (`pk_rsa.c:374-377`).

### LegacyPk and the refinement

`LegacyPk` has no cache, slot or `pub_raw`: `own[p]` is the RSA context of `p`, made
by `Setup` or `Parse`, changed by `Import` and `Complete`, dropped by `Release`; a
`Read` may fail, and when it uses a key, uses the one in `own[p]`.
`PkRsaRefinement` maps `own[p]` to the cached RSA context, or to what the slot or
`pub_raw` stands for as long as nothing is cached, and `out` to itself. So a
materialization, a failed one, and every synchronization must be invisible:
they may not change `own`, and every answer must be the one `own` gives.

### KeyWriter

`KeyWriter` adds to `PkRsa` the two writers of private keys and the variable
`written`: which writer ran last, on which pk context, what it returned and the
buffer (for PEM, what is inside the armor). A buffer is a sequence of bytes, and a
byte of a key is its field, the value of the field and its place in it, so that
positions, overlaps and truncations are those of the code while the encoding is
not: the tag, length and version bytes are one header byte, and a number takes as
many bytes as its size. The native writer can fail (PSA, memory); the one of the shim
fails only when the buffer is too short. The native writer leaves the key at the end of the buffer,
as `pk_rsa.c:159` relies on; `mbedtls_rsa_write_key_der` writes there too and then
copies it to the front (`MoveToFront`). What a call that fails leaves in the buffer
is not modelled.

### PkEc and Ecdh

`PkEc` extends `PkRsa`. A pk context that is EC has type "other" there; `ecOf[p]` adds
whether it is EC, the key in its slot and the key in `pub_raw`. `ecHeap` and `ecCache`
are the key pairs and the entries of `s_pk_ec_cache`. A number or a point of a pair is
abstracted to its key, and a group to a model value; `GroupOf[k] = NoGroup` is a key
on a curve that the build does not have. Actions of `PkRsa` that do the same for every
pk context are taken as they are (`RsaNext`); `Parse`, `PkFree` and `LibraryFree` are
extended with what they do to the EC part, and `PkEc` (the macro `mbedtls_pk_ec`),
`SetupEc` and `FillPair` (a caller fills the empty pair of a context it has set up)
are new. `materialize_ec` keeps the fall-back of the code: every failure to read the
key gives the empty pair, which is then cached.

`Ecdh` adds `ComputeShared`: a caller passes the pair that is cached for a pk context,
and some point, to `mbedtls_ecdh_compute_shared`. The external multiplication refuses
a pair without a group or number and points that are not on the curve; a point of
small order gives the zero point or another. A product of two keys is the set of the
two. `last` is the last such call, if the step before was one and it succeeded.

### PkCacheTasks and PkCache

`PkRsa` has the cache as a set that a call changes at once; `PkCacheTasks` has the list
with its pointers. `head` and `mem` are the list, `live` the key contexts, and
`task[t]` is where task `t` is, with its local variables: the cursor of a walk and the
link that leads to it (`prev`), the new entry. Steps are the statements that read or
write shared memory: a step of a walk reads one entry; `entry->next = s_pk_rsa_cache`
(`Link`) and `s_pk_rsa_cache = entry` (`Publish`) are two, and so are the unlinking and
the freeing in `cache_remove`. The link that a walk reads twice (`*cursor`, for the test
and for the entry) is read once: nothing changes it in between while calls do not overlap. Materialization is one step with the allocation of the
entry, since neither touches the list; what is in a key context is left out. The calls
are `mbedtls_pk_rsa` (get), `mbedtls_pk_free` (free) and the search that
`mbedtls_rsa_complete` makes by RSA context (sync). Two tasks are never in calls on
one pk context: nothing in mbedTLS allows that. A task whose next statement touches an
entry that was freed has no step: what C does then is not modelled. `Serial` says that
the calls of the tasks do not overlap. The list of `pk_ec.c` has the same code, without
the search by key context.

`PkCache` is the promise: a map from pk contexts to key contexts, and calls that begin,
take effect in one step and return. `PkCacheTasks` maps to it by reading the map off the
list (`Cached`); a call takes effect when its result is known or its entry is unlinked.

## 3. Runs

All run with 2 workers and, but for `deduce_primes`, with deadlock checking on.

| Run | Instance | What it shows |
|---|---|---|
| `pkrsa_build` | 1 pk context, 1 RSA address, keys of 15 bits and of 32 bits (too long for `pub_raw`), all four ways to import a key, everything may fail | all properties on one pk context: 6,770 states |
| `pkrsa_share` | 3 pk contexts, 2 RSA addresses, 2 keys, no failures but running out of addresses, `MBEDTLS_PK_WRITE_C` not defined | contexts do not disturb each other: 20,420 states up to symmetry |
| `pkrsa_encrypt_public` | 1 pk context, 1 key, no failures | a violation: see section 5 |
| `pkrsa_sign` | 1 pk context, 1 key, no failures | a violation: see section 5 |
| `key_writer` | 1 pk context, 1 RSA address, keys whose DER takes half of the PEM writer's buffer (22 bytes here), more than half, and more than all of it; buffers for DER of 10, 11, 18 and 30 bytes, so that a key does not fit, fits exactly, and has room; all four ways to import a key, everything may fail, `Retry` | writers, and what is left of a key after completions that failed: 141,751 states |
| `key_writer_pem` | the same, two keys | a violation: see section 5 |
| `pk_ec` | 2 pk contexts, 1 RSA key and address, 2 EC keys (one on a curve the build does not have), 2 key pairs, everything may fail; runs `Ecdh` | RSA and EC keys in turn at the same addresses: 53,182 states |
| `any_caller` | 2 pk contexts, 2 RSA addresses, 2 key pairs, 1 key of each kind, `Reimport`, `Retry`, `LibraryFrees`; runs `Ecdh` | ownership of key pairs does not depend on well-behaved callers: 248,235 states up to symmetry |
| `pk_cache_serial` | 2 tasks, 3 pk contexts, 3 key contexts, 3 entries, calls do not overlap | the list is right, ends its walks, and is a map: 30,316 states |
| `pk_cache_tasks` | 2 tasks, 2 of each, calls on different pk contexts overlap | a violation: see section 5 |
| `deduce_primes` | every E and D for the moduli 0, 9, 12, 15, 21, 25, 33 and 45, and the keys with moduli 77, 91, 119, 161 and 209 for six exponents | the search ends with the right answer: 23,977 states |
| `key_dup` | 2 keys of different length, three ways to import and two to export, everything may fail | duplicates are the key: 805,260 states |

`deduce_primes` has deadlock checking off because a call that returned has no step.

Why the bounds are enough: the code compares addresses and tests numbers for
zero; it has no counters. One pk context meets every order of calls and
failures (`pkrsa_build`); two are needed for a call on one to hit the entry of
the other, and a third with two RSA addresses makes allocation fail while
others hold theirs (`pkrsa_share`). A list needs three entries so that one is at
the head, one in the middle and one at the end (`pk_cache_serial`); the race needs two
tasks and two pk contexts. Two keys are needed to see a wrong one. The
lengths are chosen so that a modulus does not fill its last byte (15 bits), so
that a byte length taken for a bit length shows, and so that one key does not fit
in `pub_raw` (`PubRawMaxBits` = 24). `MpiMaxSize` = 4 bytes lets all keys pass
`rsa_check_context`.

In `deduce_primes` the list of bases is cut from 54 primes to 2, 3, 5, because a
base must be smaller than N, and the moduli are chosen by kind: zero, even, a
square, with two and with three factors, with factors among the bases and without,
equal to 1 modulo 8 (which skips the first base) and not. That 54 bases are enough for
real keys cannot be checked this way: a random base fails with a probability of at
most one half, whatever the key. What is checked, and proved, is that the search loses no factor a base
would give.

*Fairness.* `PkCacheTasks` states weak fairness of the statements of each task
(`Statement`), and `DeducePrimes` of its next step: C code that is in a function
goes on until it returns, and the scheduler of FreeRTOS runs every task that is ready
at the priorities applications give them. Beginning a call has no fairness: callers
may stop calling. Liveness is `CallsReturn`, `Returns` and the fairness of `PkCache`
in `ImplementsPkCache`. The other modules take a call as one step and have nothing
to wait for.

Properties (each is stated above its definition):

| Property | Hazard |
|---|---|
| `CacheIsAMap`, `HeapIsTheCache` | leaks, double frees and dangling entries on failure paths |
| `EntriesAreLive`, `EntryStaysUntilFree`, `TemplatesAreCached` | entries that die too late, too early, or were never made |
| `CachedKeyIsPsaKey`, `PublishedKeyIsContextKey`, `BitsAreModulusBits` | the copies of one key disagree |
| `CompletedKeyIsPublished`, `CompletedKeyIsCoherent` | a completion that succeeds with a wrong key, or tells nobody |
| `CompletionKeepsThePublicHalf` | a completion on what a failed one left spoils the key that was imported |
| `PublicKeyIsKept` | `pub_raw` is emptied and not refilled |
| `ImplementsLegacyPk` | a call uses another key than the one its pk context stands for |
| `EcPairsAreOwned`, `EcKeyStaysUntilFree` | the same ownership for key pairs |
| `EntriesMatchKind`, `RsaPartIsPkRsa` | two caches on one address: an entry of the other kind answers, or one cache breaks the other |
| `PairIsOfTheKeyOrEmpty`, `SecretIsOfTheKey` | a pair from which a failure took a half, or of a key that was there before, and the secrets computed with it; points of small order |
| `NoFreedAccess`, `NothingLeaks`, `PointersStayCached` | the list loses entries, keeps freed ones or frees twice |
| `ImplementsPkCache`, `CallsReturn` | the walks answer wrongly or do not end |
| `FactorsAreFactors`, `KeysAreFactored`, `KIsThePower`, `Returns` | the search for primes takes 1 or N for a factor, misses one, or does not end |
| `OutcomeOfRsaContext` | `RsaContext` leaves out what a failed search leaves in P and Q |
| `ExportedKeyIsWhole`, `DuplicateIsTheKey` | exports and imports that failed half way make a key of two |
| `DerHoldsThePsaKey`, `PemHoldsShortKey` | a key is written in part, from the wrong place, or depending on what was cached |

## 4. Proofs

All theorems are about every value of the constants: any sets of pk contexts, keys,
curves, addresses and tasks, any sizes, any list of bases, with and without failures.
They assume only the named assumptions of the models (the special values differ from
keys and addresses, key lengths are positive, bases are primes) and, where the table
says so, what callers do. `S` below is the specification of the module proved about.

| Module | Theorem | Statement | Callers |
|---|---|---|---|
| `RsaContextProofs` | `CompletionOfOneKey` | a completion of components of one key gives the key, its public half, or an error | |
| | `CompletionInventsNoKey` | a completion of components of one key and of no key leaves nothing of another key, and E and N as they were | |
| `PkRsaProofs` | `TypeCorrect` | `S => []TypeOK` | any |
| | `LookupsAreUnambiguous` | `S => []CacheIsAMap` | any |
| | `NoLeakNoDangling` | `S => []HeapIsTheCache` | any |
| | `PointersAreStable` | `S => EntryStaysUntilFree` | any |
| | `NoTemplateIsForgotten` | `S => []TemplatesAreCached` | any |
| | `EntriesDieWithTheirContext` | `S => []EntriesAreLive` | `~LibraryFrees` |
| `PkRsaKeyProofs` | `PsaKeyIsCached` | `S => []CachedKeyIsPsaKey` | `~Reimport`, `~LibraryFrees` |
| | `PublishedKeyIsCached` | `S => []PublishedKeyIsContextKey` | one key |
| | `BitsAreOfTheModulus` | `S => []BitsAreModulusBits` | one key |
| | `CompletionPublishes` | `S => []CompletedKeyIsPublished` | one key |
| | `PublicHalfStays` | `S => CompletionKeepsThePublicHalf` | any |
| | `CompletionIsCoherent` | `S => []CompletedKeyIsCoherent` | `~Reimport`, `~Retry` |
| | `PublishedKeyStays` | `S => PublicKeyIsKept` | `~Reimport`, `~LibraryFrees` |
| | `MaterializationIsInvisible` | `S => ImplementsLegacyPk` | one key |
| `PkEcProofs` | `EcTypeCorrect` | `S => []EcTypeOK` | any |
| | `NoEcLeakNoDangling` | `S => []EcPairsAreOwned` | any |
| | `EcKeysAreStable` | `S => EcKeyStaysUntilFree` | any |
| | `CachesMatchKinds` | `S => []EntriesMatchKind` | `~LibraryFrees` |
| | `PairsAreOfTheKey` | `S => []PairIsOfTheKeyOrEmpty` | `~LibraryFrees` |
| | `SecretsAreOfTheKey` | `S => []SecretIsOfTheKey` | `~LibraryFrees` |
| | `RsaPartRefines` | `S => RsaPartIsPkRsa` | `~LibraryFrees` |
| | `RsaKeysStayBesideEc` | `S => []CachedKeyIsPsaKey /\ PublicKeyIsKept` | `~Reimport`, `~LibraryFrees` |
| | `LegacyPkBesideEc` | `S => ImplementsLegacyPk`, and the properties of what is published | one key |
| `KeyDupProofs` | `DupTypeCorrect` | `S => []TypeOK` | any |
| | `ExportIsWhole` | `S => []ExportedKeyIsWhole` | any |
| | `DuplicateIsSound` | `S => []DuplicateIsTheKey` | any |
| `KeyWriterProofs` | `PemIsRightForShortKeys` | `S => []PemHoldsShortKey` | any |
| | `DerIsThePsaKey` | `S => []DerHoldsThePsaKey` | `~Reimport`, `~LibraryFrees` |
| `PkCacheTasksProofs` | `ListTypeCorrect` | `S => []TypeOK` | `Serial` |
| | `WalksTouchNothingFreed` | `S => []NoFreedAccess` | `Serial` |
| | `ListLeaksNothing` | `S => []NothingLeaks` | `Serial` |
| | `PointersAreKept` | `S => []PointersStayCached` | `Serial` |
| | `ListImplementsTheMap` | `S` implements `PkCache`, its fairness apart | `Serial` |
| | `WalksEnd` | every statement of a call decreases a natural number, for finitely many addresses | `Serial` |
| `DeducePrimesProofs` | `SearchTypeCorrect` | `S => []TypeOK` | any |
| | `FactorsAreOfTheModulus` | `S => []FactorsAreFactors` | any |
| | `PowersAreRight` | `S => []KIsThePower` | any |
| | `SearchIsAStepOfRsaContext` | `S => []OutcomeOfRsaContext` | any |
| | `SearchMissesNothing` | `S => []FinderInv` | any |
| | `KeysAreNotRefused` | for a key, K is 1 when the squarings of a base end | any |
| | `SeparatedKeysAreFactored` | `S => [](SomeBaseSeparates => KeysAreFactored)` | any |
| | `FactoredKeysAreSeparated` | `SomeBaseSeparates` in every state where a key has been factored | any |
| | `SearchEnds` | every step decreases a natural number | any |

"One key" is `CallersBuildOneKey == ~Reimport /\ ~Retry /\ ~LibraryFrees`: a caller
builds one key per pk context, frees it when a completion failed, and frees it through
the macro. The table in section 2 says which of the three each property needs. `Serial`
says that calls do not overlap; run `pk_cache_tasks` shows `PointersStayCached`
violated without it. `EntriesAreLive`, and with it what `PkEcProofs` says of kinds, fails
when pk contexts are freed behind the back of the shim.

### Ownership of RSA contexts (`PkRsaProofs`)

The inductive invariant `IInv` is type correctness together with `CacheIsAMap` and
`HeapIsTheCache`; none of the three is inductive alone. A hit synchronizes from
the RSA context of an entry, which is a context and not `Free` only by
`HeapIsTheCache`; that survives `cache_remove` because no other entry has the same
RSA context (`CacheIsAMap`); and `CacheIsAMap` survives a miss because a free
address has no entry (`HeapIsTheCache`). `TemplatesAreCached` and `EntriesAreLive`
are then proved on top of `IInv`, from two frame lemmas that say what a lookup and
a setup leave alone.

### Agreement of the copies of a key (`PkRsaKeyProofs`)

`KeyInv` adds to `IInv` that all copies of the key of a pk context, as far as they are
filled in, are of one key k: the RSA context (`CleanButScratch`: components of k, and
possibly scratch values in P, Q and D after a completion that failed), `pub_raw`, `bits` and
the slot. The properties are weaker than that and none is inductive: that `pub_raw` may
stay as it is when it is not empty is right only because it is of the k that the RSA
context is going to have. The step that carries the proof is a completion:
`CompletionOfOneKey` in `RsaContextProofs` says, for every way to have a part of k, that a
completion that succeeds gives the whole of k or its public half, and one that fails
leaves scratch values in P, Q and D only.

`PublicHalfStays` needs no invariant but `IInv`: whatever numbers a context has, of one key, of
several or of none, no step of a completion writes N or E when they are there.

Three properties hold for more callers, with invariants of their own. Each is weaker than
`KeyInv` where these callers break it:

- the key in a slot (`PsaKeyIsCached`): a caller who goes on after failed completions can
  have `Junk` only in a context that it builds, and such a context has no slot;
- one key per RSA context (`ContextsAreOfOneKey`, for `CompletionIsCoherent`): a free behind
  the back of the shim leaves an entry for a pk context that is gone, but the RSA context
  in it is still of the one key that was put into it;
- a published key (`PublishedInv`, for `PublishedKeyStays`): the RSA context has components
  of no other key than the published one, and when what was published is of no key, its N and
  E are still there, so that the synchronization refills what it empties.
  `CompletionInventsNoKey` carries the step: a second attempt on what a failed completion
  left may succeed with numbers of no key, but does not change N and E.

`MaterializationIsInvisible` is the refinement of `LegacyPk`, step by step: `own` of the
mapping does not change in a materialization, a failed one or a synchronization, because
what is cached is by `KeyInv` what the slot stood for; `Import` and `Complete` change it
as `LegacyPk` does; and the key of each answer is the key of `own`, because the places
an answer can be read from agree.

### Key pairs and the two caches together (`PkEcProofs`)

`EcInv` (`IInv`, `EcTypeOK` and `EcPairsAreOwned`) is inductive for all callers. The kinds
need `KindInv`: besides `EntriesAreLive` for both caches, a pk context that is not in use
is fresh, so that one that is set up again brings nothing of its earlier key with it; and
each cached pair is empty or has what the pk context has of the key, and each secret is
of the key, at once, since a secret is read off a pair. `RsaPartRefines` shows that each EC call is a stutter of `PkRsa`
or one of its steps. By it the theorems on `PkRsa` hold beside the EC cache;
`RsaKeysStayBesideEc` and `LegacyPkBesideEc` state them there.

### Duplicates (`KeyDupProofs`)

`DupInv` says what a caller may rely on at each point: what it built is of the key, what an
export gave is of the key and complete if it is private, and what was imported into the
duplicate so far is of the key with no CRT components. The last of these is what makes
`CompletionOfOneKey` applicable: a mixed context would not satisfy it.

### Writers (`KeyWriterProofs`)

What the writers do to a buffer is proved for any sequence of bytes, from the lemmas on
`SubSeq` and concatenation there, so the encoding does not matter: the last bytes of
a buffer survive the move to the front when the key takes at most half of it. `WriterInv`
adds to `IInv` that what `written` says is still true of the key of its pk context, because
every action that could change the key forgets it.

### The list (`PkCacheTasksProofs`)

`ListInv` has three parts: the entries that a walk from the head visits form a list (each
has one predecessor at most, and the head none); keys, key contexts and entries
correspond one to one, except for the entry or context that a call in progress has in its
hands; and each frame is what the list justifies (`FrameOK`: the cursor is in the list,
`prev` is its predecessor, what was passed has not matched). A set is reached from the head
when every set closed under `next` holds it; the proofs use that characterization instead of
an induction on the length of the list. `ListImplementsTheMap` maps each statement to a
step of `PkCache` or to a stutter: the effect is at the write of the head or of `prev->next`,
and a walk that finds nothing is right because the part it passed has no match.

`WalksEnd` is about the number `ToGo`: the entries that a walk can still visit (`From` its
cursor) and the statements after it. A step to the next entry visits fewer, because the
entry it left is not among them: the list has no cycle (`NoWayBack`), since the head has no
predecessor and every other entry one at most.

### The search for primes (`DeducePrimesProofs`)

`SearchInv` is the type invariant with `FactorsAreFactors` and `KIsThePower`. The step is
that the square of a to the power of t is a to the power of 2t modulo N
(`ExpModSquares`), and that a divisor of N that is neither 1 nor N gives two factors (with
`GcdDivides`). `OutcomeInv` says what a failure leaves in P and Q at every point; for a
real key (`IsRealKey`: two odd primes, none of them a base), factors found are the primes in some order (`FactorsOfTwoPrimes`, from
Euclid's lemma). The functions of this module are recursive. That they exist, and so
satisfy their definitions, and what they compute is proved by the least number principle,
which is a theorem of the library about sets (`WFMin`) and takes the place of induction:
the least number that breaks a claim is shown not to.

When the search finds the primes of a key is proved in two halves. A base *separates* the
primes of N when some power of it is a square root of 1 modulo N other than 1 and -1.
`SeparatedKeysAreFactored` says that a key with such a base in the list is factored: D * E - 1
is a multiple of p - 1 and of q - 1, so the squarings of a base that is coprime to N end in
1 (modulo a prime, the order of the base divides the prime minus one: `CosetIsClosed`,
`Fermat`), and no key is refused for not doing so (`KeysAreNotRefused`); if some power of
the base separates, so does the last of the squarings that is not 1; and a square root of 1
that is neither 1 nor -1 has, with one added, a factor in common with N. `FinderInv` says
at each point of the loops what has been ruled out so far.
`FactoredKeysAreSeparated` is the converse: a factor is found in no other way, so
`SomeBaseSeparates` asks for no more than is needed. Each key of the run `deduce_primes` has a
separating base. `SearchEnds` counts the squarings and bases that are left.

### What is only model-checked

- `KeysAreFactored` without a condition: that one of the bases of the list separates the
  primes of every key is a matter of number theory and of chance (each base fails with a
  probability of at most one half), and not a consequence of the code. It is checked for the keys of
  `deduce_primes`, and proved for keys that have a separating base.
- Liveness: `CallsReturn`, `Returns`, and the fairness of `PkCache` in `ImplementsPkCache`. That
  a call cannot go on forever is proved (`WalksEnd`, `SearchEnds`), and that no statement of
  a walk is stuck at a freed entry (`WalksTouchNothingFreed`); that a statement which can be executed
  is executed is the fairness, of which the prover knows nothing.
- The four violations of section 5.

`any_caller` does not repeat the ownership properties of the RSA cache, which are proved for
every caller.

## 5. Findings

- `mbedtls_pk_encrypt` on a parsed public key returns
  `MBEDTLS_ERR_PK_BAD_INPUT_DATA`, although the comment at `src/pk_rsa.c:466-468`
  says that it works for public-only pk contexts: `materialize_rsa` has no way to
  make an RSA context from `pub_raw` (run `pkrsa_encrypt_public`).
- `mbedtls_pk_write_key_pem` on a materialized key whose DER is longer than 2048
  bytes (RSA-4096) returns 0 and a PEM that is not the key: `mbedtls_rsa_write_key_der`
  moves the DER to the front of the buffer (`rsa_import_export.c:464`), and
  `pk_rsa.c:594` takes it from the end, where the move has overwritten its beginning
  (run `key_writer_pem`). Shorter keys come out right, because the move is a copy
  (`PemHoldsShortKey`). A caller of `mbedtls_pk_write_key_der` cannot know at which end
  of its buffer the key is: `DerHoldsThePsaKey` has to look whether it was cached.
- `mbedtls_pk_sign` on a private key that was imported and completed fails, although
  verify, encrypt and decrypt work: the macro forwards to the real call
  (`src/mbedtls/pk.h:81`), which needs the PSA slot, and an imported key never gets one
  (run `pkrsa_sign`). The first sentence of the README promises that code for v3 runs.
- Two tasks that materialize keys of different pk contexts at the same time can lose
  one of the two entries: the head of the list is read at `src/pk_rsa.c:95` and written
  at `:96` with nothing in between to keep the other task out (run `pk_cache_tasks`).
  An imported key is gone with it. `src/pk_ec.c:84-85` has the same two lines.

Three more were met while `PkEc` was written and have no run of their own. The
README lists as a limitation that `mbedtls_pk_ec()` is not materialized, and
`src/pk_ec.c` does materialize it. And a failure to materialize an EC key (memory, PSA)
is answered with an empty key pair instead of `NULL` (`src/pk_ec.c:233`), which stays
cached until the pk context is freed; `SecretIsOfTheKey` shows that no shared secret
comes of it. And a private key that was parsed while `pub_raw` stayed empty gives a key pair
with the private number and no public point (`src/pk_ec.c:129-131`): what it gives is
right (`PairIsOfTheKeyOrEmpty`), and no document promises the point.

## 6. Not modelled

- `mbedtls_rsa_export_crt` writes buffers of the caller from fields that `RsaContext`
  has as one; no property would see it.
- The random number stubs have no state and are one step each, and the header bridges
  have no behaviour.
- Copies of a pk context (`pk.h:236` takes the address of its argument, so a copy has
  an entry of its own): nothing in the repository says what a copy may be used for, and
  mbedTLS v4 gives copies that share a PSA slot no meaning.
- Padding, hashes and wording of errors; `MBEDTLS_RSA_NO_CRT`; `psa_type`; what the
  program does after it touched freed memory.
- In `PkCacheTasks`, reorderings of a weakly ordered memory: the targets are small
  systems, and without a lock the order of the program is bad enough.

## 7. Plan

What is left:

1. shorter proofs: the steps of `PkCacheTasksProofs` that the invariant and the refinement
   have in common;
2. the list of `pk_ec.c` as an instance of `PkCacheTasks`: it has the same statements but for
   the release of the key pair, and the same missing lock;
3. `PkRsa` with calls of two tasks that overlap, once the code has a lock to model.

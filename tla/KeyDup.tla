------------------------------- MODULE KeyDup --------------------------------
(***************************************************************************)
(* Duplicating an RSA key the way legacy code does (pki_key_dup in         *)
(* README.md): mbedtls_rsa_export or _raw from one RSA context into the    *)
(* numbers of the caller, mbedtls_rsa_import or _raw into another,         *)
(* mbedtls_rsa_complete there.  What a failed call left behind stays in    *)
(* the numbers of the caller and in the contexts.                          *)
(***************************************************************************)
EXTENDS RsaContext

CONSTANTS
  Imports,   \* sets of components that callers import together
  Exports    \* sets of components that callers export together

ASSUME KeyDupAssumption == Imports \cup Exports \subseteq SUBSET Part

VARIABLES
  key,     \* the key that the caller is duplicating
  ctx,     \* the RSA contexts: that of the key and that of its duplicate
  state,   \* how far each has come
  given,   \* the numbers of the caller
  got      \* the components that the last export gave, by its return value

vars == <<key, ctx, state, given, got>>

Side == {"key", "dup"}

NoNumbers == [f \in Part |-> Zero]

PublicCtx(k) ==
  [mpi |-> [f \in Field |-> IF f \in {"N", "E"} THEN k ELSE Zero], len |-> Size(k)]

-----------------------------------------------------------------------------
(* Export.                                                                 *)

\* Mutant: a key pair is a key pair without its primes.
PrivWithoutPrimes(c) == \A f \in {"N", "D", "E"} : Have(c, f)

is_priv(c) == \A f \in Part : Have(c, f)

\* Mutant: the numbers that were not asked for are lost.
TakenAlone(c, F, b) == [f \in F |-> c.mpi[f]]

\* What the caller has after the components F of c were copied.
Taken(c, F, b) == [f \in Part |-> IF f \in F THEN c.mpi[f] ELSE b[f]]

Gave(b)    == [given |-> b, ok |-> TRUE]
GaveUp(b)  == [given |-> b, ok |-> FALSE]

\* Mutant: the result of a copy is not looked at.
ExportIgnoresFailure(c, S, b) ==
  IF ~is_priv(c) /\ S \cap {"P", "Q", "D"} # {}
    THEN {GaveUp(b)}
    ELSE {Gave(Taken(c, S, b))} \cup {Gave(Taken(c, S \ {f}, b)) : f \in S}

\* mbedtls_rsa_export and mbedtls_rsa_export_raw on c, when the caller has b.
\* A copy may fail for lack of memory, a raw one because a buffer is short.
rsa_export(c, S, b) ==
  IF ~is_priv(c) /\ S \cap {"P", "Q", "D"} # {}
    THEN {GaveUp(b)}
    ELSE {Gave(Taken(c, S, b))} \cup {GaveUp(Taken(c, Before(S, f), b)) : f \in S}

-----------------------------------------------------------------------------
Init ==
  /\ key \in Key
  /\ ctx = [s \in Side |-> EmptyCtx]
  /\ state = [s \in Side |-> "filling"]
  /\ given = NoNumbers
  /\ got = {}

Become(s, c, st) ==
  /\ ctx' = [ctx EXCEPT ![s] = c]
  /\ state' = [state EXCEPT ![s] = st]

ImportInto(s, values, S) ==
  /\ state[s] = "filling"
  /\ \E o \in mbedtls_rsa_import(ctx[s], values, S)
                \cup mbedtls_rsa_import_raw(ctx[s], values, S) :
       Become(s, o.ctx, "filling")
  /\ UNCHANGED <<key, given, got>>

\* The caller builds the key.
Import == \E S \in Imports : ImportInto("key", PartsOf(key), S)

\* mbedtls_pk_rsa makes the RSA context of a key that was parsed.
Materialize ==
  /\ ctx["key"] = EmptyCtx
  /\ Become("key", PrivateCtx(key), "complete")
  /\ UNCHANGED <<key, given, got>>

\* The caller does not use a context that could not be completed.
Complete(s) ==
  /\ state[s] # "failed"
  /\ \E o \in mbedtls_rsa_complete(ctx[s]) :
       Become(s, o.ctx, IF o.ok THEN "complete" ELSE "failed")
  /\ UNCHANGED <<key, given, got>>

\* The caller takes the numbers only when the export succeeds.
Export ==
  /\ state["key"] # "failed"
  /\ \E S \in Exports : \E o \in rsa_export(ctx["key"], S, given) :
       /\ given' = o.given
       /\ got' = IF o.ok THEN S ELSE {}
  /\ UNCHANGED <<key, ctx, state>>

\* A duplicate that failed half way is tried again on what it left.
ImportCopy == got # {} /\ ImportInto("dup", given, got)

\* mbedtls_rsa_free of both; the numbers of the caller stay what they are.
StartOver ==
  /\ key' \in Key
  /\ ctx' = [s \in Side |-> EmptyCtx]
  /\ state' = [s \in Side |-> "filling"]
  /\ got' = {}
  /\ UNCHANGED given

Next ==
  \/ Import \/ Materialize \/ Export \/ ImportCopy \/ StartOver
  \/ \E s \in Side : Complete(s)

Spec == Init /\ [][Next]_vars

-----------------------------------------------------------------------------
(* Properties.                                                             *)

TypeOK ==
  /\ key \in Key
  /\ ctx \in [Side -> Ctx]
  /\ state \in [Side -> {"filling", "complete", "failed"}]
  /\ given \in [Part -> Value]
  /\ got \in SUBSET Part

\* An export of private components that succeeds gives them all of the one key,
\* whatever exports that failed left in the numbers of the caller before.
ExportedKeyIsWhole == "D" \in got => \A f \in got : given[f] = key

\* A duplicate that mbedtls_rsa_complete accepts is the key it was made of, the
\* whole of it or its public half with nothing else, however many exports,
\* imports and completions failed before.
DuplicateIsTheKey ==
  state["dup"] = "complete" => ctx["dup"] \in {PrivateCtx(key), PublicCtx(key)}
=============================================================================

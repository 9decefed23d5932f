---------------------------- MODULE KeyDupProofs ----------------------------
(***************************************************************************)
(* A duplicate of an RSA key is that key, for any set of keys and whatever *)
(* the callers import and export together.                                 *)
(***************************************************************************)
EXTENDS KeyDup, RsaContextProofs

\* What the caller builds the key from is of the key.
KeyIsClean == state["key"] # "failed" => Clean(ctx["key"], key)

\* The numbers that the last export gave are of the key, and none is missing
\* when one of them is private.
GivenIsOfTheKey ==
  /\ \A f \in got : given[f] \in {key, Zero}
  /\ got \cap {"P", "Q", "D"} # {} => \A f \in got : given[f] = key

\* What an import put into the duplicate is of the key, and leaves CRT alone.
DuplicateIsClean ==
  state["dup"] = "filling" => /\ Clean(ctx["dup"], key)
                              /\ ctx["dup"].mpi["CRT"] = Zero

DupInv ==
  /\ TypeOK
  /\ KeyIsClean /\ GivenIsOfTheKey /\ DuplicateIsClean /\ DuplicateIsTheKey

-----------------------------------------------------------------------------
(* What the calls return.                                                  *)

\* The two ways in which a duplicate is complete are ways to be a context of
\* the key that a further completion cannot spoil.
LEMMA CompleteContexts ==
  ASSUME NEW k \in Key
  PROVE  /\ PrivateCtx(k) \in Ctx /\ PublicCtx(k) \in Ctx
         /\ Clean(PrivateCtx(k), k) /\ Full(PrivateCtx(k))
         /\ Clean(PublicCtx(k), k) /\ PublicCtx(k).mpi["CRT"] = Zero
<1>1. k \in Value /\ Zero \in Value /\ Size(k) \in Nat
  BY SizeType DEF Value
<1>2. PublicCtx(k) \in Ctx
  BY <1>1 DEF PublicCtx, Ctx
<1>3. Clean(PublicCtx(k), k) /\ PublicCtx(k).mpi["CRT"] = Zero
  BY DEF Clean, PublicCtx, Field, Part
<1> QED
  BY <1>2, <1>3, NewContextTypes, PrivateIsFull

\* mbedtls_rsa_complete, when it succeeds on numbers of k without DP, DQ and QP
\* or on the whole of k, makes the whole of k or its public half.
LEMMA CompletionMakesTheKey ==
  ASSUME NEW c \in Ctx, NEW k \in Key, Clean(c, k),
         Full(c) \/ c.mpi["CRT"] = Zero,
         NEW o \in mbedtls_rsa_complete(c), o.ok
  PROVE  o.ctx \in {PrivateCtx(k), PublicCtx(k)}
<1> DEFINE d == o.ctx
<1>1. Coherent(d, k) /\ Deduced(c, k, d)
  BY CompletionOfOneKey
<1>2. /\ d \in Ctx /\ d.mpi["N"] = k /\ d.mpi["E"] = k /\ d.len = Size(k)
      /\ \/ \A f \in Field : d.mpi[f] = k
         \/ \A f \in {"P", "Q", "D"} : d.mpi[f] = Zero
  BY <1>1 DEF Coherent, Deduced
<1>3. CASE \A f \in Field : d.mpi[f] = k
  BY <1>2, <1>3 DEF PrivateCtx, Ctx
<1>4. CASE \A f \in {"P", "Q", "D"} : d.mpi[f] = Zero
  <2>1. k # Zero
    BY RsaContextAssumption
  <2>2. ~IsPriv(c) /\ d = c
    BY <1>1, <1>4, <2>1 DEF Deduced, Field, Part
  <2>3. c.mpi["CRT"] = Zero
    BY <2>2 DEF Full, Field, Part, IsPriv, NMissing
  <2> QED
    BY <1>2, <1>4, <2>2, <2>3 DEF PublicCtx, Ctx, Field, Part
<1> QED
  BY <1>2, <1>3, <1>4

\* An export gives numbers of the context or keeps those of the caller.  When
\* it succeeds it gives all of them, and private ones only of a whole key.
LEMMA ExportOutcomes ==
  ASSUME NEW c \in Ctx, NEW S \in SUBSET Part, NEW b \in [Part -> Value],
         NEW o \in rsa_export(c, S, b)
  PROVE  /\ o.given \in [Part -> Value]
         /\ o.ok => /\ \A f \in S : o.given[f] = c.mpi[f]
                    /\ S \cap {"P", "Q", "D"} # {} => \A f \in S : Have(c, f)
<1>1. ASSUME NEW F \in SUBSET Part
      PROVE  /\ Taken(c, F, b) \in [Part -> Value]
             /\ \A f \in F : Taken(c, F, b)[f] = c.mpi[f]
  BY DEF Taken, Ctx, Field
<1>2. CASE o = GaveUp(b)
  BY <1>2 DEF GaveUp
<1>3. ASSUME NEW f \in S, o = GaveUp(Taken(c, Before(S, f), b))
      PROVE  o.given \in [Part -> Value] /\ ~o.ok
  BY <1>1, <1>3, BeforeType DEF GaveUp
<1>4. CASE /\ o = Gave(Taken(c, S, b))
           /\ is_priv(c) \/ S \cap {"P", "Q", "D"} = {}
  BY <1>1, <1>4 DEF Gave, is_priv
<1> QED
  BY <1>2, <1>3, <1>4 DEF rsa_export

-----------------------------------------------------------------------------
\* No completion was made of an empty context, nor anything given of it.
LEMMA DupInit ==
  ASSUME Init
  PROVE  DupInv
<1>1. EmptyCtx \in Ctx /\ Zero \in Value
  BY NewContextTypes DEF Value
<1>2. Clean(EmptyCtx, key) /\ EmptyCtx.mpi["CRT"] = Zero
  BY DEF Clean, EmptyCtx, Field
<1>3. TypeOK
  BY <1>1 DEF Init, TypeOK, NoNumbers, Side
<1> QED
  BY <1>2, <1>3 DEF Init, DupInv, KeyIsClean, GivenIsOfTheKey, DuplicateIsClean,
                    DuplicateIsTheKey, Side

\* A step that leaves the numbers of the caller alone, and of the contexts only
\* changes that of s.
LEMMA DupBecome ==
  ASSUME DupInv, NEW s \in Side, NEW c \in Ctx,
         NEW st \in {"filling", "complete", "failed"}, Become(s, c, st),
         UNCHANGED <<key, given, got>>,
         s = "key" /\ st # "failed" => Clean(c, key),
         s = "dup" /\ st = "filling" => Clean(c, key) /\ c.mpi["CRT"] = Zero,
         s = "dup" /\ st = "complete" => c \in {PrivateCtx(key), PublicCtx(key)}
  PROVE  DupInv'
<1> USE DEF DupInv
<1>1. TypeOK'
  BY DEF TypeOK, Become
<1>2. /\ \A t \in Side : ctx'[t] = IF t = s THEN c ELSE ctx[t]
      /\ \A t \in Side : state'[t] = IF t = s THEN st ELSE state[t]
  BY DEF TypeOK, Become
<1>3. KeyIsClean'
  BY <1>2 DEF KeyIsClean, Clean, Side
<1>4. GivenIsOfTheKey'
  BY DEF GivenIsOfTheKey
<1>5. DuplicateIsClean'
  BY <1>2 DEF DuplicateIsClean, Clean, Side
<1>6. DuplicateIsTheKey'
  <2>1. /\ PrivateCtx(key)' = PrivateCtx(key)
        /\ PublicCtx(key)' = PublicCtx(key)
    BY Zenon
  <2> QED
    BY <1>2, <2>1 DEF DuplicateIsTheKey, Side
<1> QED
  BY <1>1, <1>3, <1>4, <1>5, <1>6

\* Every step preserves the invariant.
LEMMA DupNext ==
  ASSUME DupInv, [Next]_vars
  PROVE  DupInv'
<1> USE DEF DupInv
<1>0. /\ key \in Key /\ given \in [Part -> Value]
      /\ \A s \in Side : ctx[s] \in Ctx
      /\ got \in SUBSET Part
      /\ \A S \in Imports \cup Exports : S \in SUBSET Part
      /\ "key" \in Side /\ "dup" \in Side
  BY KeyDupAssumption DEF TypeOK, Side
<1>1. ASSUME NEW s \in Side, NEW values \in [Part -> Value], NEW S \in SUBSET Part,
             ImportInto(s, values, S),
             \A f \in S : values[f] \in {key, Zero}
      PROVE  DupInv'
  <2>1. PICK o \in mbedtls_rsa_import(ctx[s], values, S)
                     \cup mbedtls_rsa_import_raw(ctx[s], values, S) :
               Become(s, o.ctx, "filling")
    BY <1>1 DEF ImportInto
  <2>2. Clean(ctx[s], key) /\ (s = "dup" => ctx[s].mpi["CRT"] = Zero)
    BY <1>1 DEF ImportInto, KeyIsClean, DuplicateIsClean, Side
  <2>3. o \in Outcome
    BY <1>0, <1>1, ImportType, ImportRawType
  <2>4. Clean(o.ctx, key) /\ o.ctx.mpi["CRT"] = ctx[s].mpi["CRT"]
    BY <1>0, <1>1, <2>2, ImportOfNumbers
  <2>5. o.ctx \in Ctx /\ UNCHANGED <<key, given, got>>
    BY <1>1, <2>3 DEF Outcome, ImportInto
  <2> QED
    BY <2>1, <2>2, <2>4, <2>5, DupBecome
<1>2. CASE Import
  <2>1. PICK S \in Imports : ImportInto("key", PartsOf(key), S)
    BY <1>2 DEF Import
  <2>2. PartsOf(key) \in [Part -> Value]
    BY <1>0, PartsType
  <2>3. S \in SUBSET Part /\ \A f \in S : PartsOf(key)[f] \in {key, Zero}
    BY <1>0 DEF PartsOf
  <2> QED
    BY <1>0, <1>1, <2>1, <2>2, <2>3
<1>3. CASE ImportCopy
  BY <1>0, <1>1, <1>3 DEF ImportCopy, GivenIsOfTheKey
<1>4. CASE Materialize
  <2>1. PrivateCtx(key) \in Ctx /\ Clean(PrivateCtx(key), key)
    BY <1>0, CompleteContexts
  <2> QED
    BY <1>0, <1>4, <2>1, DupBecome DEF Materialize
<1>5. ASSUME NEW s \in Side, Complete(s)
      PROVE  DupInv'
  <2>1. PICK o \in mbedtls_rsa_complete(ctx[s]) :
               Become(s, o.ctx, IF o.ok THEN "complete" ELSE "failed")
    BY <1>5 DEF Complete
  <2>2. o.ctx \in Ctx /\ o.ok \in BOOLEAN
    BY <1>0, CompleteType DEF Outcome
  <2>3. CASE ~o.ok
    BY <1>5, <2>1, <2>2, <2>3, DupBecome DEF Complete
  <2>4. CASE o.ok /\ s = "key"
    <3>1. Clean(ctx[s], key)
      BY <1>5, <2>4 DEF Complete, KeyIsClean
    <3>2. CleanButScratch(o.ctx, key) /\ Coherent(o.ctx, key)
      BY <1>0, <2>4, <3>1, CompletionOfOneKey
    <3>3. Clean(o.ctx, key)
      BY <3>2 DEF Clean, CleanButScratch, Coherent
    <3> QED
      BY <1>5, <2>1, <2>2, <2>4, <3>3, DupBecome DEF Complete
  <2>5. CASE o.ok /\ s = "dup"
    <3>1. state[s] \in {"filling", "complete"}
      BY <1>0, <1>5 DEF Complete, TypeOK
    <3>2. Clean(ctx[s], key) /\ (Full(ctx[s]) \/ ctx[s].mpi["CRT"] = Zero)
      BY <1>0, <2>5, <3>1, CompleteContexts DEF DuplicateIsClean, DuplicateIsTheKey
    <3>3. o.ctx \in {PrivateCtx(key), PublicCtx(key)}
      BY <1>0, <2>5, <3>2, CompletionMakesTheKey
    <3> QED
      BY <1>5, <2>1, <2>2, <2>5, <3>3, DupBecome DEF Complete
  <2> QED
    BY <2>2, <2>3, <2>4, <2>5 DEF Side
<1>6. CASE Export
  <2>0. PICK S \in Exports : \E o \in rsa_export(ctx["key"], S, given) :
               given' = o.given /\ got' = IF o.ok THEN S ELSE {}
    BY <1>6 DEF Export
  <2>1. PICK o \in rsa_export(ctx["key"], S, given) :
               given' = o.given /\ got' = IF o.ok THEN S ELSE {}
    BY <2>0
  <2>2. S \in SUBSET Part
    BY <1>0
  <2>3. /\ o.given \in [Part -> Value]
        /\ o.ok => /\ \A f \in S : o.given[f] = ctx["key"].mpi[f]
                   /\ S \cap {"P", "Q", "D"} # {} => \A f \in S : Have(ctx["key"], f)
    BY <1>0, <2>2, ExportOutcomes
  <2>4. UNCHANGED <<key, ctx, state>> /\ Clean(ctx["key"], key)
    BY <1>6 DEF Export, KeyIsClean
  <2>5. TypeOK'
    BY <2>1, <2>2, <2>3, <2>4 DEF TypeOK
  <2>6. GivenIsOfTheKey'
    BY <2>1, <2>2, <2>3, <2>4 DEF GivenIsOfTheKey, Clean, Have, Field
  <2>7. KeyIsClean' /\ DuplicateIsClean'
    BY <2>4 DEF KeyIsClean, DuplicateIsClean, Clean
  <2>8. DuplicateIsTheKey'
    <3>1. /\ PrivateCtx(key)' = PrivateCtx(key)
          /\ PublicCtx(key)' = PublicCtx(key)
      BY <2>4, Zenon
    <3> QED
      BY <2>4, <3>1 DEF DuplicateIsTheKey
  <2> QED
    BY <2>5, <2>6, <2>7, <2>8
<1>7. CASE StartOver
  <2>1. EmptyCtx \in Ctx
    BY NewContextTypes
  <2>2. Clean(EmptyCtx, key') /\ EmptyCtx.mpi["CRT"] = Zero
    BY DEF Clean, EmptyCtx, Field
  <2>3. TypeOK'
    BY <1>7, <2>1 DEF StartOver, TypeOK, Side
  <2> QED
    BY <1>7, <2>2, <2>3 DEF StartOver, KeyIsClean, GivenIsOfTheKey, DuplicateIsClean,
                            DuplicateIsTheKey, Side, Clean
<1>8. CASE UNCHANGED vars
  <2>1. /\ PrivateCtx(key)' = PrivateCtx(key)
        /\ PublicCtx(key)' = PublicCtx(key)
    BY <1>8, Zenon DEF vars
  <2> QED
    BY <1>8, <2>1 DEF vars, TypeOK, KeyIsClean, GivenIsOfTheKey, DuplicateIsClean,
                      DuplicateIsTheKey, Clean
<1> QED
  BY <1>2, <1>3, <1>4, <1>5, <1>6, <1>7, <1>8 DEF Next

\* The invariant of duplication, for any set of keys and whatever sets of
\* components callers import and export together.
THEOREM DupInvariance == Spec => []DupInv
<1>1. Init => DupInv
  BY DupInit
<1>2. DupInv /\ [Next]_vars => DupInv'
  BY DupNext
<1> QED
  BY <1>1, <1>2, PTL DEF Spec

\* An RSA context stays an RSA context and the caller's numbers stay numbers.
THEOREM DupTypeCorrect == Spec => []TypeOK
<1>1. DupInv => TypeOK
  BY DEF DupInv
<1> QED
  BY <1>1, DupInvariance, PTL

\* An export that succeeds gives all components of one key (rsa_export_is_priv
\* and the raw form of it), whatever exports failed before.
THEOREM ExportIsWhole == Spec => []ExportedKeyIsWhole
<1>1. DupInv => ExportedKeyIsWhole
  BY DEF DupInv, GivenIsOfTheKey, ExportedKeyIsWhole
<1> QED
  BY <1>1, DupInvariance, PTL

\* The duplicate that mbedtls_rsa_complete accepts is the key or its public
\* half, however many exports, imports and completions failed before.
THEOREM DuplicateIsSound == Spec => []DuplicateIsTheKey
<1>1. DupInv => DuplicateIsTheKey
  BY DEF DupInv
<1> QED
  BY <1>1, DupInvariance, PTL
=============================================================================

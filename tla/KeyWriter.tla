----------------------------- MODULE KeyWriter ------------------------------
(***************************************************************************)
(* Writing a private key of PkRsa as DER and as PEM:                       *)
(* mbedtls_rsa_write_key_der of src/src/rsa_import_export.c and            *)
(* mbedtls_v3_shim_pk_write_key_der and _pem of src/src/pk_rsa.c, with the *)
(* buffers they write to and where in a buffer the key ends up.            *)
(*                                                                         *)
(* A buffer is a sequence of bytes; a byte of a DER encoding is the field  *)
(* it belongs to, the value of that field and its place in the field.      *)
(***************************************************************************)
EXTENDS PkRsa, Sequences

CONSTANTS
  Blank,       \* the content of a buffer that was not written to
  DerSizes,    \* sizes of the buffers that callers give for DER
  PemDerSize   \* size of der_buf of mbedtls_v3_shim_pk_write_key_pem

ASSUME KeyWriterAssumption ==
  /\ Blank \notin Value
  /\ DerSizes \subseteq Nat
  /\ PemDerSize \in Nat

VARIABLE written   \* what the last call to a writer gave, or Unwritten

writerVars == <<vars, written>>

Unwritten == [op |-> "none", pk |-> Null, len |-> 0, buf |-> <<>>]

-----------------------------------------------------------------------------
(* Encoding.                                                               *)

\* The bytes of a number; the number 0 is encoded in one byte.
Width(f, v) ==
  LET half == (Size(v) + 1) \div 2
  IN  CASE v = Zero -> 1
        [] f \in {"N", "D"} -> Size(v)
        [] f \in {"P", "Q"} -> half
        [] f = "CRT" -> 3 * half
        [] OTHER -> 1

Encode(c, f) == [i \in 1 .. Width(f, c.mpi[f]) |-> <<f, c.mpi[f], i>>]

\* The RSAPrivateKey structure written from the context c, whatever c holds.
Der(c) == <<<<"header", Zero, 1>>>>
            \o Encode(c, "N") \o Encode(c, "E") \o Encode(c, "D")
            \o Encode(c, "P") \o Encode(c, "Q") \o Encode(c, "CRT")

-----------------------------------------------------------------------------
(* Buffers.                                                                *)

FirstBytes(b, n) == SubSeq(b, 1, n)
LastBytes(b, n)  == SubSeq(b, Len(b) - n + 1, Len(b))
Blanks(n)   == [i \in 1 .. n |-> Blank]

\* A result of n bytes in b, and a writer that fails, for whatever reason.
Gave(b, n)  == [len |-> n, buf |-> b]
WriteFails    == [len |-> -1, buf |-> <<>>]

\* The mbedtls_asn1_write functions fill a buffer from its end.
WriteBackwards(d, size) == Blanks(size - Len(d)) \o d

\* Mutant: the data is moved and its old place wiped.
MoveAndWipe(b, n) == FirstBytes(LastBytes(b, n) \o Blanks(Len(b)), Len(b))

\* Mutant: the move leaves out the header, which is written last.
MoveWithoutHeader(b, n) == LastBytes(b, n - 1) \o LastBytes(b, Len(b) - n + 1)

\* memmove(buf, p, len): the data is copied to the front; what the copy does
\* not cover stays, the end of the old data among it.
MoveToFront(b, n) == LastBytes(b, n) \o LastBytes(b, Len(b) - n)

mbedtls_rsa_write_key_der(c, size) ==
  LET n == Len(Der(c))
  IN  IF n > size THEN WriteFails
                  ELSE Gave(MoveToFront(WriteBackwards(Der(c), size), n), n)

\* The external mbedtls_pk_write_key_der writes private keys, and leaves them
\* at the end of the buffer.
mbedtls_pk_write_key_der(x, size) ==
  IF x.priv = Null THEN WriteFails
  ELSE LET d == Der(PrivateCtx(x.priv))
       IN  IF Len(d) > size THEN WriteFails
                            ELSE Gave(WriteBackwards(d, size), Len(d))

-----------------------------------------------------------------------------
(* The writers of the shim, on an RSA context p.                           *)

\* The RSA context cached for p.
CachedCtx(p) == heap[(CHOOSE e \in cache : e.pk = p).rsa]

mbedtls_v3_shim_pk_write_key_der(p, size) ==
  IF IsCached(p)
    THEN mbedtls_rsa_write_key_der(CachedCtx(p), size)
    ELSE mbedtls_pk_write_key_der(pk[p], size)

\* Reports the writer's result r to the caller of op on p.
Report(op, p, r) ==
  /\ written' = [op |-> op, pk |-> p, len |-> r.len, buf |-> r.buf]
  /\ out' = Quiet
  /\ UNCHANGED <<pk, heap, cache>>

\* The real call can also fail to export the key from PSA; the writer of an RSA
\* context fails for lack of room only.
WriteKeyDer(p) ==
  /\ pk_is_rsa(pk[p])
  /\ \/ \E size \in DerSizes :
          Report("der", p, mbedtls_v3_shim_pk_write_key_der(p, size))
     \/ ~IsCached(p) /\ MayFail /\ Report("der", p, WriteFails)

\* The PEM armor holds the last len bytes of the DER buffer.  A buffer of the
\* caller that is too short for it is an error.
WriteKeyPem(p) ==
  /\ pk_is_rsa(pk[p])
  /\ LET r == mbedtls_v3_shim_pk_write_key_der(p, PemDerSize)
     IN  \/ /\ r.len >= 0
            /\ Report("pem", p, Gave(LastBytes(r.buf, r.len), r.len))
         \/ Report("pem", p, WriteFails)

-----------------------------------------------------------------------------
WriterInit == Init /\ written = Unwritten

WriterNext ==
  \/ Next /\ written' = Unwritten
  \/ \E p \in Pk : WriteKeyDer(p) \/ WriteKeyPem(p)

WriterSpec == WriterInit /\ [][WriterNext]_writerVars

-----------------------------------------------------------------------------
(* Properties.                                                             *)

\* A private key that is in PSA is written as DER whole and alone, whether or
\* not it was materialized: at the end of the buffer, as the real call leaves
\* it, or at its start, as mbedtls_rsa_write_key_der does.  A caller of
\* mbedtls_v3_shim_pk_write_key_der cannot tell which.
DerHoldsThePsaKey ==
  LET p == written.pk
  IN  written.op = "der" /\ written.len >= 0 /\ pk[p].priv # Null
        => Der(PrivateCtx(pk[p].priv))
             = IF IsCached(p) THEN FirstBytes(written.buf, written.len)
                              ELSE LastBytes(written.buf, written.len)

\* The DER of the key that the RSA pk context p stands for.
DerOf(p) == Der(IF IsCached(p) THEN CachedCtx(p) ELSE PrivateCtx(pk[p].priv))

WrotePem == written.op = "pem" /\ written.len >= 0

\* mbedtls_v3_shim_pk_write_key_pem wraps what is at the end of its buffer.
\* For a key of at most half the buffer this is the key, cached or not: the
\* move to the front left the original in place.
PemHoldsShortKey ==
  WrotePem /\ 2 * written.len <= PemDerSize => written.buf = DerOf(written.pk)

\* The PEM of a parsed private key is that key, read from the RSA cache when
\* it was materialized and written by the real call when it was not (the
\* comment above mbedtls_v3_shim_pk_write_key_der in pk_rsa.h says so).
PemHoldsTheKey ==
  LET p == written.pk
  IN  WrotePem /\ pk[p].priv # Null => written.buf = Der(PrivateCtx(pk[p].priv))
=============================================================================

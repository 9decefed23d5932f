--------------------------- MODULE KeyWriterProofs ---------------------------
(***************************************************************************)
(* Where in its buffer a written private key is, for every size of key and *)
(* of buffer: what a caller of the writers reads is the key.               *)
(*                                                                         *)
(* What is proved of a buffer does not depend on the encoding: it is about *)
(* any sequence d that is written from the end of a buffer and, for a      *)
(* cached RSA context, moved to its start.                                 *)
(***************************************************************************)
EXTENDS KeyWriter, PkRsaKeyProofs, SequenceTheorems

-----------------------------------------------------------------------------
(* Encoding.                                                               *)

Byte == (({"header"} \cup Field) \X Value \X Nat) \cup {Blank}

LEMMA WidthType ==
  ASSUME NEW f, NEW v \in Value
  PROVE  Width(f, v) \in Nat
<1>1. Size(v) \in Nat
  BY RsaContextAssumption DEF Size, Bits, Value
<1>2. (Size(v) + 1) \div 2 \in Nat
  BY <1>1
<1> QED
  BY <1>1, <1>2 DEF Width

LEMMA EncodeType ==
  ASSUME NEW c \in Ctx, NEW f \in Field
  PROVE  Encode(c, f) \in Seq(Byte)
<1>1. c.mpi[f] \in Value
  BY DEF Ctx
<1>2. Width(f, c.mpi[f]) \in Nat
  BY <1>1, WidthType
<1> DEFINE w == Width(f, c.mpi[f])
           s == [i \in 1 .. w |-> <<f, c.mpi[f], i>>]
<1>3. \A i \in Nat : <<f, c.mpi[f], i>> \in Byte
  BY <1>1 DEF Byte
<1>4. w \in Nat
  BY <1>2
<1> HIDE DEF w
<1>5. s \in [1 .. w -> Byte]
  BY <1>3, <1>4
<1>6. s \in Seq(Byte)
  BY <1>4, <1>5, SeqDef
<1> QED
  BY <1>6 DEF Encode, w

\* The encoding of a context, whatever it holds, is a sequence of bytes.
LEMMA DerType ==
  ASSUME NEW c \in Ctx
  PROVE  Der(c) \in Seq(Byte)
<1>1. <<<<"header", Zero, 1>>>> \in Seq(Byte)
  <2>1. <<"header", Zero, 1>> \in Byte
    BY DEF Byte, Value
  <2> QED
    BY <2>1
<1>2. \A f \in Field : Encode(c, f) \in Seq(Byte)
  BY EncodeType
<1>3. {"N", "E", "D", "P", "Q", "CRT"} \subseteq Field
  BY DEF Field, Part
<1>4. \A s, t \in Seq(Byte) : s \o t \in Seq(Byte)
  BY ConcatProperties
<1> QED
  BY <1>1, <1>2, <1>3, <1>4, ZenonT(30) DEF Der

-----------------------------------------------------------------------------
(* Buffers.                                                                *)

\* What is written from the end of a buffer that it fits in is at its end.
LEMMA WrittenAtTheEnd ==
  ASSUME NEW d \in Seq(Byte), NEW size \in Nat, Len(d) <= size
  PROVE  LET b == WriteBackwards(d, size)
         IN  b \in Seq(Byte) /\ Len(b) = size /\ LastBytes(b, Len(d)) = d
<1> DEFINE n == size - Len(d)
           b == Blanks(n) \o d
<1>1. n \in Nat
  BY LenProperties
<1>2. Blanks(n) \in Seq(Byte) /\ Len(Blanks(n)) = n
  BY <1>1 DEF Blanks, Byte
<1> HIDE DEF n
<1>10. PICK a : a = Blanks(n)
  OBVIOUS
<1>3. /\ b \in Seq(Byte) /\ Len(b) = n + Len(d)
      /\ \A i \in 1 .. n + Len(d) : b[i] = IF i <= n THEN a[i] ELSE d[i - n]
  <2>1. a \in Seq(Byte) /\ Len(a) = n /\ b = a \o d
    BY <1>2, <1>10
  <2> HIDE DEF b
  <2>2. \A i \in 1 .. Len(a) + Len(d) :
          (a \o d)[i] = IF i <= Len(a) THEN a[i] ELSE d[i - Len(a)]
    BY <2>1, ConcatProperties
  <2>3. a \o d \in Seq(Byte) /\ Len(a \o d) = Len(a) + Len(d)
    BY <2>1, ConcatProperties
  <2> QED
    BY <2>1, <2>2, <2>3
<1>4. n + Len(d) = size
  BY LenProperties DEF n
<1> HIDE DEF b
<1>5. LastBytes(b, Len(d)) = SubSeq(b, n + 1, size)
  <2> DEFINE k == Len(d)
  <2>1. Len(b) = size /\ n + k = size /\ k \in Nat
    BY <1>3, <1>4, LenProperties
  <2> HIDE DEF k
  <2>2. size - k + 1 = n + 1
    BY <1>1, <2>1
  <2> QED
    BY <2>1, <2>2 DEF LastBytes, k
<1>6. \A i \in n + 1 .. size : b[i] \in Byte
  BY <1>1, <1>3, <1>4, ElementOfSeq
<1>7. /\ SubSeq(b, n + 1, size) \in Seq(Byte)
      /\ Len(SubSeq(b, n + 1, size)) = Len(d)
      /\ \A i \in 1 .. Len(d) : SubSeq(b, n + 1, size)[i] = b[n + i]
  <2>1. /\ n + 1 \in Int /\ size \in Int
        /\ (n + 1 <= size => size - (n + 1) + 1 = Len(d))
        /\ (~(n + 1 <= size) => Len(d) = 0)
        /\ size - (n + 1) + 1 = Len(d)
        /\ \A i \in 1 .. Len(d) : n + 1 + i - 1 = n + i
    BY <1>1, <1>4, LenProperties
  <2> QED
    BY <1>6, <2>1, SubSeqProperties
<1>8. \A i \in 1 .. Len(d) : b[n + i] = d[i]
  <2> SUFFICES ASSUME NEW i \in 1 .. Len(d) PROVE b[n + i] = d[i]
    OBVIOUS
  <2>1. n + i \in 1 .. n + Len(d) /\ ~(n + i <= n) /\ (n + i) - n = i
    BY <1>1, LenProperties
  <2> QED
    BY <1>3, <2>1
<1>9. SubSeq(b, n + 1, size) = d
  BY <1>7, <1>8, SeqEqual
<1> QED
  BY <1>3, <1>4, <1>5, <1>9 DEF WriteBackwards, b, n

\* Moved to the front, it is at the front; and when it takes at most half the
\* buffer, the move does not reach its old place.
LEMMA MovedToTheFront ==
  ASSUME NEW b \in Seq(Byte), NEW n \in Nat, n <= Len(b)
  PROVE  LET m == MoveToFront(b, n)
         IN  /\ FirstBytes(m, n) = LastBytes(b, n)
             /\ 2 * n <= Len(b) => LastBytes(m, n) = LastBytes(b, n)
<1> DEFINE L == Len(b)
           s == LastBytes(b, n)
           t == LastBytes(b, L - n)
           m == s \o t
<1>1. L \in Nat
  BY LenProperties
<1>2. \A k \in 0 .. L : /\ LastBytes(b, k) \in Seq(Byte)
                        /\ Len(LastBytes(b, k)) = k
                        /\ \A i \in 1 .. k : LastBytes(b, k)[i] = b[L - k + i]
  <2> SUFFICES ASSUME NEW k \in 0 .. L
               PROVE  /\ SubSeq(b, L - k + 1, L) \in Seq(Byte)
                      /\ Len(SubSeq(b, L - k + 1, L)) = k
                      /\ \A i \in 1 .. k : SubSeq(b, L - k + 1, L)[i] = b[L - k + i]
    BY DEF LastBytes
  <2> DEFINE j == L - k + 1
  <2>1. /\ j \in Int /\ L \in Int
        /\ L - j + 1 = k
        /\ (j <= L) \/ k = 0
        /\ \A i \in 1 .. k : j + i - 1 = L - k + i
    BY <1>1
  <2>2. \A i \in j .. L : b[i] \in Byte
    BY <1>1, ElementOfSeq
  <2> HIDE DEF j
  <2>3. SubSeq(b, j, L) \in Seq(Byte) /\ Len(SubSeq(b, j, L)) = k
    BY <2>1, <2>2, SubSeqProperties
  <2>4. \A i \in 1 .. k : SubSeq(b, j, L)[i] = b[L - k + i]
    BY <2>1, <2>2, SubSeqProperties
  <2> QED
    BY <2>3, <2>4 DEF j
<1>3. /\ s \in Seq(Byte) /\ Len(s) = n /\ \A i \in 1 .. n : s[i] = b[L - n + i]
      /\ t \in Seq(Byte) /\ Len(t) = L - n /\ \A i \in 1 .. L - n : t[i] = b[n + i]
  <2>1. /\ n \in 0 .. L /\ L - n \in 0 .. L
        /\ \A i \in 1 .. L - n : L - (L - n) + i = n + i
    BY <1>1
  <2> QED
    BY <1>2, <2>1
<1> HIDE DEF s, t
<1>4. /\ m \in Seq(Byte) /\ Len(m) = L
      /\ \A i \in 1 .. L : m[i] = IF i <= n THEN s[i] ELSE t[i - n]
  <2>1. Len(s) + Len(t) = L
    BY <1>1, <1>3
  <2> QED
    BY <1>3, <2>1, ConcatProperties
<1> HIDE DEF m
<1>5. FirstBytes(m, n) = s
  <2>1. \A i \in 1 .. n : i \in 1 .. L /\ m[i] = s[i] /\ m[i] \in Byte
    BY <1>1, <1>3, <1>4, ElementOfSeq
  <2>2. /\ SubSeq(m, 1, n) \in Seq(Byte) /\ Len(SubSeq(m, 1, n)) = n
        /\ \A i \in 1 .. n : SubSeq(m, 1, n)[i] = m[i]
    <3>1. /\ n - 1 + 1 = n /\ (1 <= n \/ n = 0)
          /\ \A i \in 1 .. n : 1 + i - 1 = i
      OBVIOUS
    <3> QED
      BY <2>1, <3>1, SubSeqProperties
  <2> QED
    BY <1>3, <2>1, <2>2, SeqEqual DEF FirstBytes
<1>6. ASSUME 2 * n <= L PROVE LastBytes(m, n) = s
  <2>1. \A i \in 1 .. n : /\ L - n + i \in 1 .. L /\ ~(L - n + i <= n)
                          /\ (L - n + i) - n \in 1 .. L - n
                          /\ n + ((L - n + i) - n) = L - n + i
    BY <1>1, <1>6
  <2>2. \A i \in 1 .. n : m[L - n + i] = s[i]
    <3> SUFFICES ASSUME NEW i \in 1 .. n PROVE m[L - n + i] = s[i]
      OBVIOUS
    <3> DEFINE h == L - n + i
               j == h - n
    <3>1. h \in 1 .. L /\ ~(h <= n) /\ j \in 1 .. L - n /\ n + j = h
      BY <2>1
    <3>2. s[i] = b[h]
      BY <1>3
    <3> HIDE DEF h
    <3>3. m[h] = t[j]
      BY <1>4, <3>1
    <3> HIDE DEF j
    <3>4. t[j] = b[h]
      BY <1>3, <3>1
    <3> QED
      BY <3>2, <3>3, <3>4 DEF h
  <2>3. \A i \in L - n + 1 .. L : m[i] \in Byte
    BY <1>1, <1>4, ElementOfSeq
  <2> DEFINE j == L - n + 1
  <2>4. /\ j \in Int /\ L \in Int /\ L - j + 1 = n /\ (j <= L \/ n = 0)
        /\ \A i \in 1 .. n : j + i - 1 = L - n + i
    BY <1>1
  <2>5. \A i \in j .. L : m[i] \in Byte
    BY <2>3
  <2>6. LastBytes(m, n) = SubSeq(m, j, L)
    BY <1>4 DEF LastBytes
  <2> HIDE DEF j
  <2>7. /\ SubSeq(m, j, L) \in Seq(Byte) /\ Len(SubSeq(m, j, L)) = n
        /\ \A i \in 1 .. n : SubSeq(m, j, L)[i] = m[L - n + i]
    BY <2>4, <2>5, SubSeqProperties
  <2> QED
    BY <1>3, <2>2, <2>6, <2>7, SeqEqual
<1> QED
  BY <1>5, <1>6 DEF MoveToFront, m, s, t

-----------------------------------------------------------------------------
(* The writers.                                                            *)

\* The RSA context of a cached pk context.
LEMMA CachedCtxType ==
  ASSUME StateOK, NEW p \in Pk, IsCached(p)
  PROVE  /\ CachedCtx(p) \in Ctx
         /\ \E e \in cache : e.pk = p /\ CachedCtx(p) = heap[e.rsa]
<1>1. PICK e \in cache : e.pk = p
  BY DEF IsCached, cache_find
<1>2. \A f \in cache : f.pk = p => f = e
  BY <1>1 DEF StateOK, CacheIsAMap
<1>3. CachedCtx(p) = heap[e.rsa]
  BY <1>1, <1>2 DEF CachedCtx
<1>4. heap[e.rsa] \in Ctx
  BY EntryHasContext DEF StateOK
<1> QED
  BY <1>1, <1>3, <1>4

\* A writer that succeeds on a context that is not cached leaves the key of the
\* PSA slot at the end of the buffer.
LEMMA RealWriterAtTheEnd ==
  ASSUME NEW x \in PkCtx, NEW size \in Nat,
         mbedtls_pk_write_key_der(x, size).len >= 0
  PROVE  LET r == mbedtls_pk_write_key_der(x, size)
         IN  x.priv # Null /\ r.len \in Nat /\ LastBytes(r.buf, r.len) = Der(PrivateCtx(x.priv))
<1> DEFINE d == Der(PrivateCtx(x.priv))
           r == mbedtls_pk_write_key_der(x, size)
<1>1. ~(-1 >= 0) /\ WriteFails.len = -1
  BY DEF WriteFails
<1>2. x.priv # Null
  BY <1>1 DEF mbedtls_pk_write_key_der
<1>3. d \in Seq(Byte)
  <2>1. x.priv \in Key
    BY <1>2 DEF PkCtx
  <2> QED
    BY <2>1, NewContextTypes, DerType
<1>4. Len(d) \in Nat
  BY <1>3, LenProperties
<1>5. r = IF Len(d) > size THEN WriteFails ELSE Gave(WriteBackwards(d, size), Len(d))
  BY <1>2 DEF mbedtls_pk_write_key_der
<1>6. r.len >= 0
  OBVIOUS
<1> HIDE DEF r, d
<1>7. Len(d) <= size /\ r = Gave(WriteBackwards(d, size), Len(d))
  BY <1>1, <1>4, <1>5, <1>6
<1>8. r.len = Len(d) /\ r.buf = WriteBackwards(d, size)
  BY <1>7 DEF Gave
<1>9. LastBytes(WriteBackwards(d, size), Len(d)) = d
  BY <1>3, <1>7, WrittenAtTheEnd
<1> QED
  BY <1>2, <1>4, <1>8, <1>9 DEF d, r

\* A writer that succeeds on an RSA context leaves it at the start of the
\* buffer, and at its end too when it takes at most half of it.
LEMMA ShimWriterAtTheStart ==
  ASSUME NEW c \in Ctx, NEW size \in Nat,
         mbedtls_rsa_write_key_der(c, size).len >= 0
  PROVE  LET r == mbedtls_rsa_write_key_der(c, size)
         IN  /\ r.len \in Nat
             /\ FirstBytes(r.buf, r.len) = Der(c)
             /\ 2 * r.len <= size => LastBytes(r.buf, r.len) = Der(c)
<1> DEFINE d == Der(c)
           n == Len(d)
           b == WriteBackwards(d, size)
           r == mbedtls_rsa_write_key_der(c, size)
<1>1. ~(-1 >= 0) /\ WriteFails.len = -1
  BY DEF WriteFails
<1>2. d \in Seq(Byte) /\ n \in Nat
  BY DerType, LenProperties
<1>3. r = IF n > size THEN WriteFails ELSE Gave(MoveToFront(b, n), n)
  BY DEF mbedtls_rsa_write_key_der
<1>4. r.len >= 0
  OBVIOUS
<1> HIDE DEF r, d
<1>5. b \in Seq(Byte) /\ Len(b) = size /\ LastBytes(b, n) = d
      /\ n <= size /\ r = Gave(MoveToFront(b, n), n)
  <2>1. n <= size /\ r = Gave(MoveToFront(b, n), n)
    BY <1>1, <1>2, <1>3, <1>4
  <2> QED
    BY <1>2, <2>1, WrittenAtTheEnd
<1>6. r.len = n /\ r.buf = MoveToFront(b, n)
  BY <1>5 DEF Gave
<1> HIDE DEF b, n
<1>7. /\ FirstBytes(MoveToFront(b, n), n) = d
      /\ 2 * n <= size => LastBytes(MoveToFront(b, n), n) = d
  BY <1>2, <1>5, MovedToTheFront
<1> QED
  BY <1>2, <1>6, <1>7 DEF d, r

\* What a caller of mbedtls_v3_shim_pk_write_key_der has in its buffer.
KeyIsIn(p, size, len, buf) ==
  /\ len \in Nat
  /\ IsCached(p) => /\ FirstBytes(buf, len) = Der(CachedCtx(p))
                    /\ 2 * len <= size => LastBytes(buf, len) = Der(CachedCtx(p))
  /\ ~IsCached(p) => pk[p].priv # Null /\ LastBytes(buf, len) = Der(PrivateCtx(pk[p].priv))

LEMMA WriterLeavesTheKey ==
  ASSUME StateOK, NEW p \in Pk, NEW size \in Nat,
         NEW r, r = mbedtls_v3_shim_pk_write_key_der(p, size), r.len >= 0
  PROVE  KeyIsIn(p, size, r.len, r.buf)
<1>1. CASE IsCached(p)
  <2>1. CachedCtx(p) \in Ctx /\ r = mbedtls_rsa_write_key_der(CachedCtx(p), size)
    BY <1>1, CachedCtxType DEF mbedtls_v3_shim_pk_write_key_der
  <2> QED
    BY <1>1, <2>1, ShimWriterAtTheStart DEF KeyIsIn
<1>2. CASE ~IsCached(p)
  <2>1. pk[p] \in PkCtx /\ r = mbedtls_pk_write_key_der(pk[p], size)
    BY <1>2 DEF mbedtls_v3_shim_pk_write_key_der, StateOK
  <2> QED
    BY <1>2, <2>1, RealWriterAtTheEnd DEF KeyIsIn
<1> QED
  BY <1>1, <1>2

-----------------------------------------------------------------------------
(* The invariant: what was written is of the state it was written from.    *)

WrittenIsCurrent ==
  /\ written.op = "der" /\ written.len >= 0 =>
       /\ written.pk \in Pk
       /\ \E size \in Nat : KeyIsIn(written.pk, size, written.len, written.buf)
  /\ WrotePem =>
       /\ written.pk \in Pk
       /\ \E buf : /\ KeyIsIn(written.pk, PemDerSize, written.len, buf)
                   /\ written.buf = LastBytes(buf, written.len)

WriterInv == IInv /\ WrittenIsCurrent

\* A report changes nothing that the key is looked up in.
LEMMA ReportFrame ==
  ASSUME NEW op, NEW p, NEW r, Report(op, p, r)
  PROVE  /\ \A q, size, len, buf : KeyIsIn(q, size, len, buf) => KeyIsIn(q, size, len, buf)'
         /\ IInv => IInv'
         /\ EntriesAreLive /\ CachedKeyIsPsaKey => (EntriesAreLive /\ CachedKeyIsPsaKey)'
         /\ written'.op = op /\ written'.pk = p /\ written'.len = r.len /\ written'.buf = r.buf
<1>1. UNCHANGED <<pk, heap, cache>> /\ out' = Quiet /\ out'.op = "none" /\ out' \in Out
  BY DEF Report, Quiet, Out
<1>2. \A q, size, len, buf : KeyIsIn(q, size, len, buf) => KeyIsIn(q, size, len, buf)'
  BY <1>1 DEF KeyIsIn, IsCached, cache_find, CachedCtx
<1>3. StateOK => StateOK'
  BY <1>1 DEF StateOK, CacheIsAMap, HeapIsTheCache
<1>4. EntriesAreLive /\ CachedKeyIsPsaKey => (EntriesAreLive /\ CachedKeyIsPsaKey)'
  BY <1>1 DEF EntriesAreLive, CachedKeyIsPsaKey
<1>5. written'.op = op /\ written'.pk = p /\ written'.len = r.len /\ written'.buf = r.buf
  BY DEF Report
<1> QED
  BY <1>1, <1>2, <1>3, <1>4, <1>5 DEF IInv

LEMMA WriteKeyDerStep ==
  ASSUME WriterInv, NEW p \in Pk, WriteKeyDer(p)
  PROVE  WriterInv'
<1>0. PICK size \in DerSizes \cup {0} :
        \E r : /\ Report("der", p, r)
               /\ r = mbedtls_v3_shim_pk_write_key_der(p, size) \/ r = WriteFails
  BY DEF WriteKeyDer
<1>1. PICK r : /\ Report("der", p, r)
               /\ r = mbedtls_v3_shim_pk_write_key_der(p, size) \/ r = WriteFails
  BY <1>0
<1>2. r.len >= 0 => r = mbedtls_v3_shim_pk_write_key_der(p, size)
  BY <1>1 DEF WriteFails
<1>3. size \in Nat /\ Report("der", p, r)
  BY <1>1, KeyWriterAssumption
<1>4. /\ IInv'
      /\ \A q, s, len, buf : KeyIsIn(q, s, len, buf) => KeyIsIn(q, s, len, buf)'
      /\ written'.op = "der" /\ written'.pk = p /\ written'.len = r.len /\ written'.buf = r.buf
  BY <1>3, ReportFrame DEF WriterInv
<1>5. r.len >= 0 => KeyIsIn(p, size, r.len, r.buf)'
  BY <1>2, <1>3, <1>4, WriterLeavesTheKey DEF WriterInv, IInv
<1>6. WrittenIsCurrent'
  BY <1>3, <1>4, <1>5 DEF WrittenIsCurrent, WrotePem
<1> QED
  BY <1>4, <1>6 DEF WriterInv

LEMMA WriteKeyPemStep ==
  ASSUME WriterInv, NEW p \in Pk, WriteKeyPem(p)
  PROVE  WriterInv'
<1>1. PICK r : r = mbedtls_v3_shim_pk_write_key_der(p, PemDerSize)
  OBVIOUS
<1>2. CASE r.len >= 0 /\ Report("pem", p, Gave(LastBytes(r.buf, r.len), r.len))
  <2>1. /\ IInv'
        /\ \A q, s, len, buf : KeyIsIn(q, s, len, buf) => KeyIsIn(q, s, len, buf)'
        /\ written'.op = "pem" /\ written'.pk = p /\ written'.len = r.len
        /\ written'.buf = LastBytes(r.buf, r.len)
    BY <1>2, ReportFrame DEF WriterInv, Gave
  <2>2. KeyIsIn(p, PemDerSize, r.len, r.buf)'
    BY <1>1, <1>2, <2>1, KeyWriterAssumption, WriterLeavesTheKey DEF WriterInv, IInv
  <2>3. WrittenIsCurrent'
    BY <2>1, <2>2 DEF WrittenIsCurrent, WrotePem, LastBytes
  <2> QED
    BY <2>1, <2>3 DEF WriterInv
<1>3. CASE Report("pem", p, WriteFails)
  <2>1. IInv' /\ written'.op = "pem" /\ written'.len = -1
    BY <1>3, ReportFrame DEF WriterInv, WriteFails
  <2>2. WrittenIsCurrent'
    BY <2>1 DEF WrittenIsCurrent, WrotePem
  <2> QED
    BY <2>1, <2>2 DEF WriterInv
<1> QED
  BY <1>1, <1>2, <1>3 DEF WriteKeyPem

\* Every reachable state satisfies the invariant, whatever fails and whatever
\* callers do.
THEOREM WriterInvariance == WriterSpec => []WriterInv
<1>1. Unwritten.op = "none"
  BY DEF Unwritten
<1>2. WriterInit => WriterInv
  BY <1>1, IInvInit DEF WriterInit, WriterInv, WrittenIsCurrent, WrotePem
<1>3. ASSUME WriterInv, [WriterNext]_writerVars PROVE WriterInv'
  <2>1. CASE Next /\ written' = Unwritten
    <3>1. IInv'
      BY <1>3, <2>1, IInvNext DEF WriterInv
    <3>2. written'.op = "none"
      BY <1>1, <2>1
    <3> QED
      BY <3>1, <3>2 DEF WriterInv, WrittenIsCurrent, WrotePem
  <2>2. ASSUME NEW p \in Pk, WriteKeyDer(p) \/ WriteKeyPem(p) PROVE WriterInv'
    BY <1>3, <2>2, WriteKeyDerStep, WriteKeyPemStep
  <2>3. CASE UNCHANGED writerVars
    <3>1. UNCHANGED <<pk, heap, cache, out, written>>
      BY <2>3 DEF writerVars, vars
    <3>2. IInv'
      BY <1>3, <3>1, IInvNext DEF WriterInv, vars
    <3>3. WrittenIsCurrent'
      BY <1>3, <3>1 DEF WriterInv, WrittenIsCurrent, WrotePem, KeyIsIn, IsCached, cache_find, CachedCtx
    <3> QED
      BY <3>2, <3>3 DEF WriterInv
  <2> QED
    BY <1>3, <2>1, <2>2, <2>3 DEF WriterNext
<1> QED
  BY <1>2, <1>3, PTL DEF WriterSpec

\* Writing leaves alone the key in a PSA slot and the RSA context cached for it.
LEMMA WriterKeepsSlots ==
  ASSUME ~Reimport, ~LibraryFrees
  PROVE  WriterSpec => [](EntriesAreLive /\ CachedKeyIsPsaKey)
<1>1. WriterInit => EntriesAreLive /\ CachedKeyIsPsaKey
  BY DEF WriterInit, Init, EntriesAreLive, CachedKeyIsPsaKey
<1>2. ASSUME IInv, EntriesAreLive, CachedKeyIsPsaKey, [WriterNext]_writerVars
      PROVE  EntriesAreLive' /\ CachedKeyIsPsaKey'
  <2>1. CASE [Next]_vars
    BY <1>2, <2>1, EntriesLiveNext, SlotsNext DEF IInv
  <2>2. ASSUME NEW op, NEW p, NEW r, Report(op, p, r)
        PROVE  EntriesAreLive' /\ CachedKeyIsPsaKey'
    BY <1>2, <2>2, ReportFrame
  <2>3. ASSUME NEW p \in Pk, WriteKeyDer(p) PROVE EntriesAreLive' /\ CachedKeyIsPsaKey'
    BY <2>2, <2>3 DEF WriteKeyDer
  <2>4. ASSUME NEW p \in Pk, WriteKeyPem(p) PROVE EntriesAreLive' /\ CachedKeyIsPsaKey'
    BY <2>2, <2>4 DEF WriteKeyPem
  <2> QED
    BY <1>2, <2>1, <2>3, <2>4 DEF WriterNext, writerVars
<1> QED
  BY <1>1, <1>2, WriterInvariance, PTL DEF WriterSpec, WriterInv

-----------------------------------------------------------------------------
(* What a caller reads.                                                    *)

\* mbedtls_v3_shim_pk_write_key_pem gives the key, cached or not, whenever the
\* key takes at most half of its buffer: what it wraps is at the end of that
\* buffer, and there the move to the front left it.
THEOREM PemIsRightForShortKeys == WriterSpec => []PemHoldsShortKey
<1>1. ASSUME WriterInv PROVE PemHoldsShortKey
  <2> SUFFICES ASSUME WrotePem, 2 * written.len <= PemDerSize
               PROVE  written.buf = DerOf(written.pk)
    BY DEF PemHoldsShortKey
  <2> QED
    BY <1>1 DEF WriterInv, WrittenIsCurrent, KeyIsIn, DerOf
<1> QED
  BY <1>1, WriterInvariance, PTL

\* The DER of a private key that is in PSA is that key whole and alone: at the
\* start of the caller's buffer when it was materialized, at its end when not.
\* The cached RSA context is the PSA key as long as callers import no second key
\* over it and free it through the macro.
THEOREM DerIsThePsaKey ==
  ASSUME ~Reimport, ~LibraryFrees
  PROVE  WriterSpec => []DerHoldsThePsaKey
<1>1. ASSUME WriterInv, CachedKeyIsPsaKey PROVE DerHoldsThePsaKey
  <2> DEFINE p == written.pk
  <2> SUFFICES ASSUME written.op = "der", written.len >= 0, pk[p].priv # Null
               PROVE  Der(PrivateCtx(pk[p].priv))
                        = IF IsCached(p) THEN FirstBytes(written.buf, written.len)
                                         ELSE LastBytes(written.buf, written.len)
    BY DEF DerHoldsThePsaKey
  <2>1. /\ p \in Pk
        /\ IsCached(p) => FirstBytes(written.buf, written.len) = Der(CachedCtx(p))
        /\ ~IsCached(p) => LastBytes(written.buf, written.len) = Der(PrivateCtx(pk[p].priv))
    BY <1>1 DEF WriterInv, WrittenIsCurrent, KeyIsIn
  <2>2. IsCached(p) => CachedCtx(p) = PrivateCtx(pk[p].priv)
    BY <1>1, <2>1, CachedCtxType DEF CachedKeyIsPsaKey, WriterInv, IInv
  <2> QED
    BY <2>1, <2>2
<1> QED
  BY <1>1, WriterInvariance, WriterKeepsSlots, PTL
=============================================================================

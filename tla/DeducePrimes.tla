---------------------------- MODULE DeducePrimes -----------------------------
(***************************************************************************)
(* The search of rsa_deduce_primes, src/src/rsa_import_export.c, for the   *)
(* primes of N given E and D, on numbers: K is raised to the odd part of   *)
(* D * E - 1 and squared again until it is -1 modulo a factor of N, for    *)
(* one base after the other.  RsaContext has the whole call as one step.   *)
(***************************************************************************)
EXTENDS Integers, FiniteSetsExt, Sequences

CONSTANTS
  Inputs,    \* the arguments: records of N, E and D
  primes,    \* the bases, in the order they are tried
  Scratch    \* the content of Q while it serves mbedtls_mpi_exp_mod

Divides(a, b) == b % a = 0
IsPrime(a)    == a > 1 /\ \A b \in 2..(a - 1) : ~Divides(b, a)

ASSUME DeducePrimesAssumption ==
  /\ primes \in Seq(Nat) /\ primes # <<>>
  /\ \A j \in 1..Len(primes) : IsPrime(primes[j])
  /\ Inputs \subseteq [N : Nat, E : Nat, D : Nat]
  /\ \A i \in Inputs, j \in 1..Len(primes) : i.N = 0 \/ primes[j] < i.N
  /\ Scratch \in Int /\ Scratch < 0

VARIABLES
  in,        \* the arguments of this call
  pc,        \* where the call is
  T, order,  \* D * E - 1 is T * 2^order, with T odd
  attempt,   \* the place in primes of the next base
  iter,      \* how often K has been squared, plus 1
  K, P, Q    \* as in the code; 0 is an integer that was not written yet

vars == <<in, pc, T, order, attempt, iter, K, P, Q>>

N == in.N
E == in.E
D == in.D

-----------------------------------------------------------------------------
(* The external arithmetic.                                                *)

\* 2^i
TwoTo[i \in Nat] == IF i = 0 THEN 1 ELSE 2 * TwoTo[i - 1]

Gcd(a, b)     == Max({d \in 1..b : Divides(d, a) /\ Divides(d, b)})

\* a^t modulo n
ExpMod(a, t, n) ==
  LET f[i \in Nat] ==
        IF i = 0 THEN 1
                 ELSE LET h == f[i \div 2]
                      IN  (h * h * (IF i % 2 = 1 THEN a ELSE 1)) % n
  IN  f[t]

Lsb(t) == CHOOSE i \in 0..t : Divides(TwoTo[i], t) /\ ~Divides(TwoTo[i + 1], t)

-----------------------------------------------------------------------------
Goto(l) == pc' = l

OutOfRange == N <= 0 \/ D <= 1 \/ D >= N \/ E <= 1 \/ E >= N

\* T, order and the first base; D * E - 1 of a valid key is even.  The code
\* also refuses a P or Q that has memory already; here neither was written.
Prepare ==
  LET t == D * E - 1
  IN  /\ pc = "start"
      /\ \/ OutOfRange /\ Goto("bad") /\ UNCHANGED <<T, order, attempt>>
         \/ ~OutOfRange /\ Lsb(t) = 0 /\ Goto("bad") /\ UNCHANGED <<T, order, attempt>>
         \/ /\ ~OutOfRange /\ Lsb(t) > 0
            /\ order' = Lsb(t)
            /\ T' = t \div TwoTo[Lsb(t)]
            /\ attempt' = IF N % 8 = 1 THEN 2 ELSE 1
            /\ Goto("base")
      /\ UNCHANGED <<in, iter, K, P, Q>>

\* The next base, unless it has a factor with N.
Base ==
  LET b == primes[attempt]
  IN  /\ pc = "base" /\ attempt <= Len(primes) /\ N % 2 = 1
      /\ P' = Gcd(b, N)
      /\ IF P' # 1 THEN attempt' = attempt + 1 /\ UNCHANGED <<pc, iter, K, Q>>
                   ELSE /\ K' = ExpMod(b, T, N)
                        /\ Q' = Scratch
                        /\ iter' = 1
                        /\ Goto("square")
                        /\ UNCHANGED attempt
      /\ UNCHANGED <<in, T, order>>

\* There is no base left, or the external gcd refuses an even N.
GiveUp ==
  /\ pc = "base" /\ (attempt > Len(primes) \/ N % 2 = 0)
  /\ Goto("bad")
  /\ UNCHANGED <<in, T, order, attempt, iter, K, P, Q>>

\* Mutant: N itself is taken for a prime.
AnyFactor(f) == f > 1

IsFactor(f) == f > 1 /\ f < N

\* Mutant: the 1 that was added to K is not taken off again.
SquareOfNext == ((K + 1) * (K + 1)) % N

\* Mutant: the square is not reduced.
Unreduced == K * K

NextK == (K * K) % N

\* Mutant: the last of the squarings is left out.
RoundLeftOneShort == iter < order

RoundLeft == iter <= order

\* Mutant: Q is not computed.
DivisionForgotten ==
  /\ pc = "square" /\ RoundLeft /\ K # 1
  /\ P' = Gcd(K + 1, N)
  /\ IF IsFactor(P') THEN Goto("ok") /\ UNCHANGED <<iter, K>>
                     ELSE K' = NextK /\ iter' = iter + 1 /\ UNCHANGED pc
  /\ UNCHANGED <<in, T, order, attempt, Q>>

Square ==
  /\ pc = "square" /\ RoundLeft /\ K # 1
  /\ P' = Gcd(K + 1, N)
  /\ IF IsFactor(P')
       THEN Q' = N \div P' /\ Goto("ok") /\ UNCHANGED <<iter, K>>
       ELSE K' = NextK /\ iter' = iter + 1 /\ UNCHANGED <<pc, Q>>
  /\ UNCHANGED <<in, T, order, attempt>>

\* Mutant: the same base is tried again.
SameBase ==
  /\ pc = "square" /\ K = 1
  /\ Goto("base")
  /\ UNCHANGED <<in, T, order, attempt, iter, K, P, Q>>

\* K became 1 and never -1 modulo one factor only.
NextBase ==
  /\ pc = "square" /\ K = 1
  /\ attempt' = attempt + 1
  /\ Goto("base")
  /\ UNCHANGED <<in, T, order, iter, K, P, Q>>

\* E and D are not of a key with modulus N.
NotAKey ==
  /\ pc = "square" /\ ~RoundLeft /\ K # 1
  /\ Goto("bad")
  /\ UNCHANGED <<in, T, order, attempt, iter, K, P, Q>>

\* Memory runs out.  At a base, mbedtls_mpi_exp_mod can fail before and after it
\* wrote Q, and P is 1 by then; at the division the factor is in P already.
OutOfMemory ==
  /\ pc \in {"start", "base", "square"}
  /\ Goto("nomem")
  /\ \/ UNCHANGED <<P, Q>>
     \/ /\ pc = "base" /\ attempt <= Len(primes) /\ N % 2 = 1
        /\ P' = Gcd(primes[attempt], N) /\ P' = 1
        /\ Q' \in {Q, Scratch}
     \/ pc = "square" /\ RoundLeft /\ K # 1 /\ P' = Gcd(K + 1, N) /\ UNCHANGED Q
  /\ UNCHANGED <<in, T, order, attempt, iter, K>>

-----------------------------------------------------------------------------
Init ==
  /\ in \in Inputs
  /\ pc = "start"
  /\ T = 0 /\ order = 0 /\ attempt = 0 /\ iter = 0
  /\ K = 0 /\ P = 0 /\ Q = 0

Search == Prepare \/ Base \/ GiveUp \/ Square \/ NextBase \/ NotAKey

Next == Search \/ OutOfMemory

\* The call runs until it returns.
Spec == Init /\ [][Next]_vars /\ WF_vars(Next)

-----------------------------------------------------------------------------
(* What the numbers are.                                                   *)

PrimesOf(n) == {a \in 2..n : Divides(a, n) /\ IsPrime(a)}

\* N has two odd primes, and E and D are inverse modulo p - 1 for each of them.
IsKey ==
  /\ N % 2 = 1
  /\ \E p, q \in PrimesOf(N) :
       /\ p < q /\ p * q = N
       /\ Divides(p - 1, D * E - 1) /\ Divides(q - 1, D * E - 1)

\* The primes of real keys are longer than the bases.
IsRealKey == IsKey /\ \A i \in 1..Len(primes) : ~Divides(primes[i], N)

\* The numbers in P and Q as RsaContext abstracts them.
Abstract(v) == IF v = 0 THEN "zero" ELSE IF v \in PrimesOf(N) THEN "key" ELSE "junk"

Context == INSTANCE RsaContext
             WITH Key <- {"key"}, Zero <- "zero", Junk <- "junk",
                  ModulusBits <- [k \in {"key"} |-> 1], MpiMaxSize <- 1, MayFail <- TRUE

\* A context with a key's N, E and D, and with p and q in P and Q.
Holding(p, q) ==
  [mpi |-> [f \in Context!Field |->
              IF f = "P" THEN p ELSE IF f = "Q" THEN q
              ELSE IF f = "CRT" THEN "zero" ELSE "key"],
   len |-> 1]

AskedFor == Holding("zero", "zero")
Left     == [ctx |-> Holding(Abstract(P), Abstract(Q)), ok |-> pc = "ok"]

-----------------------------------------------------------------------------
(* Properties.                                                             *)

Returned == pc \in {"ok", "bad", "nomem"}

TypeOK ==
  /\ in \in Inputs
  /\ pc \in {"start", "base", "square", "ok", "bad", "nomem"}
  /\ T \in Nat /\ order \in Nat /\ iter \in 0..(order + 1)
  /\ attempt \in 0..(Len(primes) + 1)
  /\ K \in 0..N /\ P \in 0..N /\ Q \in Nat \cup {Scratch}

\* Whatever E and D are, rsa_deduce_primes succeeds only with two factors of
\* N, neither of them 1: mbedtls_rsa_complete relies on no other check.
FactorsAreFactors == pc = "ok" => P > 1 /\ Q > 1 /\ P * Q = N

\* The few bases are enough for keys: the search does not give up on one.
KeysAreFactored == pc = "bad" => OutOfRange \/ ~IsKey

\* The loop invariant: K is the base to the power of T * 2^(iter - 1).
KIsThePower ==
  pc = "square" => K = ExpMod(primes[attempt], T * TwoTo[iter - 1], N)

\* What the search leaves in P and Q of a context with the N, E and D of a real
\* key, at whatever point memory runs out, is one of the outcomes of
\* RsaContext!rsa_deduce_primes.
OutcomeOfRsaContext ==
  Returned => ~IsRealKey \/ Left \in Context!rsa_deduce_primes(AskedFor)

\* The loops end.
Returns == <>Returned
=============================================================================

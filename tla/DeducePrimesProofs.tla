------------------------ MODULE DeducePrimesProofs ---------------------------
(***************************************************************************)
(* The search of rsa_deduce_primes, for every modulus, every exponents and *)
(* every list of bases: what K is while it runs, what P and Q are when it  *)
(* ends, which keys it finds the primes of, and that it ends.              *)
(*                                                                         *)
(* Induction over the naturals is done by the least number principle: a    *)
(* set of naturals that is not empty has a least element, and the least    *)
(* number that breaks a claim is one that does not.                        *)
(***************************************************************************)
EXTENDS DeducePrimes, WellFoundedInduction, FiniteSetTheorems, TLAPS

\* The least number principle.
LEMMA Least ==
  ASSUME NEW S, S \subseteq Nat, S # {}
  PROVE  \E x \in S : \A y \in S : x <= y
<1>1. PICK R : R = {ss \in Nat \X Nat : ss[1] < ss[2]}
  OBVIOUS
<1>2. IsWellFoundedOn(R, Nat)
  BY <1>1, NatLessThanWellFounded, Zenon DEF OpToRel
<1>3. \A y, x \in Nat : y < x => <<y, x>> \in R
  BY <1>1
<1>4. \E x \in S : \A y \in S : ~ (<<y, x>> \in R)
  BY <1>2, WFMin
<1>5. PICK x \in S : \A y \in S : ~ (<<y, x>> \in R)
  BY <1>4
<1>6. \A y \in S : ~(y < x)
  BY <1>3, <1>5, Zenon
<1> QED
  BY <1>6

\* Max of a set that is not empty and bounded.
LEMMA Greatest ==
  ASSUME NEW S, NEW b \in Nat, S \subseteq 1 .. b, S # {}
  PROVE  Max(S) \in S /\ \A y \in S : Max(S) >= y
<1> DEFINE M == {b - x : x \in S}
<1>1. M \subseteq Nat /\ M # {}
  <2>1. \A x \in S : b - x \in Nat
    OBVIOUS
  <2>2. PICK x \in S : TRUE
    OBVIOUS
  <2>3. b - x \in M
    OBVIOUS
  <2> QED
    BY <2>1, <2>3
<1> HIDE DEF M
<1>2. PICK m \in M : \A y \in M : m <= y
  BY <1>1, Least
<1>3. PICK x \in S : m = b - x
  BY DEF M
<1>4. \A y \in S : b - x <= b - y
  BY <1>2, <1>3 DEF M
<1>5. \A y \in S : x >= y
  BY <1>4
<1> QED
  BY <1>5 DEF Max

-----------------------------------------------------------------------------
(* Division.                                                               *)

LEMMA Division ==
  ASSUME NEW a \in Int, NEW d \in Nat \ {0}
  PROVE  /\ a \div d \in Int /\ a % d \in 0 .. d - 1
         /\ a = d * (a \div d) + (a % d)
  OBVIOUS

LEMMA DivisionIsUnique ==
  ASSUME NEW d \in Nat \ {0}, NEW q \in Int, NEW r \in 0 .. d - 1, NEW a \in Int, a = d * q + r
  PROVE  a \div d = q /\ a % d = r
  OBVIOUS

\* Divides is what it is called.
LEMMA DividesIsAProduct ==
  ASSUME NEW d \in Nat \ {0}, NEW a \in Int
  PROVE  Divides(d, a) <=> \E q \in Int : a = d * q
<1>1. Divides(d, a) => a = d * (a \div d) /\ a \div d \in Int
  BY DEF Divides
<1>2. ASSUME NEW q \in Int, a = d * q PROVE Divides(d, a)
  BY <1>2, DivisionIsUnique DEF Divides
<1> QED
  BY <1>1, <1>2

\* The gcd is a divisor of both numbers.
LEMMA GcdDivides ==
  ASSUME NEW a \in Int, NEW b \in Nat \ {0}
  PROVE  Gcd(a, b) \in 1 .. b /\ Divides(Gcd(a, b), a) /\ Divides(Gcd(a, b), b)
<1> DEFINE S == {d \in 1 .. b : Divides(d, a) /\ Divides(d, b)}
<1>1. 1 \in S /\ S \subseteq 1 .. b
  BY DEF Divides
<1> HIDE DEF S
<1>2. Max(S) \in S
  BY <1>1, Greatest
<1>3. Gcd(a, b) = Max(S)
  BY DEF Gcd, S
<1> QED
  BY <1>2, <1>3 DEF S

-----------------------------------------------------------------------------
(* Recursion.                                                               *)

\* The value of f at i is computed by G from that at prev[i], a smaller number.
Earlier(prev) == \A i \in Nat \ {0} : prev[i] \in 0 .. i - 1
OnInt(G)      == \A i \in Nat, v \in Int : G[<<i, v>>] \in Int
Computed(f, c, prev, G) ==
  \A i \in Nat : f[i] = IF i = 0 THEN c ELSE G[<<i, f[prev[i]]>>]

\* A function whose value at i is computed from its value at an earlier argument
\* exists.
LEMMA Recursion ==
  ASSUME NEW c \in Int, NEW prev, NEW G, Earlier(prev), OnInt(G)
  PROVE  \E f \in [Nat -> Int] : Computed(f, c, prev, G)
<1> USE DEF Earlier, OnInt
<1> DEFINE Sat(g, n) ==
             /\ g \in [0 .. n -> Int]
             /\ \A i \in 0 .. n : g[i] = IF i = 0 THEN c ELSE G[<<i, g[prev[i]]>>]
<1>1. \A n \in Nat : \E g : Sat(g, n)
  <2> DEFINE B == {n \in Nat : ~ \E g : Sat(g, n)}
  <2> SUFFICES ASSUME B # {} PROVE FALSE
    OBVIOUS
  <2>1. B \subseteq Nat
    OBVIOUS
  <2>2. PICK m \in B : \A n \in B : m <= n
    BY <2>1, Least
  <2>3. CASE m = 0
    <3> DEFINE g == [i \in 0 .. 0 |-> c]
    <3>1. Sat(g, 0)
      OBVIOUS
    <3> QED
      BY <2>2, <2>3, <3>1
  <2>4. CASE m # 0
    <3>1. m - 1 \in Nat /\ m \in Nat /\ ~ (m <= m - 1)
      BY <2>2, <2>4
    <3>2. PICK h : Sat(h, m - 1)
      BY <2>2, <3>1
    <3> DEFINE g == [i \in 0 .. m |-> IF i = m THEN G[<<m, h[prev[m]]>>] ELSE h[i]]
    <3>3. prev[m] \in 0 .. m - 1 /\ h[prev[m]] \in Int
      BY <2>4, <3>1, <3>2
    <3>4. g \in [0 .. m -> Int]
      <4>1. G[<<m, h[prev[m]]>>] \in Int
        BY <3>1, <3>3
      <4>2. \A i \in 0 .. m : i # m => h[i] \in Int
        BY <3>1, <3>2
      <4> QED
        BY <4>1, <4>2
    <3>5. \A i \in 0 .. m - 1 : g[i] = h[i]
      BY <3>1
    <3>6. g[m] = G[<<m, g[prev[m]]>>]
      <4>1. g[m] = G[<<m, h[prev[m]]>>]
        BY <3>1
      <4>2. g[prev[m]] = h[prev[m]]
        BY <3>3, <3>5
      <4> HIDE DEF g
      <4> QED
        BY <4>1, <4>2
    <3>7. ASSUME NEW i \in 0 .. m, i # m
          PROVE  g[i] = IF i = 0 THEN c ELSE G[<<i, g[prev[i]]>>]
      <4>1. i \in 0 .. m - 1
        BY <3>1, <3>7
      <4>2. i # 0 => prev[i] \in 0 .. m - 1
        BY <3>1, <4>1
      <4>3. g[i] = h[i] /\ (i # 0 => g[prev[i]] = h[prev[i]])
        BY <3>5, <4>1, <4>2
      <4>4. h[i] = IF i = 0 THEN c ELSE G[<<i, h[prev[i]]>>]
        BY <3>2, <4>1
      <4> HIDE DEF g
      <4> QED
        BY <4>3, <4>4
    <3> HIDE DEF g
    <3>8. Sat(g, m)
      BY <2>4, <3>4, <3>6, <3>7
    <3> QED
      BY <2>2, <3>8
  <2> QED
    BY <2>3, <2>4
<1>2. ASSUME NEW n \in Nat, NEW m \in Nat, n <= m, NEW g, NEW h, Sat(g, n), Sat(h, m)
      PROVE  g[n] = h[n]
  <2> DEFINE B == {i \in 0 .. n : g[i] # h[i]}
  <2> SUFFICES ASSUME B # {} PROVE FALSE
    OBVIOUS
  <2>1. PICK i \in B : \A j \in B : i <= j
    <3>1. B \subseteq Nat
      OBVIOUS
    <3> QED
      BY <3>1, Least
  <2>2. i \in 0 .. n /\ i \in 0 .. m /\ g[i] # h[i]
    BY <1>2, <2>1
  <2>3. i # 0
    BY <1>2, <2>2
  <2>4. prev[i] \in 0 .. n /\ ~ (i <= prev[i])
    <3>1. i \in Nat \ {0} /\ i <= n
      BY <2>2, <2>3
    <3>2. prev[i] \in 0 .. i - 1
      BY <3>1
    <3> QED
      BY <3>1, <3>2
  <2>5. g[prev[i]] = h[prev[i]]
    BY <2>1, <2>4
  <2> QED
    BY <1>2, <2>2, <2>3, <2>5
<1> DEFINE Up(n) == CHOOSE g : Sat(g, n)
           f == [n \in Nat |-> Up(n)[n]]
<1>3. \A n \in Nat : Sat(Up(n), n)
  BY <1>1
<1> HIDE DEF Up
<1>4. f \in [Nat -> Int]
  <2>1. ASSUME NEW n \in Nat PROVE Up(n)[n] \in Int
    <3>1. Up(n) \in [0 .. n -> Int] /\ n \in 0 .. n
      BY <1>3
    <3> QED
      BY <3>1
  <2> QED
    BY <2>1
<1>5. ASSUME NEW i \in Nat
      PROVE  f[i] = IF i = 0 THEN c ELSE G[<<i, f[prev[i]]>>]
  <2>1. f[i] = IF i = 0 THEN c ELSE G[<<i, Up(i)[prev[i]]>>]
    <3>1. i \in 0 .. i /\ Sat(Up(i), i) /\ f[i] = Up(i)[i]
      BY <1>3
    <3> HIDE DEF f
    <3> QED
      BY <3>1
  <2>2. ASSUME i # 0 PROVE Up(i)[prev[i]] = f[prev[i]]
    <3> DEFINE j == prev[i]
    <3>1. j \in Nat /\ j <= i
      BY <2>2
    <3> HIDE DEF j
    <3>2. Sat(Up(j), j) /\ Sat(Up(i), i)
      BY <1>3, <3>1
    <3> HIDE DEF Sat
    <3>3. Up(j)[j] = Up(i)[j]
      BY <1>2, <3>1, <3>2
    <3> QED
      BY <3>1, <3>3 DEF j
  <2> QED
    BY <2>1, <2>2
<1> QED
  BY <1>4, <1>5 DEF Computed

-----------------------------------------------------------------------------
(* Powers of two.                                                          *)

\* TwoTo satisfies its definition.
LEMMA TwoToIsRecursive ==
  /\ TwoTo = [i \in Nat |-> IF i = 0 THEN 1 ELSE 2 * TwoTo[i - 1]]
  /\ \A i \in Nat : TwoTo[i] \in Int
<1>1. PICK prev : prev = [i \in Nat |-> i - 1]
  OBVIOUS
<1>2. PICK G : G = [x \in Nat \X Int |-> 2 * x[2]]
  OBVIOUS
<1>3. Earlier(prev)
  BY <1>1 DEF Earlier
<1>4. \A i \in Nat, v \in Int : G[<<i, v>>] = 2 * v /\ G[<<i, v>>] \in Int
  BY <1>2
<1>5. OnInt(G) /\ 1 \in Int
  BY <1>4 DEF OnInt
<1>6. PICK f \in [Nat -> Int] : Computed(f, 1, prev, G)
  BY <1>3, <1>5, Recursion
<1>7. f = [i \in Nat |-> IF i = 0 THEN 1 ELSE 2 * f[i - 1]]
  <2>1. ASSUME NEW i \in Nat, i # 0 PROVE f[i] = 2 * f[i - 1]
    <3>1. prev[i] = i - 1 /\ f[i - 1] \in Int
      BY <1>1, <2>1
    <3>2. f[i] = G[<<i, f[i - 1]>>]
      BY <1>6, <2>1, <3>1 DEF Computed
    <3> QED
      BY <1>4, <3>1, <3>2
  <2>2. f[0] = 1
    BY <1>6 DEF Computed
  <2> QED
    BY <2>1, <2>2
<1>8. TwoTo = [i \in Nat |-> IF i = 0 THEN 1 ELSE 2 * TwoTo[i - 1]]
  BY <1>7 DEF TwoTo
<1>9. \A i \in Nat : TwoTo[i] \in Int
  <2> DEFINE B == {i \in Nat : TwoTo[i] \notin Int}
  <2> SUFFICES ASSUME B # {} PROVE FALSE
    OBVIOUS
  <2>1. PICK i \in B : \A j \in B : i <= j
    <3>1. B \subseteq Nat
      OBVIOUS
    <3> QED
      BY <3>1, Least
  <2>2. \A j \in Nat : TwoTo[j] = IF j = 0 THEN 1 ELSE 2 * TwoTo[j - 1]
    BY <1>8
  <2>3. i \in Nat \ {0} /\ TwoTo[i] = 2 * TwoTo[i - 1] /\ TwoTo[i] \notin Int
    BY <2>1, <2>2
  <2>4. i - 1 \in Nat /\ ~ (i <= i - 1)
    BY <2>3
  <2>5. TwoTo[i - 1] \in Int
    BY <2>1, <2>4
  <2> QED
    BY <2>3, <2>5
<1> QED
  BY <1>8, <1>9

\* So every natural number is less than a power of two.
LEMMA TwoToGrows == \A i \in Nat : TwoTo[i] \in Nat /\ TwoTo[i] > i
<1> DEFINE B == {i \in Nat : ~ (TwoTo[i] > i)}
<1>1. ASSUME B # {} PROVE FALSE
  <2>1. PICK i \in B : \A j \in B : i <= j
    <3>1. B \subseteq Nat
      OBVIOUS
    <3> QED
      BY <1>1, <3>1, Least
  <2>2. \A j \in Nat : TwoTo[j] = IF j = 0 THEN 1 ELSE 2 * TwoTo[j - 1]
    BY TwoToIsRecursive
  <2>3. i \in Nat \ {0} /\ TwoTo[i] = 2 * TwoTo[i - 1] /\ ~ (TwoTo[i] > i)
    BY <2>1, <2>2
  <2>4. i - 1 \in Nat /\ ~ (i <= i - 1)
    BY <2>3
  <2>5. TwoTo[i - 1] \in Int /\ TwoTo[i - 1] > i - 1
    BY <2>1, <2>4, TwoToIsRecursive
  <2> QED
    BY <2>3, <2>5
<1>2. \A i \in Nat : TwoTo[i] > i
  BY <1>1
<1>3. \A i \in Nat : TwoTo[i] \in Int
  BY TwoToIsRecursive
<1> HIDE DEF B
<1> QED
  BY <1>2, <1>3

\* A number that is not 0 has a lowest bit, and what is above it is not 0.
LEMMA LsbIsThere ==
  ASSUME NEW t \in Nat \ {0}
  PROVE  Lsb(t) \in Nat /\ t \div TwoTo[Lsb(t)] \in Nat \ {0}
<1> DEFINE B == {i \in Nat : ~ Divides(TwoTo[i + 1], t)}
<1>1. PICK i \in B : \A j \in B : i <= j
  <2>1. \A d \in Nat : d > t => ~ Divides(d, t)
    BY DEF Divides
  <2>2. ~ Divides(TwoTo[t + 1], t)
    BY <2>1, TwoToGrows
  <2>3. t \in B /\ B \subseteq Nat
    BY <2>2
  <2> QED
    BY <2>3, Least
<1>2. Divides(TwoTo[i], t)
  <2>1. CASE i = 0
    BY <2>1, TwoToIsRecursive DEF Divides
  <2>2. CASE i # 0
    <3>1. i - 1 \in Nat /\ ~ (i <= i - 1) /\ (i - 1) + 1 = i
      BY <1>1, <2>2
    <3> QED
      BY <1>1, <3>1
  <2> QED
    BY <2>1, <2>2
<1>3. i <= t
  <2>1. TwoTo[i] \in Nat \ {0} /\ TwoTo[i] > i
    BY <1>1, TwoToGrows
  <2>2. TwoTo[i] <= t
    BY <1>2, <2>1 DEF Divides
  <2> QED
    BY <1>1, <2>1, <2>2
<1>4. /\ Lsb(t) \in 0 .. t
      /\ Divides(TwoTo[Lsb(t)], t)
  <2>1. i \in 0 .. t /\ ~ Divides(TwoTo[i + 1], t)
    BY <1>1, <1>3
  <2> QED
    BY <1>2, <2>1 DEF Lsb
<1>5. TwoTo[Lsb(t)] \in Nat \ {0}
  BY <1>4, TwoToGrows
<1>6. ASSUME NEW d \in Nat \ {0}, Divides(d, t) PROVE t \div d \in Nat \ {0}
  BY <1>6 DEF Divides
<1> QED
  BY <1>4, <1>5, <1>6

-----------------------------------------------------------------------------
(* Powers modulo n.                                                        *)

\* ExpMod satisfies its definition.
LEMMA ExpModIsRecursive ==
  ASSUME NEW a \in Int, NEW n \in Nat \ {0}
  PROVE  \A t \in Nat :
           /\ ExpMod(a, t, n) \in Int
           /\ ExpMod(a, t, n) =
                IF t = 0 THEN 1
                  ELSE LET h == ExpMod(a, t \div 2, n)
                       IN  (h * h * (IF t % 2 = 1 THEN a ELSE 1)) % n
<1> DEFINE Odd(i) == IF i % 2 = 1 THEN a ELSE 1
<1>1. PICK prev : prev = [i \in Nat |-> i \div 2]
  OBVIOUS
<1>2. PICK G : G = [x \in Nat \X Int |-> (x[2] * x[2] * Odd(x[1])) % n]
  OBVIOUS
<1>3. Earlier(prev)
  BY <1>1 DEF Earlier
<1>4. \A i \in Nat : Odd(i) \in Int
  OBVIOUS
<1> HIDE DEF Odd
<1>5. \A i \in Nat, v \in Int : G[<<i, v>>] = (v * v * Odd(i)) % n
  BY <1>2
<1>6. \A i \in Nat, v \in Int : (v * v * Odd(i)) % n \in Int
  <2>1. \A x \in Int : x % n \in Int
    OBVIOUS
  <2>2. \A x, y \in Int : x * y \in Int
    OBVIOUS
  <2> QED
    BY <1>4, <2>1, <2>2
<1>7. OnInt(G) /\ 1 \in Int
  BY <1>5, <1>6 DEF OnInt
<1>8. PICK f \in [Nat -> Int] : Computed(f, 1, prev, G)
  BY <1>3, <1>7, Recursion
<1>9. f = [i \in Nat |-> IF i = 0 THEN 1 ELSE (f[i \div 2] * f[i \div 2] * Odd(i)) % n]
  <2>1. ASSUME NEW i \in Nat, i # 0 PROVE f[i] = (f[i \div 2] * f[i \div 2] * Odd(i)) % n
    <3>1. prev[i] = i \div 2 /\ f[i \div 2] \in Int
      BY <1>1, <2>1
    <3>2. f[i] = G[<<i, f[i \div 2]>>]
      BY <1>8, <2>1, <3>1 DEF Computed
    <3> QED
      BY <1>5, <3>1, <3>2
  <2>2. f[0] = 1
    BY <1>8 DEF Computed
  <2> QED
    BY <2>1, <2>2
<1> DEFINE g == CHOOSE x : x = [i \in Nat |->
                   IF i = 0 THEN 1
                     ELSE LET h == x[i \div 2]
                          IN  (h * h * (IF i % 2 = 1 THEN a ELSE 1)) % n]
<1>10. \A t : ExpMod(a, t, n) = g[t]
  BY DEF ExpMod
<1>11. g = [i \in Nat |-> IF i = 0 THEN 1 ELSE (g[i \div 2] * g[i \div 2] * Odd(i)) % n]
  BY <1>9 DEF Odd
<1> HIDE DEF g
<1>12. \A i \in Nat : g[i] \in Int
  <2> DEFINE B == {i \in Nat : g[i] \notin Int}
  <2> SUFFICES ASSUME B # {} PROVE FALSE
    OBVIOUS
  <2>1. PICK i \in B : \A j \in B : i <= j
    <3>1. B \subseteq Nat
      OBVIOUS
    <3> QED
      BY <3>1, Least
  <2>2. i \in Nat \ {0} /\ g[i] = (g[i \div 2] * g[i \div 2] * Odd(i)) % n
    BY <1>11, <2>1
  <2>3. i \div 2 \in Nat /\ ~ (i <= i \div 2)
    BY <2>2
  <2>4. g[i \div 2] \in Int
    BY <2>1, <2>3
  <2>5. (g[i \div 2] * g[i \div 2] * Odd(i)) % n \in Int
    BY <1>6, <2>2, <2>4
  <2> QED
    BY <2>1, <2>2, <2>5
<1> QED
  BY <1>10, <1>11, <1>12 DEF Odd

\* A power is reduced, and its square is the power of twice the exponent.
LEMMA ExpModSquares ==
  ASSUME NEW a \in Int, NEW n \in Nat \ {0}, NEW t \in Nat \ {0}
  PROVE  /\ ExpMod(a, t, n) \in 0 .. n - 1
         /\ ExpMod(a, 2 * t, n) = (ExpMod(a, t, n) * ExpMod(a, t, n)) % n
<1> DEFINE k == ExpMod(a, t, n)
           h == ExpMod(a, t \div 2, n)
           o == IF t % 2 = 1 THEN a ELSE 1
<1>1. k \in Int /\ k = (h * h * o) % n
  BY ExpModIsRecursive
<1>2. h \in Int
  BY ExpModIsRecursive
<1>3. o \in Int
  OBVIOUS
<1>4. 2 * t \in Nat \ {0} /\ (2 * t) \div 2 = t /\ (2 * t) % 2 # 1
  OBVIOUS
<1>5. ExpMod(a, 2 * t, n) = (k * k * 1) % n
  <2>1. PICK u \in Nat : u = 2 * t
    OBVIOUS
  <2>2. ExpMod(a, u, n) = LET m == ExpMod(a, u \div 2, n)
                          IN  (m * m * (IF u % 2 = 1 THEN a ELSE 1)) % n
    BY <1>4, <2>1, ExpModIsRecursive
  <2> HIDE DEF k
  <2>3. ExpMod(a, u \div 2, n) = k
    BY <1>4, <2>1 DEF k
  <2> QED
    BY <1>4, <2>1, <2>2, <2>3
<1> HIDE DEF k, h, o
<1>6. h * h * o \in Int
  BY <1>2, <1>3
<1>7. k \in 0 .. n - 1
  BY <1>1, <1>6
<1>8. k * k * 1 = k * k
  BY <1>1
<1> QED
  BY <1>5, <1>7, <1>8 DEF k

-----------------------------------------------------------------------------
(* The invariant: at a base and while K is squared there is a modulus of   *)
(* at least 3 and an exponent T that is not 0.                             *)

SearchInv ==
  /\ TypeOK
  /\ pc = "start" => iter = 0
  /\ pc \in {"base", "square"} => N > 2 /\ T > 0 /\ attempt > 0
  /\ pc = "square" => attempt <= Len(primes) /\ iter > 0
  /\ FactorsAreFactors
  /\ KIsThePower

\* Each action preserves the invariant.
LEMMA PreparePreserves ==
  ASSUME SearchInv, Prepare
  PROVE  SearchInv'
<1> USE DEF N, E, D
<1>1. in.N \in Nat /\ in.E \in Nat /\ in.D \in Nat
  BY DeducePrimesAssumption DEF SearchInv, TypeOK
<1>2. CASE pc' = "bad"
  BY <1>2 DEF SearchInv, TypeOK, Prepare, Goto, FactorsAreFactors, KIsThePower
<1>3. CASE pc' # "bad"
  <2> DEFINE t == D * E - 1
  <2>1. /\ ~OutOfRange /\ order' = Lsb(t) /\ T' = t \div TwoTo[Lsb(t)]
        /\ attempt' \in {1, 2} /\ pc' = "base" /\ UNCHANGED <<in, iter, K, P, Q>>
        /\ Lsb(t) > 0 /\ pc = "start"
    BY <1>3 DEF Prepare, Goto
  <2>2. N > 2 /\ t \in Nat \ {0}
    BY <1>1, <2>1 DEF OutOfRange
  <2>3. order' \in Nat /\ T' \in Nat \ {0}
    BY <2>1, <2>2, LsbIsThere
  <2>4. Len(primes) \in Nat \ {0}
    BY DeducePrimesAssumption
  <2>5. iter' \in 0 .. order' + 1
    BY <2>1, <2>3 DEF SearchInv
  <2>6. attempt' \in 0 .. Len(primes) + 1 /\ attempt' > 0
    BY <2>1, <2>4
  <2> HIDE DEF t
  <2>7. TypeOK'
    BY <2>1, <2>3, <2>5, <2>6 DEF SearchInv, TypeOK
  <2> QED
    BY <2>1, <2>2, <2>3, <2>6, <2>7 DEF SearchInv, FactorsAreFactors, KIsThePower
<1> QED
  BY <1>2, <1>3

LEMMA BasePreserves ==
  ASSUME SearchInv, Base
  PROVE  SearchInv'
<1> DEFINE n == in.N
           b == primes[attempt]
<1>1. /\ pc = "base" /\ n \in Nat /\ n > 2 /\ T \in Nat \ {0} /\ attempt \in 1 .. Len(primes)
      /\ Len(primes) \in Nat /\ TypeOK /\ UNCHANGED <<in, T, order>>
      /\ P' = Gcd(b, n)
  BY DeducePrimesAssumption DEF SearchInv, TypeOK, Base, N
<1>2. b \in Int
  BY <1>1, DeducePrimesAssumption
<1> HIDE DEF b, n
<1>3. P' \in 0 .. n
  BY <1>1, <1>2, GcdDivides
<1>4. CASE P' # 1
  <2>1. attempt' = attempt + 1 /\ UNCHANGED <<pc, iter, K, Q>>
    BY <1>4 DEF Base
  <2>2. TypeOK'
    BY <1>1, <1>3, <2>1 DEF TypeOK, N, n
  <2> QED
    BY <1>1, <2>1, <2>2 DEF SearchInv, FactorsAreFactors, KIsThePower, N, n
<1>5. CASE P' = 1
  <2>1. /\ K' = ExpMod(b, T, n) /\ Q' = Scratch /\ iter' = 1 /\ pc' = "square"
        /\ attempt' = attempt
    BY <1>5 DEF Base, Goto, N, n, b
  <2>2. K' \in 0 .. n
    <3>1. PICK t \in Nat \ {0} : t = T
      BY <1>1
    <3>2. n \in Nat \ {0}
      BY <1>1
    <3>3. ExpMod(b, t, n) \in 0 .. n - 1
      BY <1>2, <3>2, ExpModSquares
    <3> QED
      BY <2>1, <3>1, <3>2, <3>3
  <2>3. TypeOK'
    BY <1>1, <1>3, <2>1, <2>2 DEF TypeOK, N, n
  <2>4. T * TwoTo[iter' - 1] = T
    BY <1>1, <2>1, TwoToIsRecursive
  <2>5. KIsThePower'
    BY <1>1, <2>1, <2>4 DEF KIsThePower, N, n, b
  <2> QED
    BY <1>1, <2>1, <2>3, <2>5 DEF SearchInv, FactorsAreFactors, N, n
<1> QED
  BY <1>4, <1>5

LEMMA SquarePreserves ==
  ASSUME SearchInv, Square
  PROVE  SearchInv'
<1> DEFINE n == in.N
           b == primes[attempt]
           e == T * TwoTo[iter - 1]
<1>1. /\ pc = "square" /\ n \in Nat /\ n > 2 /\ T \in Nat \ {0} /\ attempt \in 1 .. Len(primes)
      /\ iter \in Nat \ {0} /\ iter <= order /\ order \in Nat /\ K \in Nat
      /\ Len(primes) \in Nat /\ TypeOK /\ UNCHANGED <<in, T, order, attempt>>
      /\ P' = Gcd(K + 1, n) /\ K = ExpMod(b, e, n)
  BY DeducePrimesAssumption DEF SearchInv, TypeOK, Square, RoundLeft, KIsThePower, N
<1>2. b \in Int
  BY <1>1, DeducePrimesAssumption
<1> HIDE DEF b, n
<1>3. P' \in 1 .. n /\ Divides(P', n)
  BY <1>1, GcdDivides
<1>4. CASE IsFactor(P')
  <2>1. Q' = n \div P' /\ pc' = "ok" /\ UNCHANGED <<iter, K>>
    BY <1>4 DEF Square, Goto, N, n
  <2>2. P' > 1 /\ P' < n
    BY <1>4 DEF IsFactor, N, n
  <2>3. \A p \in 1 .. n : p > 1 /\ p < n /\ Divides(p, n)
                          => p * (n \div p) = n /\ n \div p > 1 /\ n \div p \in Nat
    BY <1>1 DEF Divides
  <2>4. P' * Q' = n /\ Q' > 1 /\ Q' \in Nat
    BY <1>3, <2>1, <2>2, <2>3
  <2>5. TypeOK'
    BY <1>1, <1>3, <2>1, <2>4 DEF TypeOK, N, n
  <2> QED
    BY <1>1, <2>1, <2>2, <2>4, <2>5 DEF SearchInv, FactorsAreFactors, KIsThePower, N, n
<1>5. CASE ~IsFactor(P')
  <2>1. K' = (K * K) % n /\ iter' = iter + 1 /\ UNCHANGED <<pc, Q>>
    BY <1>5 DEF Square, NextK, N, n
  <2>2. K' \in 0 .. n
    <3>1. K * K \in Int
      BY <1>1
    <3> QED
      BY <1>1, <2>1, <3>1
  <2>3. TypeOK'
    BY <1>1, <1>3, <2>1, <2>2 DEF TypeOK, N, n
  <2>4. e \in Nat \ {0} /\ T * TwoTo[iter' - 1] = 2 * e
    <3>1. iter - 1 \in Nat /\ iter \in Nat /\ iter # 0 /\ iter' - 1 = iter
      BY <1>1, <2>1
    <3>2. TwoTo[iter - 1] \in Nat \ {0}
      BY <3>1, TwoToGrows
    <3>3. TwoTo[iter] = 2 * TwoTo[iter - 1]
      BY <3>1, TwoToIsRecursive
    <3> QED
      BY <1>1, <3>1, <3>2, <3>3
  <2> HIDE DEF e
  <2>5. K' = ExpMod(b, 2 * e, n)
    BY <1>1, <1>2, <2>1, <2>4, ExpModSquares
  <2>6. KIsThePower'
    BY <1>1, <2>1, <2>4, <2>5 DEF KIsThePower, N, n, b
  <2> QED
    BY <1>1, <2>1, <2>3, <2>6 DEF SearchInv, FactorsAreFactors, N, n
<1> QED
  BY <1>4, <1>5

\* The other steps compute nothing but a gcd that nobody reads.
LEMMA OthersPreserve ==
  ASSUME SearchInv, GiveUp \/ NextBase \/ NotAKey \/ OutOfMemory \/ UNCHANGED vars
  PROVE  SearchInv'
<1> DEFINE n == in.N
<1>1. n \in Nat /\ UNCHANGED <<in, T, order, iter, K>> /\ TypeOK /\ Len(primes) \in Nat
  <2>1. UNCHANGED <<in, T, order, iter, K>>
    BY DEF GiveUp, NextBase, NotAKey, OutOfMemory, vars
  <2>2. Len(primes) \in Nat /\ Inputs \subseteq [N : Nat, E : Nat, D : Nat]
    BY DeducePrimesAssumption
  <2>3. in \in Inputs /\ TypeOK
    BY DEF SearchInv, TypeOK
  <2> QED
    BY <2>1, <2>2, <2>3
<1> HIDE DEF n
<1>2. CASE GiveUp \/ NotAKey
  BY <1>1, <1>2
  DEF SearchInv, TypeOK, GiveUp, NotAKey, Goto, FactorsAreFactors, KIsThePower, N, n
<1>3. CASE NextBase
  <2>1. attempt' = attempt + 1 /\ attempt \in 1 .. Len(primes) /\ pc = "square" /\ pc' = "base"
        /\ UNCHANGED <<P, Q>>
    BY <1>1, <1>3 DEF SearchInv, TypeOK, NextBase, Goto
  <2>2. TypeOK'
    BY <1>1, <2>1 DEF TypeOK, N, n
  <2> QED
    BY <1>1, <2>1, <2>2 DEF SearchInv, FactorsAreFactors, KIsThePower, N, n
<1>4. CASE OutOfMemory
  <2>1. pc' = "nomem" /\ attempt' = attempt
    BY <1>4 DEF OutOfMemory, Goto
  <2>2. P' \in 0 .. n /\ Q' \in Nat \cup {Scratch}
    <3>1. CASE UNCHANGED <<P, Q>>
      BY <1>1, <3>1 DEF TypeOK, N, n
    <3>2. CASE pc = "base" /\ Q' \in {Q, Scratch} /\ P' = 1
      BY <1>1, <3>2 DEF SearchInv, TypeOK, N, n
    <3>3. CASE pc = "square" /\ P' = Gcd(K + 1, N) /\ UNCHANGED Q
      <4>1. n \in Nat \ {0} /\ K + 1 \in Int
        BY <1>1, <3>3 DEF SearchInv, TypeOK, N, n
      <4>2. Gcd(K + 1, n) \in 1 .. n
        BY <4>1, GcdDivides
      <4>3. P' \in 0 .. n
        BY <3>3, <4>1, <4>2 DEF N, n
      <4> QED
        BY <1>1, <3>3, <4>3 DEF TypeOK
    <3> QED
      BY <1>4, <3>1, <3>2, <3>3 DEF OutOfMemory
  <2>3. TypeOK'
    BY <1>1, <2>1, <2>2 DEF TypeOK, N, n
  <2> QED
    BY <2>1, <2>3 DEF SearchInv, FactorsAreFactors, KIsThePower
<1>5. CASE UNCHANGED vars
  BY <1>5 DEF SearchInv, TypeOK, vars, FactorsAreFactors, KIsThePower, N
<1> QED
  BY <1>2, <1>3, <1>4, <1>5

\* Every reachable state satisfies the invariant.
THEOREM SearchInvariance == Spec => []SearchInv
<1>1. Init => SearchInv
  <2> SUFFICES ASSUME Init PROVE SearchInv
    OBVIOUS
  <2>1. in.N \in Nat /\ Len(primes) \in Nat
    BY DeducePrimesAssumption DEF Init
  <2> QED
    BY <2>1 DEF Init, SearchInv, TypeOK, FactorsAreFactors, KIsThePower, N
<1>2. SearchInv /\ [Next]_vars => SearchInv'
  BY PreparePreserves, BasePreserves, SquarePreserves, OthersPreserve DEF Next, Search
<1> QED
  BY <1>1, <1>2, PTL DEF Spec

\* The variables of the search have their types: every number that it works
\* with is reduced, and it never squares more than once beyond order.
THEOREM SearchTypeCorrect == Spec => []TypeOK
<1>1. SearchInv => TypeOK
  BY DEF SearchInv
<1> QED
  BY <1>1, SearchInvariance, PTL

\* Whatever E and D are, rsa_deduce_primes succeeds with two factors of N only:
\* mbedtls_rsa_complete checks nothing more of them.
THEOREM FactorsAreOfTheModulus == Spec => []FactorsAreFactors
<1>1. SearchInv => FactorsAreFactors
  BY DEF SearchInv
<1> QED
  BY <1>1, SearchInvariance, PTL

\* The loop invariant of the squarings.
THEOREM PowersAreRight == Spec => []KIsThePower
<1>1. SearchInv => KIsThePower
  BY DEF SearchInv
<1> QED
  BY <1>1, SearchInvariance, PTL

-----------------------------------------------------------------------------
(* Factors of a product of two primes.                                     *)

\* A prime has no divisors but one and itself.
LEMMA DivisorsOfAPrime ==
  ASSUME NEW p \in Nat, IsPrime(p), NEW d \in Nat \ {0}, Divides(d, p)
  PROVE  d = 1 \/ d = p
<1>1. p > 1
  BY DEF IsPrime
<1>2. d <= p
  BY <1>1 DEF Divides
<1> QED
  BY <1>1, <1>2 DEF IsPrime

\* Euclid's lemma.  The multiples m of which p divides m * b are the multiples
\* of the least of them.
LEMMA Euclid ==
  ASSUME NEW p \in Nat, IsPrime(p), NEW a \in Nat \ {0}, NEW b \in Nat, Divides(p, a * b)
  PROVE  Divides(p, a) \/ Divides(p, b)
<1> DEFINE S == {m \in Nat \ {0} : Divides(p, m * b)}
<1>1. p \in Nat \ {0}
  BY DEF IsPrime
<1>2. p \in S /\ a \in S
  <2>1. p * b \in Int /\ Divides(p, p * b)
    BY <1>1, DividesIsAProduct
  <2> QED
    BY <1>1, <2>1
<1>3. PICK m \in S : \A x \in S : m <= x
  <2>1. S \subseteq Nat /\ S # {}
    BY <1>2
  <2> HIDE DEF S
  <2> QED
    BY <2>1, Least
<1>4. m \in Nat \ {0} /\ Divides(p, m * b)
  BY <1>3
<1>5. ASSUME NEW x \in S PROVE Divides(m, x)
  <2> DEFINE q == x \div m
             r == x % m
  <2>1. x \in Nat \ {0} /\ Divides(p, x * b)
    BY <1>5
  <2>2. q \in Int /\ r \in 0 .. m - 1 /\ x = m * q + r
    BY <1>4, <2>1, Division
  <2> HIDE DEF q, r
  <2>3. PICK u \in Int : x * b = p * u
    <3>1. x * b \in Int
      BY <2>1
    <3> QED
      BY <1>1, <2>1, <3>1, DividesIsAProduct
  <2>4. PICK v \in Int : m * b = p * v
    <3>1. m * b \in Int
      BY <1>4
    <3> QED
      BY <1>1, <1>4, <3>1, DividesIsAProduct
  <2>5. r * b = p * (u - v * q)
    <3>1. x * b = (m * q) * b + r * b
      BY <1>4, <2>2
    <3>2. (m * q) * b = (m * b) * q
      BY <1>4, <2>2
    <3>3. (p * v) * q = p * (v * q)
      BY <1>1, <2>2
    <3>4. r * b = p * u - p * (v * q)
      BY <1>1, <2>2, <2>3, <2>4, <3>1, <3>2, <3>3
    <3>5. PICK w \in Int : w = v * q
      BY <2>2
    <3>6. p * u - p * w = p * (u - w)
      BY <1>1
    <3> QED
      BY <3>4, <3>5, <3>6
  <2>6. Divides(p, r * b)
    <3>1. r * b \in Int /\ u - v * q \in Int
      BY <2>2
    <3> QED
      BY <1>1, <2>5, <3>1, DividesIsAProduct
  <2>7. r = 0
    <3>1. r # 0 => r \in S /\ ~ (m <= r)
      BY <1>4, <2>2, <2>6
    <3> QED
      BY <1>3, <3>1
  <2> QED
    BY <2>7 DEF Divides, r
<1>6. Divides(m, p) /\ Divides(m, a)
  BY <1>2, <1>5
<1>7. CASE m = p
  BY <1>6, <1>7
<1>8. CASE m = 1
  <2>1. m * b = b
    BY <1>8
  <2> QED
    BY <1>4, <2>1
<1> QED
  BY <1>4, <1>6, <1>7, <1>8, DivisorsOfAPrime

\* The factors of a product of two primes are the two.
LEMMA FactorsOfTwoPrimes ==
  ASSUME NEW p \in Nat, IsPrime(p), NEW q \in Nat, IsPrime(q),
         NEW f \in Nat, f > 1, NEW g \in Nat, g > 1, f * g = p * q
  PROVE  f \in {p, q} /\ g \in {p, q}
<1>1. p \in Nat \ {0, 1} /\ q \in Nat \ {0, 1}
  BY DEF IsPrime
<1>2. ASSUME NEW x \in Nat, x > 1, NEW y \in Nat, y > 1, x * y = p * q, Divides(p, x)
      PROVE  x = p /\ y = q
  <2>1. PICK u \in Int : x = p * u
    BY <1>1, <1>2, DividesIsAProduct
  <2>2. u \in Nat \ {0}
    BY <1>1, <1>2, <2>1
  <2>3. u * y = q
    <3>1. p * (u * y) = p * q
      BY <1>1, <1>2, <2>1, <2>2
    <3>2. \A v \in Int : p * v = p * q => v = q
      BY <1>1
    <3> QED
      BY <1>2, <2>2, <3>1, <3>2
  <2>4. Divides(u, q)
    BY <1>1, <1>2, <2>2, <2>3, DividesIsAProduct
  <2>5. u # q
    <3>1. u = q => q * y = q
      BY <2>3
    <3>2. \A v \in Nat : v > 1 => q * v # q
      BY <1>1
    <3> QED
      BY <1>2, <3>1, <3>2
  <2>6. u = 1
    BY <2>2, <2>4, <2>5, DivisorsOfAPrime
  <2> QED
    BY <1>1, <1>2, <2>1, <2>3, <2>6
<1>3. Divides(p, f * g)
  <2>1. p * q \in Int
    BY <1>1
  <2> QED
    BY <1>1, <2>1, DividesIsAProduct
<1>4. Divides(p, f) \/ Divides(p, g)
  BY <1>3, Euclid
<1>5. g * f = p * q
  OBVIOUS
<1> QED
  BY <1>2, <1>4, <1>5

-----------------------------------------------------------------------------
(* The outcome, as RsaContext has it.                                      *)

\* The outcomes that the search has to be one of.
LEMMA OutcomesOfRsaContext ==
  /\ [ctx |-> Holding("key", "key"), ok |-> TRUE] \in Context!rsa_deduce_primes(AskedFor)
  /\ \A pq \in {<<"zero", "zero">>, <<"junk", "zero">>, <<"junk", "junk">>, <<"key", "junk">>} :
       [ctx |-> Holding(pq[1], pq[2]), ok |-> FALSE] \in Context!rsa_deduce_primes(AskedFor)
<1> DEFINE F == Context!Field
<1>1. F = {"N", "P", "Q", "D", "E", "CRT"}
  BY DEF Context!Field, Context!Part
<1>2. PICK m : m = Holding("zero", "zero").mpi
  OBVIOUS
<1>3. AskedFor = [mpi |-> m, len |-> 1] /\ AskedFor.mpi = m
  BY <1>2 DEF AskedFor, Holding
<1> DEFINE W(p, q) == [f \in F |-> IF f = "P" THEN p ELSE IF f = "Q" THEN q ELSE m[f]]
<1>4. \A p, q : Holding(p, q) = [mpi |-> W(p, q), len |-> 1]
  <2> SUFFICES ASSUME NEW p, NEW q PROVE Holding(p, q).mpi = W(p, q)
    BY DEF Holding
  <2>1. \A f \in F : m[f] = IF f \in {"P", "Q", "CRT"} THEN "zero" ELSE "key"
    BY <1>2 DEF Holding
  <2> QED
    BY <2>1 DEF Holding
<1>5. AskedFor = Holding("zero", "zero")
  BY DEF AskedFor
<1>6. \A v : Context!Put(AskedFor, {"P", "Q"}, v) = Holding(v, v)
  <2> SUFFICES ASSUME NEW v PROVE Context!Put(AskedFor, {"P", "Q"}, v) = Holding(v, v)
    OBVIOUS
  <2>1. Context!Put(AskedFor, {"P", "Q"}, v)
          = [mpi |-> [f \in F |-> IF f \in {"P", "Q"} THEN v ELSE m[f]], len |-> 1]
    BY <1>3 DEF Context!Put
  <2>2. [f \in F |-> IF f \in {"P", "Q"} THEN v ELSE m[f]] = W(v, v)
    OBVIOUS
  <2> QED
    BY <1>4, <2>1, <2>2
<1>7. \A p, q : Context!Put(Context!Put(AskedFor, {"P"}, p), {"Q"}, q) = Holding(p, q)
  <2> SUFFICES ASSUME NEW p, NEW q
               PROVE  Context!Put(Context!Put(AskedFor, {"P"}, p), {"Q"}, q) = Holding(p, q)
    OBVIOUS
  <2> DEFINE n == [f \in F |-> IF f \in {"P"} THEN p ELSE m[f]]
  <2>1. Context!Put(AskedFor, {"P"}, p) = [mpi |-> n, len |-> 1]
    BY <1>3 DEF Context!Put
  <2> HIDE DEF n
  <2>2. Context!Put([mpi |-> n, len |-> 1], {"Q"}, q)
          = [mpi |-> [f \in F |-> IF f \in {"Q"} THEN q ELSE n[f]], len |-> 1]
    BY DEF Context!Put
  <2>3. [f \in F |-> IF f \in {"Q"} THEN q ELSE n[f]] = W(p, q)
    BY DEF n
  <2> QED
    BY <1>4, <2>1, <2>2, <2>3
<1>8. Context!KeyOf(AskedFor, {"N", "D", "E"}) = "key"
  <2>1. \A f \in {"N", "D", "E"} : AskedFor.mpi[f] = "key"
    BY <1>1, <1>2, <1>3 DEF Holding
  <2> QED
    BY <2>1 DEF Context!KeyOf
<1>9. Context!ComputationFails("key") /\ "key" # "junk"
  BY DEF Context!ComputationFails
<1> HIDE DEF W, F
<1>10. /\ Context!Done(Holding("key", "key")) \in Context!rsa_deduce_primes(AskedFor)
       /\ Context!Failed(AskedFor) \in Context!rsa_deduce_primes(AskedFor)
       /\ Context!Failed(Holding("junk", "zero")) \in Context!rsa_deduce_primes(AskedFor)
       /\ Context!Failed(Holding("junk", "junk")) \in Context!rsa_deduce_primes(AskedFor)
       /\ Context!Failed(Holding("key", "junk")) \in Context!rsa_deduce_primes(AskedFor)
  BY <1>6, <1>7, <1>8, <1>9 DEF Context!rsa_deduce_primes, Context!When
<1> QED
  BY <1>5, <1>10 DEF Context!Done, Context!Failed

\* Until it succeeds, the search of a real key wrote to neither P nor Q or to
\* both, no base having a factor with the key; when memory runs out between the
\* two for the first base, it has written a 1 to P alone.
OutcomeInv ==
  /\ pc = "start" => P = 0 /\ Q = 0
  /\ pc = "square" => Q = Scratch
  /\ IsRealKey /\ pc # "ok" => \/ P = 0 /\ Q = 0
                               \/ P > 0 /\ Q = Scratch
                               \/ pc = "nomem" /\ P = 1 /\ Q = 0

\* Every step preserves the invariant.
LEMMA OutcomeNext ==
  ASSUME SearchInv, OutcomeInv, [Next]_vars
  PROVE  OutcomeInv'
<1> DEFINE n == in.N
<1>1. n \in Nat /\ TypeOK
  BY DeducePrimesAssumption DEF SearchInv, TypeOK
<1> HIDE DEF n
<1>2. in' = in /\ (IsRealKey' => IsRealKey)
  <2>1. in' = in
    BY DEF Next, Search, Prepare, Base, GiveUp, Square, NextBase, NotAKey, OutOfMemory, vars
  <2> QED
    BY <2>1 DEF IsRealKey, IsKey, PrimesOf, N, E, D
<1>3. CASE Prepare \/ GiveUp \/ NextBase \/ NotAKey \/ UNCHANGED vars
  <2>1. \/ UNCHANGED <<P, Q>> /\ pc \notin {"ok", "nomem"} /\ pc' \notin {"start", "square"}
        \/ UNCHANGED <<P, Q, pc>>
    BY <1>3 DEF Prepare, GiveUp, NextBase, NotAKey, vars, Goto
  <2> QED
    BY <1>2, <2>1 DEF OutcomeInv
<1>4. CASE Base
  <2> DEFINE b == primes[attempt]
  <2>1. /\ pc = "base" /\ attempt \in 1 .. Len(primes) /\ n \in Nat \ {0} /\ P' = Gcd(b, n)
    BY <1>1, <1>4 DEF Base, SearchInv, TypeOK, N, n
  <2>2. b \in Nat /\ IsPrime(b)
    BY <2>1, DeducePrimesAssumption
  <2>3. IsRealKey => P' = 1
    <3>1. P' \in Nat \ {0} /\ Divides(P', b) /\ Divides(P', n)
      <4> HIDE DEF b
      <4>1. b \in Int
        BY <2>2
      <4>2. Gcd(b, n) \in 1 .. n /\ Divides(Gcd(b, n), b) /\ Divides(Gcd(b, n), n)
        BY <2>1, <4>1, GcdDivides
      <4> QED
        BY <2>1, <4>2
    <3>2. P' = 1 \/ P' = b
      <4> HIDE DEF b
      <4>1. PICK d \in Nat \ {0} : d = P'
        BY <3>1
      <4> QED
        BY <2>2, <3>1, <4>1, DivisorsOfAPrime
    <3> QED
      BY <2>1, <3>1, <3>2 DEF IsRealKey, N, n
  <2>4. P' # 1 => pc' = "base"
    BY <1>4, <2>1 DEF Base
  <2>5. P' = 1 => Q' = Scratch /\ pc' = "square"
    BY <1>4 DEF Base, Goto
  <2> QED
    BY <1>2, <2>3, <2>4, <2>5 DEF OutcomeInv
<1>5. ASSUME pc = "square", P' = Gcd(K + 1, N), pc' # "ok" => Q' = Q, pc' # "start"
      PROVE  OutcomeInv'
  <2>1. n \in Nat \ {0} /\ K + 1 \in Int
    BY <1>1, <1>5 DEF SearchInv, TypeOK, N, n
  <2>2. P' > 0
    <3>1. Gcd(K + 1, n) \in 1 .. n
      BY <2>1, GcdDivides
    <3> QED
      BY <1>5, <3>1 DEF N, n
  <2> QED
    BY <1>2, <1>5, <2>2 DEF OutcomeInv
<1>6. CASE Square
  BY <1>5, <1>6 DEF Square, Goto
<1>7. CASE OutOfMemory
  <2>1. pc' = "nomem" /\ pc # "ok"
    BY <1>7 DEF OutOfMemory, Goto
  <2>2. CASE UNCHANGED <<P, Q>>
    BY <1>2, <2>1, <2>2 DEF OutcomeInv
  <2>3. CASE pc = "base" /\ Q' \in {Q, Scratch} /\ P' = 1
    BY <1>2, <2>1, <2>3 DEF OutcomeInv
  <2>4. CASE pc = "square" /\ P' = Gcd(K + 1, N) /\ UNCHANGED Q
    BY <1>5, <2>1, <2>4
  <2> QED
    BY <1>7, <2>2, <2>3, <2>4 DEF OutOfMemory
<1> QED
  BY <1>3, <1>4, <1>6, <1>7 DEF Next, Search

\* What a search on the modulus of a key leaves in P and Q, at every point where
\* rsa_deduce_primes can fail.
THEOREM OutcomeInvariance == Spec => []OutcomeInv
<1>1. Init => OutcomeInv
  BY DEF Init, OutcomeInv
<1>2. SearchInv /\ OutcomeInv /\ [Next]_vars => OutcomeInv'
  BY OutcomeNext
<1> QED
  BY <1>1, <1>2, SearchInvariance, PTL DEF Spec

\* What the search leaves in P and Q of the context of a real key is what
\* RsaContext says that it may: the key's primes when it succeeds, and when it
\* fails nothing, or scratch values, of which P may be one of the primes.
THEOREM SearchIsAStepOfRsaContext == Spec => []OutcomeOfRsaContext
<1>1. ASSUME SearchInv, OutcomeInv PROVE OutcomeOfRsaContext
  <2> SUFFICES ASSUME Returned, IsRealKey
               PROVE  Left \in Context!rsa_deduce_primes(AskedFor)
    BY DEF OutcomeOfRsaContext
  <2>1. in.N \in Nat /\ P \in 0 .. in.N /\ Q \in Nat \cup {Scratch}
    BY <1>1, DeducePrimesAssumption DEF SearchInv, TypeOK, N
  <2>2. CASE pc = "ok"
    <3>1. P > 1 /\ Q > 1 /\ P * Q = N
      BY <1>1, <2>2 DEF SearchInv, FactorsAreFactors
    <3>2. PICK p \in PrimesOf(N), q \in PrimesOf(N) : p * q = N
      BY DEF IsRealKey, IsKey
    <3>3. p \in Nat /\ IsPrime(p) /\ q \in Nat /\ IsPrime(q)
      BY <2>1 DEF PrimesOf, N
    <3>4. P \in Nat /\ Q \in Nat
      BY <2>1, <3>1, DeducePrimesAssumption
    <3>5. P \in {p, q} /\ Q \in {p, q}
      BY <3>1, <3>2, <3>3, <3>4, FactorsOfTwoPrimes
    <3>6. Abstract(P) = "key" /\ Abstract(Q) = "key"
      BY <3>1, <3>2, <3>4, <3>5 DEF Abstract
    <3> QED
      BY <2>2, <3>6, OutcomesOfRsaContext DEF Left
  <2>3. CASE pc # "ok"
    <3>1. (P = 0 /\ Q = 0) \/ (P > 0 /\ Q = Scratch) \/ (P = 1 /\ Q = 0)
      BY <1>1, <2>3 DEF OutcomeInv
    <3>2. \/ Abstract(P) = "zero" /\ Abstract(Q) = "zero"
          \/ Abstract(P) \in {"key", "junk"} /\ Abstract(Q) = "junk"
          \/ Abstract(P) = "junk" /\ Abstract(Q) = "zero"
      <4>1. CASE P = 0 /\ Q = 0
        BY <4>1 DEF Abstract
      <4>2. CASE P > 0 /\ Q = Scratch
        <5>1. P # 0 /\ Q # 0 /\ Q \notin PrimesOf(N)
          BY <2>1, <4>2, DeducePrimesAssumption DEF PrimesOf, N
        <5> QED
          BY <5>1 DEF Abstract
      <4>3. CASE P = 1 /\ Q = 0
        <5>1. P \notin PrimesOf(N)
          BY <2>1, <4>3 DEF PrimesOf, N
        <5> QED
          BY <4>3, <5>1 DEF Abstract
      <4> QED
        BY <3>1, <4>1, <4>2, <4>3
    <3>3. PICK a, b : a = Abstract(P) /\ b = Abstract(Q)
      OBVIOUS
    <3>4. <<a, b>> \in {<<"zero", "zero">>, <<"junk", "zero">>, <<"junk", "junk">>, <<"key", "junk">>}
      BY <3>2, <3>3
    <3>5. [ctx |-> Holding(a, b), ok |-> FALSE] \in Context!rsa_deduce_primes(AskedFor)
      BY <3>4, OutcomesOfRsaContext
    <3>6. (pc = "ok") = FALSE
      BY <2>3
    <3> QED
      BY <3>3, <3>5, <3>6, Zenon DEF Left
  <2> QED
    BY <2>2, <2>3
<1> QED
  BY <1>1, SearchInvariance, OutcomeInvariance, PTL

-----------------------------------------------------------------------------
(* Arithmetic modulo n.                                                    *)

\* What the steps below use of products of integers.
LEMMA Products ==
  /\ \A x, y, z \in Int : x * (y + z) = x * y + x * z /\ x * (y - z) = x * y - x * z
  /\ \A x, y, z \in Int : (x * y) * z = x * (y * z) /\ x * y = y * x /\ x * y \in Int
  OBVIOUS

\* A remainder is below n, and what is below n is its own remainder.
LEMMA ModIsReduced ==
  ASSUME NEW n \in Nat \ {0}, NEW a \in Int
  PROVE  a % n \in 0 .. n - 1 /\ (a \in 0 .. n - 1 => a % n = a)
<1>1. a % n \in 0 .. n - 1
  BY Division
<1>2. a \in 0 .. n - 1 => a % n = a
  <2>1. a = n * 0 + a
    OBVIOUS
  <2> QED
    BY <2>1, DivisionIsUnique
<1> QED
  BY <1>1, <1>2

\* A factor may be reduced before it is multiplied.
LEMMA ModMul ==
  ASSUME NEW n \in Nat \ {0}, NEW a \in Int, NEW b \in Int
  PROVE  ((a % n) * b) % n = (a * b) % n
<1>1. PICK q \in Int, r \in 0 .. n - 1 : a = n * q + r /\ r = a % n
  BY Division
<1>2. r * b \in Int
  OBVIOUS
<1>3. PICK u \in Int, v \in 0 .. n - 1 : r * b = n * u + v /\ v = (r * b) % n
  BY <1>2, Division
<1>4. a * b = n * (q * b + u) + v
  <2>1. a = n * q + r /\ r * b = n * u + v
    BY <1>1, <1>3
  <2>2. a * b = (n * q) * b + r * b
    BY <2>1
  <2>3. (n * q) * b = n * (q * b)
    BY Products
  <2>4. n * (q * b + u) = n * (q * b) + n * u
    <3>1. q * b \in Int
      OBVIOUS
    <3> QED
      BY <3>1, Products
  <2> QED
    BY <2>1, <2>2, <2>3, <2>4
<1>5. q * b + u \in Int /\ a * b \in Int
  OBVIOUS
<1>6. (a * b) % n = v
  <2>1. PICK w \in Int, z \in Int : w = q * b + u /\ z = a * b
    BY <1>5
  <2>2. z = n * w + v
    BY <1>4, <2>1
  <2>3. z % n = v
    BY <2>2, DivisionIsUnique
  <2> QED
    BY <2>1, <2>3
<1> QED
  BY <1>1, <1>3, <1>6

\* A number that divides the modulus may reduce first.
LEMMA ModOfDivisor ==
  ASSUME NEW n \in Nat \ {0}, NEW d \in Nat \ {0}, Divides(d, n), NEW a \in Int
  PROVE  (a % n) % d = a % d
<1>1. PICK q \in Int, r \in 0 .. n - 1 : a = n * q + r /\ r = a % n
  BY Division
<1>2. PICK m \in Int : n = d * m
  BY DividesIsAProduct
<1>3. PICK u \in Int, v \in 0 .. d - 1 : r = d * u + v /\ v = r % d
  <2>1. r \in Int
    OBVIOUS
  <2> QED
    BY <2>1, Division
<1>4. a = d * (m * q + u) + v
  <2>1. a = n * q + r /\ n = d * m /\ r = d * u + v
    BY <1>1, <1>2, <1>3
  <2>2. (d * m) * q = d * (m * q) /\ m * q \in Int
    BY Products
  <2>3. d * (m * q + u) = d * (m * q) + d * u
    BY <2>2, Products
  <2>4. a = (d * m) * q + (d * u + v)
    BY <2>1
  <2> QED
    BY <2>2, <2>3, <2>4
<1>5. m * q + u \in Int
  BY <1>2
<1>6. a % d = v
  <2>1. PICK w \in Int : w = m * q + u
    BY <1>5
  <2>2. a = d * w + v
    BY <1>4, <2>1
  <2> QED
    BY <2>2, DivisionIsUnique
<1> QED
  BY <1>1, <1>3, <1>6

\* Two numbers with the same remainder differ by a multiple.
LEMMA SameRemainder ==
  ASSUME NEW n \in Nat \ {0}, NEW a \in Int, NEW b \in Int
  PROVE  a % n = b % n <=> Divides(n, a - b)
<1>1. PICK q \in Int, r \in 0 .. n - 1 : a = n * q + r /\ r = a % n
  BY Division
<1>2. PICK u \in Int, v \in 0 .. n - 1 : b = n * u + v /\ v = b % n
  BY Division
<1>3. ASSUME r = v PROVE Divides(n, a - b)
  <2>1. a - b = n * (q - u)
    <3>1. a = n * q + r /\ b = n * u + r
      BY <1>1, <1>2, <1>3
    <3>2. n * (q - u) = n * q - n * u
      BY Products
    <3> QED
      BY <3>1, <3>2
  <2>2. q - u \in Int /\ a - b \in Int
    OBVIOUS
  <2> QED
    BY <2>1, <2>2, DividesIsAProduct
<1>4. ASSUME Divides(n, a - b) PROVE r = v
  <2>1. PICK w \in Int : a - b = n * w
    BY <1>4, DividesIsAProduct
  <2>2. a = n * (u + w) + v
    <3>1. n * (u + w) = n * u + n * w
      BY Products
    <3>2. b = n * u + v
      BY <1>2
    <3> QED
      BY <2>1, <3>1, <3>2
  <2>3. PICK z \in Int : z = u + w
    OBVIOUS
  <2>4. a % n = v
    BY <2>2, <2>3, DivisionIsUnique
  <2> QED
    BY <1>1, <2>4
<1> QED
  BY <1>1, <1>2, <1>3, <1>4

\* A factor that is not divisible by a prime can be cancelled modulo the prime.
LEMMA Cancel ==
  ASSUME NEW p \in Nat, IsPrime(p), NEW b \in Nat, ~Divides(p, b),
         NEW x \in 0 .. p - 1, NEW y \in 0 .. p - 1, (x * b) % p = (y * b) % p
  PROVE  x = y
<1>0. p \in Nat \ {0} /\ p > 1
  BY DEF IsPrime
<1>1. ASSUME NEW u \in 0 .. p - 1, NEW v \in 0 .. p - 1, u < v, (u * b) % p = (v * b) % p
      PROVE  FALSE
  <2>1. u * b \in Int /\ v * b \in Int /\ v - u \in Nat \ {0}
    BY <1>1
  <2>2. Divides(p, v * b - u * b)
    BY <1>0, <1>1, <2>1, SameRemainder
  <2>3. v * b - u * b = (v - u) * b
    OBVIOUS
  <2>4. Divides(p, v - u)
    BY <2>1, <2>2, <2>3, Euclid
  <2>5. v - u < p
    BY <1>0
  <2> QED
    BY <1>0, <2>1, <2>4, <2>5 DEF Divides
<1> QED
  BY <1>0, <1>1

-----------------------------------------------------------------------------
(* Laws of powers.                                                          *)

\* The next power.
LEMMA ExpModNext ==
  ASSUME NEW a \in Int, NEW n \in Nat \ {0}, NEW t \in Nat
  PROVE  ExpMod(a, t + 1, n) = (ExpMod(a, t, n) * a) % n
<1> DEFINE X(s) == ExpMod(a, s, n)
           B == {s \in Nat : X(s + 1) # (X(s) * a) % n}
<1>1. \A s \in Nat : X(s) \in Int
  BY ExpModIsRecursive
<1>2. /\ X(0) = 1
      /\ \A s \in Nat \ {0} :
           X(s) = (X(s \div 2) * X(s \div 2) * (IF s % 2 = 1 THEN a ELSE 1)) % n
  BY ExpModIsRecursive
<1> HIDE DEF X
<1> SUFFICES ASSUME B # {} PROVE FALSE
  BY DEF X
<1>3. PICK s \in B : \A r \in B : s <= r
  <2>1. B \subseteq Nat
    OBVIOUS
  <2> QED
    BY <2>1, Least
<1>4. s \in Nat /\ X(s + 1) # (X(s) * a) % n
  BY <1>3
<1> DEFINE h == s \div 2
<1>5. h \in Nat /\ X(h) \in Int /\ X(s) \in Int
  BY <1>1, <1>4
<1>6. CASE s = 0
  <2>1. (0 + 1) \div 2 = 0 /\ (0 + 1) % 2 = 1 /\ 0 + 1 \in Nat \ {0}
    OBVIOUS
  <2>2. X(0 + 1) = (1 * 1 * a) % n
    BY <1>2, <2>1
  <2>3. 1 * 1 * a = 1 * a
    OBVIOUS
  <2> QED
    BY <1>2, <1>4, <1>6, <2>2, <2>3
<1>7. CASE s # 0 /\ s % 2 = 0
  <2>1. (s + 1) \div 2 = h /\ (s + 1) % 2 = 1 /\ s + 1 \in Nat \ {0} /\ s % 2 # 1 /\ s \in Nat \ {0}
    BY <1>4, <1>7
  <2>2. X(s + 1) = (X(h) * X(h) * a) % n
    BY <1>2, <2>1
  <2>3. X(s) = (X(h) * X(h) * 1) % n
    BY <1>2, <2>1
  <2>4. X(h) * X(h) * 1 = X(h) * X(h) /\ X(h) * X(h) \in Int
    BY <1>5
  <2>5. (((X(h) * X(h)) % n) * a) % n = (X(h) * X(h) * a) % n
    BY <2>4, ModMul
  <2> QED
    BY <1>4, <2>2, <2>3, <2>4, <2>5
<1>8. CASE s % 2 = 1
  <2>1. /\ (s + 1) \div 2 = h + 1 /\ (s + 1) % 2 # 1 /\ s + 1 \in Nat \ {0} /\ s \in Nat \ {0}
        /\ ~ (s <= h) /\ h + 1 \in Nat
    BY <1>4, <1>8
  <2>2. X(h + 1) = (X(h) * a) % n
    BY <1>3, <1>5, <2>1
  <2>3. X(s + 1) = (X(h + 1) * X(h + 1) * 1) % n
    BY <1>2, <2>1
  <2>4. X(s) = (X(h) * X(h) * a) % n
    BY <1>2, <1>8, <2>1
  <2> HIDE DEF h
  <2>5. PICK x \in Int : x = X(h)
    BY <1>5
  <2>6. PICK y \in Int : y = (x * a) % n
    <3>1. PICK z \in Int : z = x * a
      OBVIOUS
    <3>2. z % n \in Int
      OBVIOUS
    <3> QED
      BY <3>1, <3>2
  <2>7. (y * y) % n = ((x * a) * y) % n
    <3>1. x * a \in Int
      OBVIOUS
    <3> QED
      BY <2>6, <3>1, ModMul
  <2>8. ((x * a) * y) % n = (((x * a) % n) * (x * a)) % n
    <3>1. x * a \in Int /\ (x * a) * y = y * (x * a)
      BY Products
    <3> QED
      BY <2>6, <3>1
  <2>9. (((x * a) % n) * (x * a)) % n = ((x * a) * (x * a)) % n
    <3>1. x * a \in Int
      OBVIOUS
    <3> QED
      BY <3>1, ModMul
  <2>10. (x * a) * (x * a) = (x * x * a) * a
    <3>1. x * a \in Int /\ x * x \in Int
      OBVIOUS
    <3>2. (x * a) * (x * a) = x * (a * (x * a))
      BY <3>1, Products
    <3>3. a * (x * a) = (x * a) * a
      BY <3>1, Products
    <3>4. x * ((x * a) * a) = (x * (x * a)) * a
      BY <3>1, Products
    <3>5. x * (x * a) = (x * x) * a
      BY Products
    <3> QED
      BY <3>2, <3>3, <3>4, <3>5
  <2>11. ((x * x * a) * a) % n = (((x * x * a) % n) * a) % n
    <3>1. x * x * a \in Int
      OBVIOUS
    <3> QED
      BY <3>1, ModMul
  <2>12. y * y * 1 = y * y
    OBVIOUS
  <2>13. X(s + 1) = (y * y) % n
    BY <2>2, <2>3, <2>5, <2>6, <2>12
  <2>14. X(s) = (x * x * a) % n
    BY <2>4, <2>5
  <2> QED
    BY <1>4, <2>7, <2>8, <2>9, <2>10, <2>11, <2>13, <2>14
<1>9. s % 2 = 0 \/ s % 2 = 1
  BY <1>4
<1> QED
  BY <1>6, <1>7, <1>8, <1>9

\* The first powers, and the range of all of them.
LEMMA ExpModFirst ==
  ASSUME NEW a \in Int, NEW n \in Nat, n > 1
  PROVE  /\ ExpMod(a, 0, n) = 1 /\ ExpMod(a, 1, n) = a % n
         /\ \A t \in Nat : ExpMod(a, t, n) \in 0 .. n - 1
<1>1. n \in Nat \ {0}
  OBVIOUS
<1>2. ExpMod(a, 0, n) = 1
  BY <1>1, ExpModIsRecursive
<1>3. ExpMod(a, 0 + 1, n) = (1 * a) % n
  BY <1>1, <1>2, ExpModNext
<1>4. \A t \in Nat \ {0} : ExpMod(a, t, n) \in 0 .. n - 1
  BY <1>1, ExpModSquares
<1>5. 1 * a = a /\ 0 + 1 = 1
  OBVIOUS
<1>6. 1 \in 0 .. n - 1 
  OBVIOUS
<1> QED
  BY <1>2, <1>3, <1>4, <1>5, <1>6

-----------------------------------------------------------------------------
(* Laws of powers.                                                         *)

\* Induction: a set with 0 and with the successors of its members has every number.
LEMMA AllNumbers ==
  ASSUME NEW S, 0 \in S, \A i \in Nat : i \in S => i + 1 \in S
  PROVE  \A i \in Nat : i \in S
<1> DEFINE B == {i \in Nat : i \notin S}
<1> SUFFICES ASSUME B # {} PROVE FALSE
  OBVIOUS
<1>1. PICK i \in B : \A j \in B : i <= j
  <2>1. B \subseteq Nat
    OBVIOUS
  <2> QED
    BY <2>1, Least
<1>2. i \in Nat /\ i \notin S /\ i # 0
  BY <1>1
<1>3. i - 1 \in Nat /\ ~ (i <= i - 1) /\ (i - 1) + 1 = i
  BY <1>2
<1>4. i - 1 \in S
  BY <1>1, <1>3
<1> QED
  BY <1>2, <1>3, <1>4

\* The sum of exponents.
LEMMA ExpModAdd ==
  ASSUME NEW a \in Int, NEW n \in Nat, n > 1, NEW s \in Nat
  PROVE  \A t \in Nat : ExpMod(a, s + t, n) = (ExpMod(a, s, n) * ExpMod(a, t, n)) % n
<1>1. n \in Nat \ {0}
  OBVIOUS
<1> DEFINE X(t) == ExpMod(a, t, n)
<1>2. X(0) = 1 /\ \A t \in Nat : X(t) \in 0 .. n - 1
  BY ExpModFirst
<1>3. \A t \in Nat : X(t + 1) = (X(t) * a) % n
  BY <1>1, ExpModNext
<1> HIDE DEF X
<1> DEFINE S == {t \in Nat : X(s + t) = (X(s) * X(t)) % n}
<1>4. 0 \in S
  <2>1. PICK x \in 0 .. n - 1 : x = X(s)
    BY <1>2
  <2>2. s + 0 = s /\ x * 1 = x
    OBVIOUS
  <2>3. x % n = x
    BY <1>1, ModIsReduced
  <2> QED
    BY <1>2, <2>1, <2>2, <2>3
<1>5. ASSUME NEW t \in Nat, t \in S PROVE t + 1 \in S
  <2>1. s + (t + 1) = (s + t) + 1 /\ s + t \in Nat
    OBVIOUS
  <2>2. PICK x \in Int, y \in Int : x = X(s) /\ y = X(t)
    BY <1>2
  <2>3. X(s + t) = (x * y) % n
    BY <1>5, <2>2
  <2>4. X(s + (t + 1)) = (((x * y) % n) * a) % n
    BY <1>3, <2>1, <2>3
  <2>5. (((x * y) % n) * a) % n = ((x * y) * a) % n
    <3>1. x * y \in Int
      OBVIOUS
    <3> QED
      BY <1>1, <3>1, ModMul
  <2>6. X(t + 1) = (y * a) % n
    BY <1>3, <2>2
  <2>7. (((y * a) % n) * x) % n = ((y * a) * x) % n
    <3>1. y * a \in Int
      OBVIOUS
    <3> QED
      BY <1>1, <3>1, ModMul
  <2>8. (y * a) * x = (x * y) * a
    <3>1. y * a \in Int
      OBVIOUS
    <3>2. (y * a) * x = x * (y * a)
      BY <3>1, Products
    <3> QED
      BY <3>2, Products
  <2>9. x * ((y * a) % n) = ((y * a) % n) * x
    <3>1. (y * a) % n \in Int
      BY <1>2, <2>6
    <3> QED
      BY <3>1, Products
  <2> QED
    BY <2>2, <2>4, <2>5, <2>6, <2>7, <2>8, <2>9
<1> HIDE DEF S
<1>6. \A t \in Nat : t \in S
  BY <1>4, <1>5, AllNumbers
<1> QED
  BY <1>6 DEF S, X

\* The product of exponents.
LEMMA ExpModTimes ==
  ASSUME NEW a \in Int, NEW n \in Nat, n > 1, NEW s \in Nat
  PROVE  \A t \in Nat : ExpMod(a, s * t, n) = ExpMod(ExpMod(a, s, n), t, n)
<1>1. n \in Nat \ {0}
  OBVIOUS
<1> DEFINE X(t) == ExpMod(a, t, n)
           b    == X(s)
           Y(t) == ExpMod(b, t, n)
<1>2. X(0) = 1 /\ \A t \in Nat : X(t) \in 0 .. n - 1
  BY ExpModFirst
<1>3. b \in Int
  BY <1>2
<1>4. Y(0) = 1 /\ \A t \in Nat : Y(t) \in 0 .. n - 1 /\ Y(t + 1) = (Y(t) * b) % n
  <2> HIDE DEF b
  <2> QED
    BY <1>1, <1>3, ExpModFirst, ExpModNext
<1>5. \A r, t \in Nat : X(r + t) = (X(r) * X(t)) % n
  BY ExpModAdd
<1> HIDE DEF X, Y
<1> DEFINE S == {t \in Nat : X(s * t) = Y(t)}
<1>6. 0 \in S
  <2>1. s * 0 = 0
    OBVIOUS
  <2> QED
    BY <1>2, <1>4, <2>1
<1>7. ASSUME NEW t \in Nat, t \in S PROVE t + 1 \in S
  <2>1. s * (t + 1) = s * t + s /\ s * t \in Nat
    OBVIOUS
  <2>2. X(s * (t + 1)) = (X(s * t) * X(s)) % n
    BY <1>5, <2>1
  <2> QED
    BY <1>4, <1>7, <2>2
<1> HIDE DEF S
<1>8. \A t \in Nat : t \in S
  BY <1>6, <1>7, AllNumbers
<1> QED
  BY <1>8 DEF S, X, Y

\* A power modulo n, reduced modulo a divisor of n, is the power of what the base
\* is modulo the divisor.
LEMMA ExpModOfDivisor ==
  ASSUME NEW a \in Int, NEW n \in Nat, n > 1, NEW d \in Nat, d > 1, Divides(d, n)
  PROVE  \A t \in Nat : ExpMod(a, t, n) % d = ExpMod(a, t, d)
<1>1. n \in Nat \ {0} /\ d \in Nat \ {0}
  OBVIOUS
<1> DEFINE X(t) == ExpMod(a, t, n)
           Y(t) == ExpMod(a, t, d)
<1>2. X(0) = 1 /\ \A t \in Nat : X(t) \in 0 .. n - 1 /\ X(t + 1) = (X(t) * a) % n
  BY <1>1, ExpModFirst, ExpModNext
<1>3. Y(0) = 1 /\ \A t \in Nat : Y(t) \in 0 .. d - 1 /\ Y(t + 1) = (Y(t) * a) % d
  BY <1>1, ExpModFirst, ExpModNext
<1> HIDE DEF X, Y
<1> DEFINE S == {t \in Nat : X(t) % d = Y(t)}
<1>4. 0 \in S
  <2>1. PICK o \in Int : o = 1 /\ o \in 0 .. d - 1
    OBVIOUS
  <2>2. o % d = o
    BY <1>1, <2>1, ModIsReduced
  <2> QED
    BY <1>2, <1>3, <2>1, <2>2
<1>5. ASSUME NEW t \in Nat, t \in S PROVE t + 1 \in S
  <2>1. PICK x \in Int : x = X(t)
    BY <1>2
  <2>2. X(t + 1) % d = (x * a) % d
    <3>1. PICK z \in Int : z = x * a
      OBVIOUS
    <3>2. (z % n) % d = z % d
      BY <1>1, ModOfDivisor
    <3> QED
      BY <1>2, <2>1, <3>1, <3>2
  <2>3. ((x % d) * a) % d = (x * a) % d
    BY <1>1, ModMul
  <2> QED
    BY <1>3, <1>5, <2>1, <2>2, <2>3
<1> HIDE DEF S
<1>6. \A t \in Nat : t \in S
  BY <1>4, <1>5, AllNumbers
<1> QED
  BY <1>6 DEF S, X, Y

\* 1 and its square are 1 modulo n.
LEMMA OneIsReduced ==
  ASSUME NEW n \in Nat, n > 1
  PROVE  1 % n = 1 /\ (1 * 1) % n = 1
<1>1. PICK o \in 0 .. n - 1 : o = 1
  OBVIOUS
<1>2. o % n = o
  <2>1. n \in Nat \ {0}
    OBVIOUS
  <2> QED
    BY <2>1, ModIsReduced
<1>3. 1 * 1 = 1
  OBVIOUS
<1> QED
  BY <1>1, <1>2, <1>3

\* Powers of 1 and of -1.
LEMMA PowersOfOne ==
  ASSUME NEW n \in Nat, n > 1
  PROVE  \A t \in Nat : ExpMod(1, t, n) = 1
<1>1. n \in Nat \ {0} /\ 1 \in Int /\ 1 \in 0 .. n - 1
  OBVIOUS
<1> DEFINE X(t) == ExpMod(1, t, n)
           S == {t \in Nat : X(t) = 1}
<1>2. X(0) = 1 /\ \A t \in Nat : X(t + 1) = (X(t) * 1) % n
  BY <1>1, ExpModFirst, ExpModNext
<1>3. (1 * 1) % n = 1
  BY OneIsReduced
<1> HIDE DEF X
<1>4. 0 \in S /\ \A t \in Nat : t \in S => t + 1 \in S
  BY <1>2, <1>3
<1> HIDE DEF S
<1>5. \A t \in Nat : t \in S
  BY <1>4, AllNumbers
<1> QED
  BY <1>5 DEF S, X

\* The powers of -1 modulo n.
LEMMA PowersOfMinusOne ==
  ASSUME NEW n \in Nat, n > 1
  PROVE  \A t \in Nat : ExpMod(n - 1, t, n) = IF t % 2 = 0 THEN 1 ELSE n - 1
<1>1. n \in Nat \ {0} /\ n - 1 \in Int /\ n - 1 \in 0 .. n - 1 /\ 1 \in 0 .. n - 1
  OBVIOUS
<1> DEFINE X(t) == ExpMod(n - 1, t, n)
           S == {t \in Nat : X(t) = IF t % 2 = 0 THEN 1 ELSE n - 1}
<1>2. X(0) = 1 /\ \A t \in Nat : X(t + 1) = (X(t) * (n - 1)) % n
  BY <1>1, ExpModFirst, ExpModNext
<1>3. (1 * (n - 1)) % n = n - 1
  <2>1. PICK m \in 0 .. n - 1 : m = n - 1
    OBVIOUS
  <2>2. m % n = m
    BY <1>1, ModIsReduced
  <2>3. 1 * m = m
    OBVIOUS
  <2> QED
    BY <2>1, <2>2, <2>3
<1>4. ((n - 1) * (n - 1)) % n = 1
  <2>1. (n - 1) * (n - 1) = n * (n - 2) + 1
    OBVIOUS
  <2>2. PICK w \in Int, z \in Int : w = n - 2 /\ z = (n - 1) * (n - 1)
    OBVIOUS
  <2>3. z = n * w + 1
    BY <2>1, <2>2
  <2>4. z % n = 1
    BY <1>1, <2>3, DivisionIsUnique
  <2> QED
    BY <2>2, <2>4
<1> HIDE DEF X
<1>5. 0 \in S
  BY <1>2
<1>6. ASSUME NEW t \in Nat, t \in S PROVE t + 1 \in S
  <2>1. CASE t % 2 = 0
    <3>1. (t + 1) % 2 # 0 /\ t + 1 \in Nat
      BY <2>1
    <3>2. X(t) = 1
      BY <1>6, <2>1
    <3>3. X(t + 1) = n - 1
      BY <1>2, <1>3, <3>2
    <3> QED
      BY <3>1, <3>3
  <2>2. CASE t % 2 # 0
    <3>1. (t + 1) % 2 = 0 /\ t + 1 \in Nat
      BY <2>2
    <3>2. X(t) = n - 1
      BY <1>6, <2>2
    <3>3. X(t + 1) = 1
      BY <1>2, <1>4, <3>2
    <3> QED
      BY <3>1, <3>3
  <2> QED
    BY <2>1, <2>2
<1> HIDE DEF S
<1>7. \A t \in Nat : t \in S
  BY <1>5, <1>6, AllNumbers
<1> QED
  BY <1>7 DEF S, X

\* The square roots of 1 modulo an odd prime are 1 and -1.
LEMMA RootsOfOne ==
  ASSUME NEW p \in Nat, IsPrime(p), NEW x \in 0 .. p - 1, (x * x) % p = 1
  PROVE  x = 1 \/ x = p - 1
<1>1. p \in Nat \ {0} /\ p > 1
  BY DEF IsPrime
<1>2. x # 0
  <2>1. 0 % p = 0
    BY <1>1
  <2> QED
    BY <1>1, <2>1
<1>3. x - 1 \in Nat /\ x + 1 \in Nat \ {0} /\ x * x \in Int /\ x * x - 1 \in Int
  BY <1>2
<1>4. 1 % p = 1
  BY <1>1, OneIsReduced
<1>5. Divides(p, x * x - 1)
  <2>1. PICK z \in Int, o \in Int : z = x * x /\ o = 1
    OBVIOUS
  <2>2. z % p = o % p
    BY <1>4, <2>1
  <2>3. Divides(p, z - o)
    BY <1>1, <2>2, SameRemainder
  <2> QED
    BY <2>1, <2>3
<1>6. x * x - 1 = (x + 1) * (x - 1)
  OBVIOUS
<1>7. Divides(p, x + 1) \/ Divides(p, x - 1)
  BY <1>3, <1>5, <1>6, Euclid
<1>8. Divides(p, x - 1) => x - 1 = 0
  BY <1>1, <1>3 DEF Divides
<1>9. Divides(p, x + 1) => x + 1 = p
  <2>1. x + 1 < p => (x + 1) % p = x + 1
    <3>1. x + 1 < p => x + 1 \in 0 .. p - 1
      OBVIOUS
    <3> QED
      BY <1>1, <1>3, <3>1, ModIsReduced
  <2> QED
    BY <1>3, <2>1 DEF Divides
<1> QED
  BY <1>7, <1>8, <1>9

-----------------------------------------------------------------------------
(* The order of a base modulo a prime.                                     *)

\* A prime that does not divide b divides no power of b: powers of b modulo p are
\* not 0, and the last factor can be taken off again.
LEMMA PowersStayUnits ==
  ASSUME NEW p \in Nat, IsPrime(p), NEW b \in Nat, ~Divides(p, b)
  PROVE  \A t \in Nat : ExpMod(b, t, p) \in 1 .. p - 1
<1>1. p \in Nat \ {0} /\ p > 1
  BY DEF IsPrime
<1> DEFINE X(t) == ExpMod(b, t, p)
           S == {t \in Nat : X(t) # 0}
<1>2. X(0) = 1 /\ \A t \in Nat : X(t) \in 0 .. p - 1 /\ X(t + 1) = (X(t) * b) % p
  <2>1. b \in Int
    OBVIOUS
  <2> QED
    BY <1>1, <2>1, ExpModFirst, ExpModNext
<1> HIDE DEF X
<1>3. 0 \in S
  BY <1>2
<1>4. ASSUME NEW t \in Nat, t \in S PROVE t + 1 \in S
  <2>1. PICK x \in 0 .. p - 1 : x = X(t)
    BY <1>2
  <2>2. X(t + 1) = (x * b) % p
    BY <1>2, <2>1
  <2>3. x # 0
    BY <1>4, <2>1
  <2>4. PICK z \in 0 .. p - 1 : z = 0
    BY <1>1
  <2>5. z * b = 0 /\ 0 % p = 0
    BY <1>1, <2>4
  <2>6. (x * b) % p # (z * b) % p
    BY <2>3, <2>4, Cancel
  <2> QED
    BY <2>2, <2>5, <2>6
<1> HIDE DEF S
<1>5. \A t \in Nat : t \in S
  BY <1>3, <1>4, AllNumbers
<1>6. \A t \in Nat : X(t) # 0 /\ X(t) \in 0 .. p - 1
  BY <1>2, <1>5 DEF S
<1>7. \A t \in Nat : X(t) \in 1 .. p - 1
  BY <1>1, <1>6
<1> QED
  BY <1>7 DEF X

\* The order of b modulo p.
IsOrder(d, b, p) ==
  /\ d \in Nat \ {0} /\ ExpMod(b, d, p) = 1
  /\ \A i \in 1 .. d - 1 : ExpMod(b, i, p) # 1

\* Powers that are equal differ by an exponent that gives 1.
LEMMA EqualPowers ==
  ASSUME NEW p \in Nat, IsPrime(p), NEW b \in Nat, ~Divides(p, b)
  PROVE  \A i \in Nat : \A k \in Nat : ExpMod(b, i, p) = ExpMod(b, i + k, p) => ExpMod(b, k, p) = 1
<1>1. p \in Nat \ {0} /\ p > 1
  BY DEF IsPrime
<1> DEFINE X(t) == ExpMod(b, t, p)
           S == {i \in Nat : \A k \in Nat : X(i) = X(i + k) => X(k) = 1}
<1>2. X(0) = 1 /\ \A t \in Nat : X(t) \in 0 .. p - 1 /\ X(t + 1) = (X(t) * b) % p
  <2>1. b \in Int
    OBVIOUS
  <2> QED
    BY <1>1, <2>1, ExpModFirst, ExpModNext
<1> HIDE DEF X
<1>3. 0 \in S
  <2>1. \A k \in Nat : 0 + k = k
    OBVIOUS
  <2> QED
    BY <1>2, <2>1
<1>4. ASSUME NEW i \in Nat, i \in S PROVE i + 1 \in S
  <2> SUFFICES ASSUME NEW k \in Nat, X(i + 1) = X((i + 1) + k) PROVE X(k) = 1
    OBVIOUS
  <2>1. (i + 1) + k = (i + k) + 1 /\ i + k \in Nat
    OBVIOUS
  <2>2. (X(i) * b) % p = (X(i + k) * b) % p
    BY <1>2, <2>1
  <2>3. X(i) = X(i + k)
    BY <1>2, <2>1, <2>2, Cancel
  <2> QED
    BY <1>4, <2>3
<1> HIDE DEF S
<1>5. \A i \in Nat : i \in S
  BY <1>3, <1>4, AllNumbers
<1> QED
  BY <1>5 DEF S, X

\* There is an order: among p powers there are two that are equal.
LEMMA OrderExists ==
  ASSUME NEW p \in Nat, IsPrime(p), NEW b \in Nat, ~Divides(p, b)
  PROVE  \E d : IsOrder(d, b, p)
<1>1. p \in Nat \ {0} /\ p > 1
  BY DEF IsPrime
<1>2. \A t \in Nat : ExpMod(b, t, p) \in 1 .. p - 1
  BY PowersStayUnits
<1>3. PICK f : f = [i \in 1 .. p |-> ExpMod(b, i, p)]
  OBVIOUS
<1>4. f \in [1 .. p -> 1 .. p - 1]
  <2>1. \A i \in 1 .. p : i \in Nat
    OBVIOUS
  <2> QED
    BY <1>2, <1>3, <2>1
<1>5. /\ IsFiniteSet(1 .. p) /\ IsFiniteSet(1 .. p - 1)
      /\ Cardinality(1 .. p - 1) < Cardinality(1 .. p)
  <2>1. PICK m \in Int, o \in Int : m = p - 1 /\ o = 1
    OBVIOUS
  <2>2. IsFiniteSet(o .. p) /\ Cardinality(o .. p) = p
    BY <1>1, <2>1, FS_Interval
  <2>3. IsFiniteSet(o .. m) /\ Cardinality(o .. m) = p - 1
    BY <1>1, <2>1, FS_Interval
  <2> QED
    BY <2>1, <2>2, <2>3
<1>6. PICK i \in 1 .. p, j \in 1 .. p : i < j /\ f[i] = f[j]
  <2>1. PICK i \in 1 .. p, j \in 1 .. p : i # j /\ f[i] = f[j]
    BY <1>4, <1>5, FS_PigeonHole
  <2> QED
    BY <2>1
<1> DEFINE S == {k \in Nat \ {0} : ExpMod(b, k, p) = 1}
<1>7. j - i \in S
  <2>1. PICK k \in Nat \ {0} : k = j - i
    BY <1>6
  <2>2. j = i + k /\ i \in Nat /\ j \in Nat
    BY <2>1
  <2>3. ExpMod(b, i, p) = ExpMod(b, i + k, p)
    BY <1>3, <1>6, <2>2
  <2>4. ExpMod(b, k, p) = 1
    BY <2>2, <2>3, EqualPowers
  <2> QED
    BY <2>1, <2>4
<1>8. PICK d \in S : \A k \in S : d <= k
  <2>1. S \subseteq Nat /\ S # {}
    BY <1>7
  <2> HIDE DEF S
  <2> QED
    BY <2>1, Least
<1>9. \A k \in 1 .. d - 1 : ExpMod(b, k, p) # 1
  <2> SUFFICES ASSUME NEW k \in 1 .. d - 1, ExpMod(b, k, p) = 1 PROVE FALSE
    OBVIOUS
  <2>1. k \in Nat \ {0} /\ ~ (d <= k)
    BY <1>8
  <2> QED
    BY <1>8, <2>1
<1> QED
  BY <1>8, <1>9 DEF IsOrder

\* The order of b divides every number that the powers of b return to 1 at a
\* multiple of it.
LEMMA PowersRepeat ==
  ASSUME NEW p \in Nat, IsPrime(p), NEW b \in Nat, NEW d \in Nat, ExpMod(b, d, p) = 1
  PROVE  \A m \in Nat : ExpMod(b, d * m, p) = 1
<1>1. p > 1
  BY DEF IsPrime
<1>2. \A m \in Nat : ExpMod(b, d * m, p) = ExpMod(ExpMod(b, d, p), m, p)
  BY <1>1, ExpModTimes
<1> QED
  BY <1>1, <1>2, PowersOfOne

\* x * b, x * b^2, ... modulo p.
Coset(x, b, p, d) == {(x * ExpMod(b, i, p)) % p : i \in 0 .. d - 1}

\* A set of residues that multiplication by b neither leaves nor enters.
Closed(U, b, p) ==
  /\ U \subseteq 1 .. p - 1
  /\ \A y \in 1 .. p - 1 : y \in U <=> (y * b) % p \in U

\* A coset of the powers of b is such a set, and has as many members as the order.
LEMMA CosetIsClosed ==
  ASSUME NEW p \in Nat, IsPrime(p), NEW b \in Nat, ~Divides(p, b),
         NEW d, IsOrder(d, b, p), NEW x \in 1 .. p - 1
  PROVE  /\ Closed(Coset(x, b, p, d), b, p) /\ x \in Coset(x, b, p, d)
         /\ IsFiniteSet(Coset(x, b, p, d)) /\ Cardinality(Coset(x, b, p, d)) = d
<1>1. p \in Nat \ {0} /\ p > 1 /\ d \in Nat \ {0}
  BY DEF IsPrime, IsOrder
<1> DEFINE X(t) == ExpMod(b, t, p)
           V(i) == (x * X(i)) % p
           C == {V(i) : i \in 0 .. d - 1}
<1>2. X(0) = 1 /\ \A t \in Nat : X(t) \in 1 .. p - 1 /\ X(t + 1) = (X(t) * b) % p
  <2>1. b \in Int
    OBVIOUS
  <2>2. \A t \in Nat : X(t) \in 1 .. p - 1
    BY PowersStayUnits
  <2> HIDE DEF X
  <2>3. X(0) = 1 /\ \A t \in Nat : X(t + 1) = (X(t) * b) % p
    BY <1>1, <2>1, ExpModFirst, ExpModNext DEF X
  <2> QED
    BY <2>2, <2>3
<1>3. X(d) = 1 /\ \A i \in 1 .. d - 1 : X(i) # 1
  BY DEF IsOrder
<1>4. \A i, k \in Nat : X(i) = X(i + k) => X(k) = 1
  BY EqualPowers
<1> HIDE DEF X
<1>5. ~Divides(p, x)
  <2>1. x \in 0 .. p - 1 /\ x # 0 /\ x \in Int
    OBVIOUS
  <2>2. x % p = x
    BY <1>1, <2>1, ModIsReduced
  <2> QED
    BY <2>1, <2>2 DEF Divides
<1>6. \A i \in Nat : V(i) \in 0 .. p - 1
  <2> SUFFICES ASSUME NEW i \in Nat PROVE V(i) \in 0 .. p - 1
    OBVIOUS
  <2>1. PICK y \in Int : y = X(i)
    BY <1>2
  <2>2. PICK z \in Int : z = x * y
    OBVIOUS
  <2>3. z % p \in 0 .. p - 1
    BY <1>1, ModIsReduced
  <2> QED
    BY <2>1, <2>2, <2>3
<1>7. \A i \in Nat : V(i + 1) = (V(i) * b) % p
  <2> SUFFICES ASSUME NEW i \in Nat PROVE V(i + 1) = (V(i) * b) % p
    OBVIOUS
  <2>1. PICK y \in Int : y = X(i)
    BY <1>2
  <2>2. PICK u \in Int, w \in Int : u = x * y /\ w = y * b
    OBVIOUS
  <2>0. b \in Int /\ x \in Int
    OBVIOUS
  <2>3. ((u % p) * b) % p = (u * b) % p
    BY <1>1, <2>0, ModMul
  <2>4. ((w % p) * x) % p = (w * x) % p
    BY <1>1, <2>0, ModMul
  <2>5. u * b = w * x
    <3>1. (x * y) * b = x * (y * b)
      BY <2>0, Products
    <3>2. x * w = w * x
      BY <2>0, Products
    <3> QED
      BY <2>2, <3>1, <3>2
  <2>6. x * (w % p) = (w % p) * x
    <3>1. w % p \in Int
      BY <1>1
    <3> QED
      BY <2>0, <3>1, Products
  <2>7. X(i + 1) = w % p
    BY <1>2, <2>1, <2>2
  <2> QED
    BY <2>1, <2>2, <2>3, <2>4, <2>5, <2>6, <2>7
<1>8. V(0) = x /\ V(d) = x
  <2>1. x * 1 = x /\ x \in 0 .. p - 1 /\ x \in Int
    OBVIOUS
  <2>2. x % p = x
    BY <1>1, <2>1, ModIsReduced
  <2> QED
    BY <1>2, <1>3, <2>1, <2>2
<1>9. \A i, j \in Nat : V(i) = V(j) => X(i) = X(j)
  <2> SUFFICES ASSUME NEW i \in Nat, NEW j \in Nat, V(i) = V(j) PROVE X(i) = X(j)
    OBVIOUS
  <2>1. PICK u \in 0 .. p - 1, w \in 0 .. p - 1 : u = X(i) /\ w = X(j)
    BY <1>2
  <2>2. (u * x) % p = (w * x) % p
    <3>1. u * x = x * u /\ w * x = x * w
      OBVIOUS
    <3> QED
      BY <2>1, <3>1
  <2>3. x \in Nat
    OBVIOUS
  <2> QED
    BY <1>5, <2>1, <2>2, <2>3, Cancel
<1>10. \A i \in Nat : V(i) # 0
  <2> SUFFICES ASSUME NEW i \in Nat, V(i) = 0 PROVE FALSE
    OBVIOUS
  <2>1. PICK u \in 0 .. p - 1, z \in 0 .. p - 1 : u = X(i) /\ u # 0 /\ z = 0
    BY <1>1, <1>2
  <2>2. (u * x) % p = (z * x) % p
    <3>1. u * x = x * u /\ z * x = 0 /\ 0 % p = 0
      BY <1>1, <2>1
    <3>2. (x * u) % p = 0
      BY <2>1
    <3> QED
      BY <3>1, <3>2
  <2>3. x \in Nat
    OBVIOUS
  <2> QED
    BY <1>5, <2>1, <2>2, <2>3, Cancel
<1> HIDE DEF V
<1>11. C \subseteq 1 .. p - 1
  BY <1>1, <1>6, <1>10
<1>12. x \in C
  BY <1>1, <1>8
<1>13. ASSUME NEW y \in C PROVE (y * b) % p \in C
  <2>1. PICK i \in 0 .. d - 1 : y = V(i)
    OBVIOUS
  <2>2. (y * b) % p = V(i + 1)
    BY <1>7, <2>1
  <2>3. i + 1 \in 0 .. d - 1 \/ i + 1 = d
    BY <1>1
  <2>4. i + 1 = d => V(i + 1) = V(0) /\ 0 \in 0 .. d - 1
    BY <1>1, <1>8
  <2> QED
    BY <2>2, <2>3, <2>4
<1>14. ASSUME NEW y \in 1 .. p - 1, (y * b) % p \in C PROVE y \in C
  <2>1. PICK i \in 0 .. d - 1 : (y * b) % p = V(i)
    BY <1>14
  <2>2. PICK j \in 0 .. d - 1 : V(i) = V(j + 1)
    <3>1. CASE i = 0
      <4>1. d - 1 \in 0 .. d - 1 /\ (d - 1) + 1 = d
        BY <1>1
      <4> QED
        BY <1>8, <3>1, <4>1
    <3>2. CASE i # 0
      <4>1. i - 1 \in 0 .. d - 1 /\ (i - 1) + 1 = i
        BY <1>1, <3>2
      <4> QED
        BY <4>1
    <3> QED
      BY <3>1, <3>2
  <2>3. PICK v \in 0 .. p - 1 : v = V(j)
    BY <1>6
  <2>4. (y * b) % p = (v * b) % p /\ y \in 0 .. p - 1
    BY <1>7, <2>1, <2>2, <2>3
  <2>5. y = v
    BY <2>4, Cancel
  <2> QED
    BY <2>3, <2>5
<1>15. Closed(C, b, p)
  BY <1>11, <1>13, <1>14 DEF Closed
<1>16. IsFiniteSet(C) /\ Cardinality(C) = d
  <2>1. PICK f : f = [i \in 0 .. d - 1 |-> V(i)]
    OBVIOUS
  <2>2. \A i, j \in 0 .. d - 1 : V(i) = V(j) => i = j
    <3>1. ASSUME NEW i \in 0 .. d - 1, NEW j \in 0 .. d - 1, V(i) = V(j), i < j PROVE FALSE
      <4>1. PICK k \in 1 .. d - 1 : j = i + k
        <5>1. j - i \in 1 .. d - 1 /\ j = i + (j - i)
          BY <1>1, <3>1
        <5> QED
          BY <5>1
      <4>2. X(i) = X(i + k) /\ i \in Nat /\ k \in Nat
        BY <1>9, <3>1, <4>1
      <4> QED
        BY <1>3, <1>4, <4>2
    <3>2. \A i, j \in 0 .. d - 1 : i < j \/ j < i \/ i = j
      BY <1>1
    <3> QED
      BY <3>1, <3>2
  <2>3. f \in Bijection(0 .. d - 1, C)
    <3>1. f \in [0 .. d - 1 -> C] /\ \A i \in 0 .. d - 1 : f[i] = V(i)
      BY <2>1
    <3>2. \A i, j \in 0 .. d - 1 : f[i] = f[j] => i = j
      BY <2>2, <3>1
    <3>3. \A y \in C : \E i \in 0 .. d - 1 : f[i] = y
      BY <3>1
    <3> HIDE DEF C
    <3> QED
      BY <3>1, <3>2, <3>3 DEF Bijection, Injection, Surjection, IsInjective
  <2>4. IsFiniteSet(0 .. d - 1) /\ Cardinality(0 .. d - 1) = d
    <3>1. PICK o \in Int, m \in Int : o = 0 /\ m = d - 1
      BY <1>1
    <3>2. IsFiniteSet(o .. m) /\ Cardinality(o .. m) = IF o > m THEN 0 ELSE m - o + 1
      BY FS_Interval
    <3>3. ~ (o > m) /\ m - o + 1 = d
      BY <1>1, <3>1
    <3> QED
      BY <3>1, <3>2, <3>3
  <2> HIDE DEF C
  <2>5. ExistsBijection(0 .. d - 1, C)
    BY <2>3 DEF ExistsBijection
  <2> QED
    BY <2>4, <2>5, FS_Bijection
<1>17. C = Coset(x, b, p, d)
  BY DEF V, X, Coset
<1> QED
  BY <1>12, <1>15, <1>16, <1>17

\* The order of b divides p - 1.  Among the closed sets whose size the order divides
\* the largest is everything: what it leaves out would have a coset to add.
LEMMA OrderDivides ==
  ASSUME NEW p \in Nat, IsPrime(p), NEW b \in Nat, ~Divides(p, b), NEW d, IsOrder(d, b, p)
  PROVE  Divides(d, p - 1)
<1>1. p \in Nat \ {0} /\ p > 1 /\ d \in Nat \ {0} /\ p - 1 \in Nat
  BY DEF IsPrime, IsOrder
<1> DEFINE Good(U) == Closed(U, b, p) /\ Divides(d, Cardinality(U))
           M == {c \in 0 .. p - 1 : \E U : Good(U) /\ c = (p - 1) - Cardinality(U)}
<1>2. IsFiniteSet(1 .. p - 1) /\ Cardinality(1 .. p - 1) = p - 1
  <2>1. PICK o \in Int, m \in Int : o = 1 /\ m = p - 1
    BY <1>1
  <2>2. IsFiniteSet(o .. m) /\ Cardinality(o .. m) = IF o > m THEN 0 ELSE m - o + 1
    BY FS_Interval
  <2>3. ~ (o > m) /\ m - o + 1 = p - 1
    BY <1>1, <2>1
  <2> QED
    BY <2>1, <2>2, <2>3
<1>3. ASSUME NEW U, Closed(U, b, p)
      PROVE  /\ IsFiniteSet(U) /\ Cardinality(U) \in 0 .. p - 1
             /\ Cardinality(U) = p - 1 <=> U = 1 .. p - 1
  <2>1. U \in SUBSET (1 .. p - 1)
    BY <1>3 DEF Closed
  <2>2. IsFiniteSet(U) /\ Cardinality(U) <= p - 1 /\ (Cardinality(U) = p - 1 <=> U = 1 .. p - 1)
    BY <1>2, <2>1, FS_Subset
  <2>3. Cardinality(U) \in Nat
    BY <2>2, FS_CardinalityType
  <2> QED
    BY <1>1, <2>2, <2>3
<1>4. p - 1 \in M
  <2>1. Closed({}, b, p)
    BY DEF Closed
  <2>2. Cardinality({}) = 0
    BY FS_EmptySet
  <2>3. Divides(d, 0)
    BY <1>1 DEF Divides
  <2>4. p - 1 = (p - 1) - 0 /\ p - 1 \in 0 .. p - 1
    BY <1>1
  <2> QED
    BY <2>1, <2>2, <2>3, <2>4
<1>5. PICK c \in M : \A e \in M : c <= e
  <2>1. M \subseteq Nat /\ M # {}
    BY <1>4
  <2> HIDE DEF M
  <2> QED
    BY <2>1, Least
<1>6. PICK U : Good(U) /\ c = (p - 1) - Cardinality(U)
  BY <1>5
<1>7. Closed(U, b, p) /\ IsFiniteSet(U) /\ Cardinality(U) \in 0 .. p - 1
  BY <1>3, <1>6
<1>8. CASE U = 1 .. p - 1
  BY <1>2, <1>6, <1>8
<1>9. CASE U # 1 .. p - 1
  <2>1. PICK x \in 1 .. p - 1 : x \notin U
    BY <1>7, <1>9 DEF Closed
  <2> DEFINE C == Coset(x, b, p, d)
  <2>2. Closed(C, b, p) /\ x \in C /\ IsFiniteSet(C) /\ Cardinality(C) = d
    BY CosetIsClosed
  <2>3. U \cap C = {}
    <3> DEFINE S == {i \in Nat : i \in 0 .. d - 1 => (x * ExpMod(b, i, p)) % p \notin U}
    <3>1. 0 \in S
      <4>1. ExpMod(b, 0, p) = 1
        <5>1. b \in Int
          OBVIOUS
        <5> QED
          BY <1>1, <5>1, ExpModFirst
      <4>2. x * 1 = x /\ x \in Int /\ x \in 0 .. p - 1
        OBVIOUS
      <4>3. x % p = x
        BY <1>1, <4>2, ModIsReduced
      <4> QED
        BY <2>1, <4>1, <4>2, <4>3
    <3>2. ASSUME NEW i \in Nat, i \in S PROVE i + 1 \in S
      <4> SUFFICES ASSUME i + 1 \in 0 .. d - 1 PROVE (x * ExpMod(b, i + 1, p)) % p \notin U
        OBVIOUS
      <4>1. i \in 0 .. d - 1
        BY <1>1
      <4>2. (x * ExpMod(b, i, p)) % p \notin U
        BY <3>2, <4>1
      <4>3. (x * ExpMod(b, i, p)) % p \in C
        BY <4>1 DEF Coset
      <4>4. (x * ExpMod(b, i, p)) % p \in 1 .. p - 1
        BY <2>2, <4>3 DEF Closed
      <4>5. (((x * ExpMod(b, i, p)) % p) * b) % p \notin U
        BY <1>7, <4>2, <4>4 DEF Closed
      <4>6. (((x * ExpMod(b, i, p)) % p) * b) % p = (x * ExpMod(b, i + 1, p)) % p
        <5>0. b \in Int /\ x \in Int
          OBVIOUS
        <5>1. PICK y \in Int : y = ExpMod(b, i, p)
          BY <1>1, <5>0, ExpModFirst
        <5>2. ExpMod(b, i + 1, p) = (y * b) % p
          BY <1>1, <5>0, <5>1, ExpModNext
        <5>3. PICK u \in Int, w \in Int : u = x * y /\ w = y * b
          BY <5>0
        <5>4. ((u % p) * b) % p = (u * b) % p /\ ((w % p) * x) % p = (w * x) % p
          BY <1>1, <5>0, ModMul
        <5>5. u * b = w * x
          <6>1. (x * y) * b = x * (y * b) /\ x * w = w * x
            BY <5>0, Products
          <6> QED
            BY <5>3, <6>1
        <5>6. x * (w % p) = (w % p) * x
          <6>1. w % p \in Int
            BY <1>1
          <6> QED
            BY <5>0, <6>1, Products
        <5> QED
          BY <5>1, <5>2, <5>3, <5>4, <5>5, <5>6
      <4> QED
        BY <4>5, <4>6
    <3> HIDE DEF S
    <3>3. \A i \in Nat : i \in S
      BY <3>1, <3>2, AllNumbers
    <3>4. \A i \in 0 .. d - 1 : (x * ExpMod(b, i, p)) % p \notin U
      <4>1. \A i \in 0 .. d - 1 : i \in Nat
        OBVIOUS
      <4> QED
        BY <3>3, <4>1 DEF S
    <3> QED
      BY <3>4 DEF Coset
  <2> HIDE DEF C
  <2> DEFINE W == U \cup C
  <2>4. Closed(W, b, p)
    BY <1>7, <2>2 DEF Closed
  <2>5. Cardinality(W) = Cardinality(U) + d
    <3>1. Cardinality(W) = Cardinality(U) + Cardinality(C) - Cardinality(U \cap C)
      BY <1>7, <2>2, FS_Union
    <3>2. Cardinality(U \cap C) = 0
      BY <2>3, FS_EmptySet
    <3> QED
      BY <1>1, <1>7, <2>2, <3>1, <3>2
  <2>6. Divides(d, Cardinality(W))
    <3>1. PICK u \in Int : u = Cardinality(U)
      BY <1>7
    <3>2. Divides(d, u)
      BY <1>6, <3>1
    <3>3. PICK k \in Int : u = d * k
      BY <1>1, <3>2, DividesIsAProduct
    <3>4. u + d = d * (k + 1) /\ k + 1 \in Int /\ u + d \in Int
      BY <1>1, <3>3
    <3>5. Divides(d, u + d)
      BY <1>1, <3>4, DividesIsAProduct
    <3> QED
      BY <2>5, <3>1, <3>5
  <2> HIDE DEF W
  <2>7. Cardinality(W) \in 0 .. p - 1
    BY <1>3, <2>4
  <2> DEFINE e == (p - 1) - Cardinality(W)
  <2>8. e \in 0 .. p - 1 /\ ~ (c <= e)
    BY <1>1, <1>6, <1>7, <2>5, <2>7
  <2>9. e \in M
    BY <2>4, <2>6, <2>8
  <2> QED
    BY <1>5, <2>8, <2>9
<1> QED
  BY <1>8, <1>9

\* Fermat's little theorem, for every multiple of p - 1.
LEMMA Fermat ==
  ASSUME NEW p \in Nat, IsPrime(p), NEW b \in Nat, ~Divides(p, b),
         NEW m \in Nat, Divides(p - 1, m)
  PROVE  ExpMod(b, m, p) = 1
<1>1. p \in Nat \ {0} /\ p > 1 /\ p - 1 \in Nat \ {0}
  BY DEF IsPrime
<1>2. PICK d : IsOrder(d, b, p)
  BY OrderExists
<1>3. d \in Nat \ {0} /\ ExpMod(b, d, p) = 1
  BY <1>2 DEF IsOrder
<1>4. Divides(d, p - 1)
  BY <1>2, OrderDivides
<1>5. PICK u \in Int : p - 1 = d * u
  BY <1>1, <1>3, <1>4, DividesIsAProduct
<1>6. PICK v \in Int : m = (p - 1) * v
  <2>1. PICK e \in Nat \ {0} : e = p - 1
    BY <1>1
  <2>2. \E v \in Int : m = e * v
    BY <2>1, DividesIsAProduct
  <2> QED
    BY <2>1, <2>2
<1>7. PICK w \in Int : w = u * v
  OBVIOUS
<1>8. m = d * w
  <2>1. (d * u) * v = d * (u * v)
    BY <1>3, Products
  <2> QED
    BY <1>5, <1>6, <1>7, <2>1
<1>9. w \in Nat
  BY <1>3, <1>8
<1> QED
  BY <1>3, <1>8, <1>9, PowersRepeat

\* If 2^k squarings take x to 1, and an odd power of x is 1 or -1, so is x.
LEMMA OddPowersOfRoots ==
  ASSUME NEW p \in Nat, IsPrime(p), p > 2, NEW x \in 0 .. p - 1,
         NEW k \in Nat, ExpMod(x, TwoTo[k], p) = 1, NEW u \in Nat, u % 2 = 1,
         ExpMod(x, u, p) \in {1, p - 1}
  PROVE  x = ExpMod(x, u, p)
<1>1. p \in Nat \ {0} /\ p > 1 /\ x \in Int
  BY DEF IsPrime
<1> DEFINE S == {j \in Nat : ExpMod(x, TwoTo[j], p) = 1}
<1>2. PICK j \in S : \A i \in S : j <= i
  <2>1. k \in S /\ S \subseteq Nat
    OBVIOUS
  <2> HIDE DEF S
  <2> QED
    BY <2>1, Least
<1>3. \A i \in Nat : TwoTo[i] \in Nat /\ TwoTo[i] > i
  BY TwoToGrows
<1>4. TwoTo[0] = 1 /\ \A i \in Nat \ {0} : TwoTo[i] = 2 * TwoTo[i - 1]
  BY TwoToIsRecursive
<1>5. ExpMod(x, 1, p) = x
  <2>1. x % p = x
    BY <1>1, ModIsReduced
  <2> QED
    BY <1>1, <2>1, ExpModFirst
<1>6. CASE j = 0
  <2>1. x = 1
    BY <1>2, <1>4, <1>5, <1>6
  <2>2. ExpMod(1, u, p) = 1
    BY <1>1, PowersOfOne
  <2> QED
    BY <2>1, <2>2
<1>7. CASE j # 0
  <2>1. j \in Nat \ {0} /\ j - 1 \in Nat /\ ~ (j <= j - 1)
    BY <1>2, <1>7
  <2>2. PICK t \in Nat \ {0} : t = TwoTo[j - 1]
    BY <1>3, <2>1
  <2>3. PICK z \in 0 .. p - 1 : z = ExpMod(x, t, p)
    BY <1>1, ExpModFirst
  <2>4. z # 1
    BY <1>2, <2>1, <2>2, <2>3
  <2>5. (z * z) % p = 1
    <3>1. ExpMod(x, 2 * t, p) = 1
      BY <1>2, <1>4, <2>1, <2>2
    <3> QED
      BY <1>1, <2>3, <3>1, ExpModSquares
  <2>6. z = p - 1
    BY <2>4, <2>5, RootsOfOne
  <2>7. ExpMod(x, t * u, p) = p - 1
    <3>1. \A i \in Nat : ExpMod(x, t * i, p) = ExpMod(ExpMod(x, t, p), i, p)
      BY <1>1, ExpModTimes
    <3>2. ExpMod(x, t * u, p) = ExpMod(z, u, p)
      BY <2>3, <3>1
    <3>3. ExpMod(p - 1, u, p) = p - 1
      BY <1>1, PowersOfMinusOne
    <3> QED
      BY <2>6, <3>2, <3>3
  <2>8. PICK y \in 0 .. p - 1 : y = ExpMod(x, u, p)
    BY <1>1, ExpModFirst
  <2>9. ExpMod(y, t, p) = p - 1
    <3>1. \A i \in Nat : ExpMod(x, u * i, p) = ExpMod(ExpMod(x, u, p), i, p)
      BY <1>1, ExpModTimes
    <3>2. ExpMod(x, u * t, p) = ExpMod(y, t, p)
      BY <2>8, <3>1
    <3>3. u * t = t * u
      OBVIOUS
    <3> QED
      BY <2>7, <3>2, <3>3
  <2>10. y # 1
    BY <1>1, <2>9, PowersOfOne
  <2>11. y = p - 1
    BY <2>8, <2>10
  <2>12. t % 2 # 0
    <3>1. t % 2 = 0 => ExpMod(p - 1, t, p) = 1
      BY <1>1, PowersOfMinusOne
    <3> QED
      BY <2>9, <2>11, <3>1
  <2>13. j - 1 = 0
    <3>1. j - 1 # 0 => j - 1 \in Nat \ {0} /\ (j - 1) - 1 \in Nat
      BY <2>1
    <3>2. j - 1 # 0 => TwoTo[j - 1] = 2 * TwoTo[(j - 1) - 1] /\ TwoTo[(j - 1) - 1] \in Nat
      BY <1>3, <1>4, <3>1
    <3>3. \A e \in Nat : (2 * e) % 2 = 0
      OBVIOUS
    <3> QED
      BY <2>2, <2>12, <3>2, <3>3
  <2>14. z = x
    BY <1>4, <1>5, <2>2, <2>3, <2>13
  <2> QED
    BY <2>6, <2>8, <2>11, <2>14
<1> QED
  BY <1>6, <1>7

-----------------------------------------------------------------------------
(* Square roots of 1, and the factors that they show.                      *)

\* What is above the lowest bit is odd.
LEMMA LsbSplits ==
  ASSUME NEW t \in Nat \ {0}
  PROVE  /\ Lsb(t) \in Nat /\ t \div TwoTo[Lsb(t)] \in Nat \ {0}
         /\ t = TwoTo[Lsb(t)] * (t \div TwoTo[Lsb(t)])
         /\ (t \div TwoTo[Lsb(t)]) % 2 = 1
<1>1. Lsb(t) \in Nat /\ t \div TwoTo[Lsb(t)] \in Nat \ {0}
  BY LsbIsThere
<1>2. Lsb(t) \in 0 .. t /\ Divides(TwoTo[Lsb(t)], t) /\ ~Divides(TwoTo[Lsb(t) + 1], t)
  <2> DEFINE B == {i \in Nat : ~ Divides(TwoTo[i + 1], t)}
  <2>1. PICK i \in B : \A j \in B : i <= j
    <3>1. \A d \in Nat : d > t => ~ Divides(d, t)
      BY DEF Divides
    <3>2. ~ Divides(TwoTo[t + 1], t)
      BY <3>1, TwoToGrows
    <3>3. t \in B /\ B \subseteq Nat
      BY <3>2
    <3> HIDE DEF B
    <3> QED
      BY <3>3, Least
  <2>2. Divides(TwoTo[i], t)
    <3>1. CASE i = 0
      BY <3>1, TwoToIsRecursive DEF Divides
    <3>2. CASE i # 0
      <4>1. i - 1 \in Nat /\ ~ (i <= i - 1) /\ (i - 1) + 1 = i
        BY <2>1, <3>2
      <4> QED
        BY <2>1, <4>1
    <3> QED
      BY <3>1, <3>2
  <2>3. i <= t
    <3>1. TwoTo[i] \in Nat \ {0} /\ TwoTo[i] > i
      BY <2>1, TwoToGrows
    <3>2. TwoTo[i] <= t
      BY <2>2, <3>1 DEF Divides
    <3> QED
      BY <2>1, <3>1, <3>2
  <2>4. i \in 0 .. t /\ ~ Divides(TwoTo[i + 1], t)
    BY <2>1, <2>3
  <2> QED
    BY <2>2, <2>4 DEF Lsb
<1>3. PICK w \in Nat \ {0} : w = TwoTo[Lsb(t)]
  BY <1>1, TwoToGrows
<1>4. TwoTo[Lsb(t) + 1] = 2 * w
  <2>1. Lsb(t) + 1 \in Nat \ {0} /\ (Lsb(t) + 1) - 1 = Lsb(t)
    BY <1>1
  <2>2. \A j \in Nat : TwoTo[j] = IF j = 0 THEN 1 ELSE 2 * TwoTo[j - 1]
    BY TwoToIsRecursive
  <2> QED
    BY <1>3, <2>1, <2>2
<1>5. t = w * (t \div w)
  BY <1>2, <1>3 DEF Divides
<1>6. PICK u \in Nat \ {0} : u = t \div w
  BY <1>1, <1>3
<1>7. u % 2 = 1
  <2>1. CASE u % 2 = 0
    <3>1. PICK v \in Int : u = 2 * v
      BY <2>1
    <3>2. t = (2 * w) * v
      <4>1. w * (2 * v) = (2 * w) * v
        OBVIOUS
      <4> QED
        BY <1>5, <1>6, <3>1, <4>1
    <3>3. 2 * w \in Nat \ {0} /\ t \in Int
      OBVIOUS
    <3>4. Divides(2 * w, t)
      BY <3>2, <3>3, DividesIsAProduct
    <3> QED
      BY <1>2, <1>4, <3>4
  <2> QED
    BY <2>1
<1> QED
  BY <1>1, <1>3, <1>5, <1>6, <1>7

\* What the squarings of an odd power of b give modulo a prime: if a power of b is
\* 1 or -1, so is the one with the same power of two in its exponent.
LEMMA PowerAtAPrime ==
  ASSUME NEW r \in Nat, IsPrime(r), r > 2, NEW b \in Nat, ~Divides(r, b),
         NEW t \in Nat, t % 2 = 1, NEW k \in Nat, Divides(r - 1, t * TwoTo[k]),
         NEW s \in Nat, NEW u \in Nat, u % 2 = 1,
         ExpMod(b, TwoTo[s] * u, r) \in {1, r - 1}
  PROVE  ExpMod(b, t * TwoTo[s], r) = ExpMod(b, TwoTo[s] * u, r)
<1>1. PICK w \in Nat, v \in Nat : w = TwoTo[s] /\ v = TwoTo[k]
  BY TwoToGrows
<1>2. PICK tw \in Nat, tv \in Nat, wu \in Nat : tw = t * w /\ tv = t * v /\ wu = w * u
  OBVIOUS
<1>3. tw * u = wu * t /\ tw * v = tv * w
  <2>1. \A x, y, z \in Nat : (x * y) * z = (y * z) * x /\ (x * y) * z = (x * z) * y
    OBVIOUS
  <2> QED
    BY <1>2, <2>1
<1>4. b \in Int /\ r > 1
  OBVIOUS
<1>5. PICK x \in 0 .. r - 1, y \in 0 .. r - 1 : x = ExpMod(b, tw, r) /\ y = ExpMod(b, wu, r)
  BY <1>4, ExpModFirst
<1>6. y \in {1, r - 1}
  BY <1>1, <1>2, <1>5
<1>7. ExpMod(x, u, r) = y
  <2>1. ExpMod(b, tw * u, r) = ExpMod(x, u, r)
    <3>1. \A i \in Nat : ExpMod(b, tw * i, r) = ExpMod(ExpMod(b, tw, r), i, r)
      BY <1>4, ExpModTimes
    <3> QED
      BY <1>5, <3>1
  <2>2. ExpMod(b, wu * t, r) = ExpMod(y, t, r)
    <3>1. \A i \in Nat : ExpMod(b, wu * i, r) = ExpMod(ExpMod(b, wu, r), i, r)
      BY <1>4, ExpModTimes
    <3> QED
      BY <1>5, <3>1
  <2>3. y = 1 => ExpMod(y, t, r) = 1
    BY <1>4, PowersOfOne
  <2>4. y = r - 1 => ExpMod(y, t, r) = r - 1
    BY <1>4, PowersOfMinusOne
  <2> QED
    BY <1>3, <1>6, <2>1, <2>2, <2>3, <2>4
<1>8. ExpMod(x, v, r) = 1
  <2>1. ExpMod(b, tw * v, r) = ExpMod(x, v, r)
    BY <1>4, <1>5, ExpModTimes
  <2>2. ExpMod(b, tv, r) = 1
    BY <1>1, <1>2, Fermat
  <2>3. ExpMod(b, tv * w, r) = ExpMod(1, w, r)
    BY <1>4, <2>2, ExpModTimes
  <2>4. ExpMod(1, w, r) = 1
    BY <1>4, PowersOfOne
  <2> QED
    BY <1>3, <2>1, <2>3, <2>4
<1>9. x = ExpMod(x, u, r)
  BY <1>1, <1>6, <1>7, <1>8, OddPowersOfRoots
<1> QED
  BY <1>1, <1>2, <1>5, <1>7, <1>9

\* Two numbers that agree modulo two primes agree modulo their product.
LEMMA Residues ==
  ASSUME NEW p \in Nat, IsPrime(p), NEW q \in Nat, IsPrime(q), p # q,
         NEW x \in 0 .. p * q - 1, NEW y \in 0 .. p * q - 1, x % p = y % p, x % q = y % q
  PROVE  x = y
<1>1. p \in Nat \ {0} /\ p > 1 /\ q \in Nat \ {0} /\ q > 1 /\ p * q \in Nat
  BY DEF IsPrime
<1>2. ASSUME NEW v \in 0 .. p * q - 1, NEW w \in 0 .. p * q - 1, v < w, v % p = w % p, v % q = w % q
      PROVE  FALSE
  <2>1. v \in Int /\ w \in Int
    BY <1>1
  <2>2. Divides(p, w - v) /\ Divides(q, w - v)
    BY <1>1, <1>2, <2>1, SameRemainder
  <2>3. PICK e \in Nat \ {0} : e = w - v /\ e < p * q
    BY <1>1, <1>2
  <2>4. PICK u \in Int : e = p * u
    BY <1>1, <2>2, <2>3, DividesIsAProduct
  <2>5. u \in Nat \ {0}
    BY <1>1, <2>3, <2>4
  <2>6. Divides(q, p) \/ Divides(q, u)
    BY <1>1, <2>2, <2>3, <2>4, <2>5, Euclid
  <2>7. ~Divides(q, p)
    BY <1>1, DivisorsOfAPrime
  <2>8. u >= q
    BY <1>1, <2>5, <2>6, <2>7 DEF Divides
  <2>9. p * u >= p * q
    BY <1>1, <2>5, <2>8
  <2> QED
    BY <1>1, <2>3, <2>4, <2>9
<1>3. ~ (x < y) /\ ~ (y < x)
  BY <1>2
<1>4. x \in Int /\ y \in Int
  BY <1>1
<1> QED
  BY <1>3, <1>4

\* A number that one prime of n divides and the other does not shows a factor of n.
LEMMA GcdIsAFactor ==
  ASSUME NEW p \in Nat, IsPrime(p), NEW q \in Nat, NEW n \in Nat \ {0}, n = p * q,
         NEW x \in Nat, Divides(p, x), ~Divides(q, x)
  PROVE  Gcd(x, n) > 1 /\ Gcd(x, n) < n
<1>1. p \in Nat \ {0} /\ p > 1 /\ q \in Nat \ {0}
  BY DEF IsPrime
<1> DEFINE S == {d \in 1 .. n : Divides(d, x) /\ Divides(d, n)}
<1>2. p \in S
  <2>1. Divides(p, n)
    BY <1>1, DividesIsAProduct
  <2>2. p <= n
    BY <1>1
  <2> QED
    BY <1>1, <2>1, <2>2
<1>3. Gcd(x, n) \in S /\ Gcd(x, n) >= p
  <2>1. S \subseteq 1 .. n /\ S # {}
    BY <1>2
  <2> HIDE DEF S
  <2>2. Max(S) \in S /\ Max(S) >= p
    BY <1>2, <2>1, Greatest
  <2> QED
    BY <2>2 DEF Gcd, S
<1>4. Gcd(x, n) # n
  <2> SUFFICES ASSUME Divides(n, x) PROVE FALSE
    BY <1>3
  <2>1. PICK u \in Int : x = n * u
    BY DividesIsAProduct
  <2>2. x = q * (p * u) /\ p * u \in Int
    <3>1. (p * q) * u = q * (p * u)
      BY <1>1
    <3> QED
      BY <1>1, <2>1, <3>1
  <2> QED
    BY <1>1, <2>2, DividesIsAProduct
<1> QED
  BY <1>1, <1>3, <1>4

\* A square root of 1 modulo n is 1 or -1 modulo each prime of n.
LEMMA RootAtAPrime ==
  ASSUME NEW r \in Nat, IsPrime(r), NEW n \in Nat \ {0}, Divides(r, n),
         NEW y \in Int, (y * y) % n = 1
  PROVE  y % r \in {1, r - 1}
<1>1. r > 1 /\ r \in Nat \ {0}
  BY DEF IsPrime
<1>2. PICK z \in 0 .. r - 1 : z = y % r
  BY <1>1, Division
<1>3. PICK w \in Int : w = y * y
  OBVIOUS
<1>4. w % r = 1
  <2>1. (w % n) % r = w % r
    BY <1>1, ModOfDivisor
  <2>2. 1 % r = 1
    BY <1>1, OneIsReduced
  <2> QED
    BY <1>3, <2>1, <2>2
<1>5. (z * y) % r = w % r
  BY <1>1, <1>2, <1>3, ModMul
<1>6. z \in Int /\ z * y = y * z
  BY <1>1
<1>7. (z * z) % r = (y * z) % r
  BY <1>1, <1>2, <1>6, ModMul
<1>8. (z * z) % r = 1
  BY <1>4, <1>5, <1>6, <1>7
<1>9. z = 1 \/ z = r - 1
  BY <1>8, RootsOfOne
<1> QED
  BY <1>2, <1>9

\* What 1 is added to is -1 if the sum is a multiple.
LEMMA MinusOne ==
  ASSUME NEW r \in Nat, r > 2, NEW a \in Int, a % r \in {1, r - 1}
  PROVE  Divides(r, a + 1) <=> a % r = r - 1
<1>1. r \in Nat \ {0}
  OBVIOUS
<1>2. PICK c \in Int, f \in 0 .. r - 1 : a = r * c + f /\ f = a % r
  BY <1>1, Division
<1>3. CASE f = r - 1
  <2>1. a + 1 = r * (c + 1)
    BY <1>2, <1>3
  <2>2. c + 1 \in Int /\ a + 1 \in Int
    OBVIOUS
  <2>3. Divides(r, a + 1)
    BY <1>1, <2>1, <2>2, DividesIsAProduct
  <2> QED
    BY <1>2, <1>3, <2>3
<1>4. CASE f = 1
  <2>1. PICK x \in Int, g \in 0 .. r - 1 : x = a + 1 /\ g = 2
    OBVIOUS
  <2>2. x = r * c + g
    BY <1>2, <1>4, <2>1
  <2>3. x % r = g
    BY <1>1, <2>2, DivisionIsUnique
  <2>4. ~Divides(r, a + 1)
    BY <2>1, <2>3 DEF Divides
  <2> QED
    BY <1>2, <1>4, <2>4
<1> QED
  BY <1>2, <1>3, <1>4

\* -1 modulo a product of two numbers is -1 modulo each.
LEMMA MinusOneOfAProduct ==
  ASSUME NEW r \in Nat, r > 1, NEW v \in Nat, v > 1, NEW n \in Nat, n = r * v
  PROVE  (n - 1) % r = r - 1
<1>1. n - 1 = r * (v - 1) + (r - 1)
  OBVIOUS
<1>2. PICK a \in Int, w \in Int, c \in 0 .. r - 1 : a = n - 1 /\ w = v - 1 /\ c = r - 1
  OBVIOUS
<1>3. a = r * w + c /\ r \in Nat \ {0}
  BY <1>1, <1>2
<1>4. a % r = c
  BY <1>3, DivisionIsUnique
<1> QED
  BY <1>2, <1>4

\* A square root of 1 modulo the product of two primes that is neither 1 nor -1 is
\* 1 modulo one of the primes and -1 modulo the other.
LEMMA RootsThatSeparate ==
  ASSUME NEW p \in Nat, IsPrime(p), p > 2, NEW q \in Nat, IsPrime(q), q > 2, p # q,
         NEW n \in Nat \ {0}, n = p * q, NEW y \in 0 .. n - 1, (y * y) % n = 1, y \notin {1, n - 1}
  PROVE  \/ y % p = 1 /\ y % q = q - 1
         \/ y % p = p - 1 /\ y % q = 1
<1>1. /\ p \in Nat \ {0} /\ q \in Nat \ {0} /\ p > 1 /\ q > 1 /\ n > 1 /\ y \in Int
      /\ n = q * p
  OBVIOUS
<1>2. Divides(p, n) /\ Divides(q, n)
  BY <1>1, DividesIsAProduct
<1>3. y % p \in {1, p - 1} /\ y % q \in {1, q - 1}
  BY <1>1, <1>2, RootAtAPrime
<1>4. ASSUME y % p = 1, y % q = 1 PROVE FALSE
  <2>1. 1 % p = 1 /\ 1 % q = 1
    BY <1>1, OneIsReduced
  <2>2. PICK o \in 0 .. p * q - 1 : o = 1
    BY <1>1
  <2>3. y \in 0 .. p * q - 1 /\ y % p = o % p /\ y % q = o % q
    BY <1>4, <2>1, <2>2
  <2>4. y = o
    BY <2>3, Residues
  <2> QED
    BY <2>2, <2>4
<1>5. ASSUME y % p = p - 1, y % q = q - 1 PROVE FALSE
  <2>1. (n - 1) % p = p - 1 /\ (n - 1) % q = q - 1
    BY <1>1, MinusOneOfAProduct
  <2>2. PICK o \in 0 .. p * q - 1 : o = n - 1
    BY <1>1
  <2>3. y \in 0 .. p * q - 1 /\ y % p = o % p /\ y % q = o % q
    BY <1>5, <2>1, <2>2
  <2>4. y = o
    BY <2>3, Residues
  <2> QED
    BY <2>2, <2>4
<1> QED
  BY <1>3, <1>4, <1>5

\* The base to the exponents of the search: t is odd, and p - 1 and q - 1 divide
\* t * 2^k.  If some power of b is a square root of 1 modulo p * q other than 1 and
\* -1, one of the powers t * 2^i shows a factor.
LEMMA SeparatedPrimesAreFound ==
  ASSUME NEW p \in Nat, IsPrime(p), p > 2, NEW q \in Nat, IsPrime(q), q > 2, p # q,
         NEW n \in Nat \ {0}, n = p * q,
         NEW b \in Nat, ~Divides(p, b), ~Divides(q, b),
         NEW t \in Nat, t % 2 = 1, NEW k \in Nat,
         Divides(p - 1, t * TwoTo[k]), Divides(q - 1, t * TwoTo[k]),
         NEW m \in Nat, (ExpMod(b, m, n) * ExpMod(b, m, n)) % n = 1,
         ExpMod(b, m, n) \notin {1, n - 1}
  PROVE  \E i \in Nat : LET x == ExpMod(b, t * TwoTo[i], n) + 1
                        IN  Gcd(x, n) > 1 /\ Gcd(x, n) < n
<1>1. /\ p \in Nat \ {0} /\ q \in Nat \ {0} /\ p > 1 /\ q > 1 /\ b \in Int
      /\ n > 1 /\ p * q = n
  OBVIOUS
<1>2. Divides(p, n) /\ Divides(q, n)
  <2>1. n = q * p
    BY <1>1
  <2> QED
    BY <1>1, <2>1, DividesIsAProduct
<1>3. PICK y \in 0 .. n - 1 : y = ExpMod(b, m, n)
  <2>1. ExpMod(b, m, n) \in 0 .. n - 1
    BY <1>1, ExpModFirst
  <2> QED
    BY <2>1
<1>4. \A r \in Nat : r > 1 /\ Divides(r, n) => y % r = ExpMod(b, m, r)
  <2> SUFFICES ASSUME NEW r \in Nat, r > 1, Divides(r, n) PROVE y % r = ExpMod(b, m, r)
    OBVIOUS
  <2> QED
    BY <1>1, <1>3, ExpModOfDivisor
<1>5. \/ y % p = 1 /\ y % q = q - 1
      \/ y % p = p - 1 /\ y % q = 1
  BY <1>1, <1>3, RootsThatSeparate
<1>8. m # 0
  <2>1. m = 0 => y = 1
    BY <1>1, <1>3, ExpModFirst
  <2> QED
    BY <1>3, <2>1
<1>9. PICK s \in Nat, u \in Nat : m = TwoTo[s] * u /\ u % 2 = 1
  BY <1>8, LsbSplits
<1>10. PICK e \in Nat : e = t * TwoTo[s]
  BY TwoToGrows
<1>11. PICK a \in 0 .. n - 1, x \in Nat : a = ExpMod(b, e, n) /\ x = a + 1
  <2>1. ExpMod(b, e, n) \in 0 .. n - 1
    BY <1>1, ExpModFirst
  <2> QED
    BY <2>1
<1>12. ASSUME NEW r \in Nat, IsPrime(r), r > 2, Divides(r, n), ~Divides(r, b),
              Divides(r - 1, t * TwoTo[k]), y % r \in {1, r - 1}
       PROVE  Divides(r, x) <=> y % r = r - 1
  <2>1. r > 1 /\ r \in Nat \ {0} /\ y % r = ExpMod(b, m, r)
    BY <1>4, <1>12
  <2>2. ExpMod(b, TwoTo[s] * u, r) \in {1, r - 1}
    BY <1>9, <1>12, <2>1
  <2>3. ExpMod(b, e, r) = y % r
    BY <1>9, <1>10, <1>12, <2>1, <2>2, PowerAtAPrime
  <2>4. ExpMod(b, e, n) % r = ExpMod(b, e, r)
    BY <1>1, <1>12, <2>1, ExpModOfDivisor
  <2>5. a % r \in {1, r - 1} /\ a % r = y % r /\ x = a + 1
    BY <1>11, <1>12, <2>3, <2>4
  <2>6. a \in Int
    BY <1>1
  <2> QED
    BY <1>12, <2>5, <2>6, MinusOne
<1>13. Divides(p, x) <=> y % p = p - 1
  <2>1. y % p \in {1, p - 1}
    BY <1>5
  <2> QED
    BY <1>2, <1>12, <2>1
<1>14. Divides(q, x) <=> y % q = q - 1
  <2>1. y % q \in {1, q - 1}
    BY <1>5
  <2> QED
    BY <1>2, <1>12, <2>1
<1>15. p - 1 # 1 /\ q - 1 # 1 /\ n = q * p
  BY <1>1
<1>16. \/ Divides(q, x) /\ ~Divides(p, x)
       \/ Divides(p, x) /\ ~Divides(q, x)
  BY <1>5, <1>13, <1>14, <1>15
<1>17. Gcd(x, n) > 1 /\ Gcd(x, n) < n
  <2>1. CASE Divides(q, x) /\ ~Divides(p, x)
    BY <1>15, <2>1, GcdIsAFactor
  <2>2. CASE Divides(p, x) /\ ~Divides(q, x)
    BY <2>2, GcdIsAFactor
  <2> QED
    BY <1>16, <2>1, <2>2
<1> QED
  BY <1>10, <1>11, <1>17

-----------------------------------------------------------------------------
(* The search passes over no base and no squaring that shows a factor.     *)

\* A power of b is a square root of 1 modulo N other than 1 and -1: it is 1 modulo one
\* prime of N and -1 modulo the other.
Separates(b) ==
  \E m \in Nat : LET y == ExpMod(b, m, N)
                 IN  (y * y) % N = 1 /\ y \notin {1, N - 1}

\* The base that the search begins with: it skips the first when N is 1 modulo 8.
FirstBase == IF N % 8 = 1 THEN 2 ELSE 1

\* One of the bases that the search tries has such a power.
SomeBaseSeparates == \E j \in FirstBase .. Len(primes) : Separates(primes[j])

\* The exponents of the search: base b and i squarings show a factor.
Shows(b, i) == IsFactor(Gcd(ExpMod(b, T * TwoTo[i], N) + 1, N))

\* The search has missed nothing: no base before this one separates the primes, and no
\* squaring before this one showed a factor.
FinderInv ==
  /\ pc \in {"base", "square"} =>
       /\ T % 2 = 1 /\ T * TwoTo[order] = D * E - 1 /\ attempt >= FirstBase
       /\ IsKey => \A j \in FirstBase .. attempt - 1 : ~Separates(primes[j])
  /\ pc = "square" =>
       /\ Gcd(primes[attempt], N) = 1
       /\ \A i \in Nat : i < iter - 1 => ~Shows(primes[attempt], i)
  /\ SomeBaseSeparates => KeysAreFactored

\* The primes of the modulus of a key are odd, and p - 1 divides D * E - 1.
LEMMA PrimesOfAKey ==
  ASSUME in.N \in Nat, in.E \in Nat, in.D \in Nat, IsKey
  PROVE  \E p, q \in Nat :
           /\ IsPrime(p) /\ p > 2 /\ IsPrime(q) /\ q > 2 /\ p # q /\ N = p * q
           /\ Divides(p - 1, D * E - 1) /\ Divides(q - 1, D * E - 1)
<1>1. PICK p \in PrimesOf(N), q \in PrimesOf(N) :
        /\ p < q /\ p * q = N
        /\ Divides(p - 1, D * E - 1) /\ Divides(q - 1, D * E - 1)
  BY DEF IsKey
<1>2. p \in Nat /\ p > 1 /\ IsPrime(p) /\ q \in Nat /\ q > 1 /\ IsPrime(q) /\ N % 2 = 1
  BY DEF PrimesOf, IsKey, N
<1>3. p # 2 /\ q # 2
  BY <1>1, <1>2
<1> QED
  BY <1>1, <1>2, <1>3

\* A base without a common divisor with the modulus.
LEMMA CoprimeBase ==
  ASSUME NEW p \in Nat, IsPrime(p), NEW q \in Nat \ {0}, NEW n \in Nat \ {0}, n = p * q,
         NEW b \in Nat, Gcd(b, n) = 1
  PROVE  ~Divides(p, b)
<1> SUFFICES ASSUME Divides(p, b) PROVE FALSE
  OBVIOUS
<1>1. p \in Nat \ {0} /\ p > 1
  BY DEF IsPrime
<1> DEFINE S == {d \in 1 .. n : Divides(d, b) /\ Divides(d, n)}
<1>2. p \in S
  <2>1. Divides(p, n) /\ p <= n
    BY <1>1, DividesIsAProduct
  <2> QED
    BY <1>1, <2>1
<1>3. Max(S) >= p
  <2>1. S \subseteq 1 .. n /\ S # {}
    BY <1>2
  <2> HIDE DEF S
  <2> QED
    BY <1>2, <2>1, Greatest
<1> QED
  BY <1>1, <1>3 DEF Gcd

\* A base that divides the modulus has no such power.
LEMMA DivisorsDoNotSeparate ==
  ASSUME in.N \in Nat, in.N > 1, NEW b \in Nat, IsPrime(b), Divides(b, in.N)
  PROVE  ~Separates(b)
<1> DEFINE n == in.N
<1> SUFFICES ASSUME NEW m \in Nat, (ExpMod(b, m, n) * ExpMod(b, m, n)) % n = 1, ExpMod(b, m, n) # 1
             PROVE  FALSE
  BY DEF Separates, N
<1>1. n \in Nat \ {0} /\ n > 1 /\ n \in Nat /\ b \in Nat \ {0} /\ b > 1 /\ b \in Int
  BY DEF IsPrime
<1> HIDE DEF n
<1>2. PICK y \in Int : y = ExpMod(b, m, n)
  <2>1. ExpMod(b, m, n) \in 0 .. n - 1
    BY <1>1, ExpModFirst
  <2> QED
    BY <1>1, <2>1
<1>3. y % b = 0
  <2>1. m # 0
    BY <1>1, ExpModFirst
  <2>2. PICK k \in Nat : m = k + 1
    <3>1. m - 1 \in Nat /\ m = (m - 1) + 1
      BY <2>1
    <3> QED
      BY <3>1
  <2>3. PICK x \in Int : x = ExpMod(b, k, b)
    <3>1. ExpMod(b, k, b) \in 0 .. b - 1
      BY <1>1, ExpModFirst
    <3> QED
      BY <1>1, <3>1
  <2>4. ExpMod(b, m, b) = (x * b) % b
    BY <1>1, <2>2, <2>3, ExpModNext
  <2>5. (x * b) % b = 0
    <3>1. x * b \in Int /\ x * b = b * x
      OBVIOUS
    <3>2. Divides(b, x * b)
      BY <1>1, <3>1, DividesIsAProduct
    <3> QED
      BY <3>2 DEF Divides
  <2>6. ExpMod(b, m, n) % b = ExpMod(b, m, b)
    BY <1>1, ExpModOfDivisor DEF n
  <2> QED
    BY <1>2, <2>4, <2>5, <2>6
<1>4. PICK w \in Int : w = y * y
  OBVIOUS
<1>5. (w % n) % b = w % b
  BY <1>1, ModOfDivisor DEF n
<1>6. w % n = 1 /\ 1 % b = 1
  BY <1>1, <1>2, <1>4, OneIsReduced
<1>7. ((y % b) * y) % b = w % b
  BY <1>1, <1>4, ModMul
<1>8. 0 * y = 0 /\ 0 % b = 0
  BY <1>1
<1>9. w % b = 0
  <2>1. (y % b) * y = 0
    BY <1>3, <1>8
  <2> QED
    BY <1>7, <1>8, <2>1
<1> QED
  BY <1>5, <1>6, <1>9

\* For a key all the squarings together give 1.
LEMMA SquaringsOfAKeyEndAtOne ==
  ASSUME in.N \in Nat, in.E \in Nat, in.D \in Nat, D * E - 1 \in Nat, IsKey,
         NEW b \in Nat, Gcd(b, in.N) = 1
  PROVE  ExpMod(b, D * E - 1, in.N) = 1
<1>1. PICK p \in Nat, q \in Nat :
        /\ IsPrime(p) /\ p > 2 /\ IsPrime(q) /\ q > 2 /\ p # q /\ N = p * q
        /\ Divides(p - 1, D * E - 1) /\ Divides(q - 1, D * E - 1)
  BY PrimesOfAKey
<1> DEFINE n == in.N
           m == D * E - 1
<1>2. /\ n = p * q /\ n = q * p /\ n > 1 /\ n \in Nat \ {0} /\ m \in Nat /\ b \in Int
      /\ p > 1 /\ q > 1 /\ p \in Nat \ {0} /\ q \in Nat \ {0}
  BY <1>1 DEF N
<1>3. ~Divides(p, b) /\ ~Divides(q, b)
  BY <1>1, <1>2, CoprimeBase
<1>4. Divides(p - 1, m) /\ Divides(q - 1, m)
  BY <1>1
<1> HIDE DEF n, m
<1>5. ExpMod(b, m, p) = 1 /\ ExpMod(b, m, q) = 1
  BY <1>1, <1>2, <1>3, <1>4, Fermat
<1>6. Divides(p, n) /\ Divides(q, n)
  BY <1>2, DividesIsAProduct
<1>7. PICK x \in 0 .. p * q - 1 : x = ExpMod(b, m, n)
  <2>1. ExpMod(b, m, n) \in 0 .. n - 1
    BY <1>2, ExpModFirst
  <2> QED
    BY <1>2, <2>1
<1>8. x % p = 1 /\ x % q = 1
  BY <1>2, <1>5, <1>6, <1>7, ExpModOfDivisor
<1>9. PICK o \in 0 .. p * q - 1 : o = 1
  BY <1>2
<1>10. x % p = o % p /\ x % q = o % q
  BY <1>2, <1>8, <1>9, OneIsReduced
<1>11. x = o
  BY <1>1, <1>10, Residues
<1> QED
  BY <1>7, <1>9, <1>11 DEF n, m

\* Once K is 1 it stays so, and 2 has no factor with an odd modulus.
LEMMA NothingAfterOne ==
  ASSUME NEW n \in Nat, n > 1, n % 2 = 1, NEW b \in Nat, NEW t \in Nat \ {0},
         NEW k \in Nat, ExpMod(b, t * TwoTo[k], n) = 1
  PROVE  \A i \in Nat : i >= k => Gcd(ExpMod(b, t * TwoTo[i], n) + 1, n) = 1
<1>1. n \in Nat \ {0} /\ b \in Int
  OBVIOUS
<1> DEFINE S == {j \in Nat : ExpMod(b, t * TwoTo[k + j], n) = 1}
<1>2. 0 \in S
  BY k + 0 = k
<1>3. ASSUME NEW j \in Nat, j \in S PROVE j + 1 \in S
  <2>1. k + j \in Nat /\ k + (j + 1) \in Nat \ {0} /\ (k + (j + 1)) - 1 = k + j
    OBVIOUS
  <2>2. PICK w \in Nat \ {0} : w = TwoTo[k + j]
    BY <2>1, TwoToGrows
  <2>3. TwoTo[k + (j + 1)] = 2 * w
    BY <2>1, <2>2, TwoToIsRecursive
  <2>4. PICK e \in Nat \ {0} : e = t * w
    BY <2>2
  <2>5. t * (2 * w) = 2 * e
    BY <2>2, <2>4
  <2>6. ExpMod(b, e, n) = 1
    BY <1>3, <2>2, <2>4
  <2>7. ExpMod(b, 2 * e, n) = (1 * 1) % n
    BY <1>1, <2>6, ExpModSquares
  <2>8. ExpMod(b, 2 * e, n) = 1
    BY <2>7, OneIsReduced
  <2> QED
    BY <2>3, <2>5, <2>8
<1> HIDE DEF S
<1>4. \A j \in Nat : j \in S
  BY <1>2, <1>3, AllNumbers
<1>5. Gcd(1 + 1, n) = 1
  <2>1. PICK x \in Int : x = 1 + 1
    OBVIOUS
  <2>2. Gcd(x, n) \in 1 .. n /\ Divides(Gcd(x, n), x) /\ Divides(Gcd(x, n), n)
    BY <1>1, GcdDivides
  <2>3. PICK g \in Nat \ {0} : g = Gcd(x, n) /\ Divides(g, x) /\ Divides(g, n)
    BY <1>1, <2>2
  <2>4. g = 1 \/ g = 2
    BY <2>1, <2>3 DEF Divides
  <2>5. g # 2
    BY <2>3 DEF Divides
  <2> QED
    BY <2>1, <2>3, <2>4, <2>5
<1>6. ASSUME NEW i \in Nat, i >= k PROVE Gcd(ExpMod(b, t * TwoTo[i], n) + 1, n) = 1
  <2>1. PICK j \in Nat : i = k + j
    <3>1. i - k \in Nat /\ i = k + (i - k)
      BY <1>6
    <3> QED
      BY <3>1
  <2>2. ExpMod(b, t * TwoTo[i], n) = 1
    BY <1>4, <2>1 DEF S
  <2> QED
    BY <1>5, <2>2
<1> QED
  BY <1>6

\* An E and D that rsa_deduce_primes refuses at once are of no key.
LEMMA PrepareFinds ==
  ASSUME SearchInv, FinderInv, Prepare
  PROVE  FinderInv'
<1> USE DEF N, E, D
<1>1. /\ in.N \in Nat /\ in.E \in Nat /\ in.D \in Nat /\ in' = in /\ pc = "start"
  BY DeducePrimesAssumption DEF SearchInv, TypeOK, Prepare
<1> DEFINE t == D * E - 1
<1>2. CASE OutOfRange /\ pc' = "bad"
  <2>1. OutOfRange'
    BY <1>1, <1>2 DEF OutOfRange
  <2> QED
    BY <1>2, <2>1 DEF FinderInv, KeysAreFactored
<1>3. CASE ~OutOfRange
  <2>1. t \in Nat \ {0} /\ N > 2
    BY <1>1, <1>3 DEF OutOfRange
  <2> HIDE DEF t
  <2>2. /\ Lsb(t) \in Nat /\ t \div TwoTo[Lsb(t)] \in Nat \ {0}
        /\ t = TwoTo[Lsb(t)] * (t \div TwoTo[Lsb(t)]) /\ (t \div TwoTo[Lsb(t)]) % 2 = 1
    BY <2>1, LsbSplits
  <2>3. CASE Lsb(t) = 0 /\ pc' = "bad"
    <3>1. ~IsKey
      <4> SUFFICES ASSUME IsKey PROVE FALSE
        OBVIOUS
      <4>1. PICK p \in Nat : IsPrime(p) /\ p > 2 /\ Divides(p, N) /\ Divides(p - 1, t) /\ N % 2 = 1
        <5>1. PICK p \in Nat, q \in Nat :
                IsPrime(p) /\ p > 2 /\ N = p * q /\ Divides(p - 1, D * E - 1)
          BY <1>1, PrimesOfAKey
        <5>2. p \in Nat \ {0} /\ q \in Int /\ N \in Int
          BY <1>1, <5>1
        <5>3. Divides(p, N)
          BY <5>1, <5>2, DividesIsAProduct
        <5> QED
          BY <5>1, <5>3 DEF t, IsKey
      <4>2. p % 2 = 1
        <5>1. p % 2 = 0 => ~(p # 2 /\ IsPrime(p))
          BY <4>1 DEF IsPrime, Divides
        <5> QED
          BY <4>1, <5>1
      <4>3. PICK r \in Nat \ {0}, v \in Int : r = p - 1 /\ r = 2 * v
        BY <4>1, <4>2
      <4>4. PICK u \in Int : t = r * u
        <5>1. Divides(r, t) /\ t \in Int
          BY <2>1, <4>1, <4>3
        <5> QED
          BY <5>1, DividesIsAProduct
      <4>5. PICK w \in Int : w = v * u
        OBVIOUS
      <4>6. t = 2 * w
        <5>1. (2 * v) * u = 2 * (v * u)
          OBVIOUS
        <5> QED
          BY <4>3, <4>4, <4>5, <5>1
      <4>7. t % 2 = 1
        <5>1. TwoTo[Lsb(t)] = 1
          BY <2>3, TwoToIsRecursive
        <5>2. t \div 1 = t
          BY <2>1
        <5> QED
          BY <2>2, <5>1, <5>2
      <4> QED
        BY <4>6, <4>7
    <3>2. ~IsKey'
      BY <1>1, <3>1 DEF IsKey, PrimesOf
    <3> QED
      BY <2>3, <3>2 DEF FinderInv, KeysAreFactored
  <2>4. CASE Lsb(t) > 0 /\ pc' = "base"
    <3>1. order' = Lsb(t) /\ T' = t \div TwoTo[Lsb(t)] /\ attempt' = FirstBase
      BY <1>3, <2>4 DEF Prepare, t, FirstBase, Goto
    <3>2. PICK w \in Nat, u \in Nat : w = TwoTo[Lsb(t)] /\ u = t \div TwoTo[Lsb(t)]
      BY <2>2, TwoToGrows
    <3>3. T' * TwoTo[order'] = t /\ T' % 2 = 1
      <4>1. w * u = u * w
        OBVIOUS
      <4> QED
        BY <2>2, <3>1, <3>2, <4>1
    <3>4. FirstBase' = FirstBase /\ FirstBase \in Nat /\ FirstBase .. FirstBase - 1 = {}
      BY <1>1 DEF FirstBase
    <3> QED
      BY <1>1, <2>4, <3>1, <3>3, <3>4 DEF FinderInv, KeysAreFactored, t
  <2> QED
    BY <1>3, <2>2, <2>3, <2>4 DEF Prepare, Goto, t
<1> QED
  BY <1>2, <1>3 DEF Prepare, Goto

\* A base that divides the modulus of a key does not separate its primes.
LEMMA BaseFinds ==
  ASSUME SearchInv, FinderInv, Base
  PROVE  FinderInv'
<1> DEFINE n == in.N
           b == primes[attempt]
<1>1. /\ pc = "base" /\ n \in Nat /\ n > 2 /\ attempt \in 1 .. Len(primes)
      /\ Len(primes) \in Nat /\ UNCHANGED <<in, T, order>>
      /\ P' = Gcd(b, n)
  BY DeducePrimesAssumption DEF SearchInv, TypeOK, Base, N
<1>2. b \in Nat /\ IsPrime(b)
  BY <1>1, DeducePrimesAssumption
<1>3. /\ T % 2 = 1 /\ T * TwoTo[order] = D * E - 1 /\ attempt >= FirstBase
      /\ IsKey => \A j \in FirstBase .. attempt - 1 : ~Separates(primes[j])
  BY <1>1 DEF FinderInv
<1>4. /\ FirstBase' = FirstBase /\ FirstBase \in Nat /\ (IsKey' <=> IsKey) /\ D' = D /\ E' = E
      /\ \A x : Separates(x)' <=> Separates(x)
  BY <1>1 DEF FirstBase, IsKey, PrimesOf, Separates, N, D, E
<1>5. CASE P' = 1
  <2>1. pc' = "square" /\ attempt' = attempt /\ iter' = 1
    BY <1>5 DEF Base, Goto
  <2>2. \A i \in Nat : ~ (i < 1 - 1)
    OBVIOUS
  <2>3. Gcd(primes[attempt'], N') = 1
    BY <1>1, <1>5, <2>1 DEF N
  <2> QED
    BY <1>1, <1>3, <1>4, <2>1, <2>2, <2>3 DEF FinderInv, KeysAreFactored
<1>6. CASE P' # 1
  <2>1. pc' = "base" /\ attempt' = attempt + 1
    BY <1>1, <1>6 DEF Base
  <2>2. ~Separates(b)
    <3>1. n \in Nat \ {0} /\ b \in Int /\ n > 1
      BY <1>1, <1>2
    <3> HIDE DEF b
    <3>2. PICK g \in Nat \ {0} : g = Gcd(b, n) /\ Divides(g, b) /\ Divides(g, n)
      <4> HIDE DEF n
      <4>1. Gcd(b, n) \in 1 .. n /\ Divides(Gcd(b, n), b) /\ Divides(Gcd(b, n), n)
        BY <3>1, GcdDivides
      <4> QED
        BY <3>1, <4>1
    <3>3. g = b
      BY <1>1, <1>2, <1>6, <3>2, DivisorsOfAPrime
    <3> QED
      BY <1>1, <1>2, <3>1, <3>2, <3>3, DivisorsDoNotSeparate
  <2>3. ASSUME IsKey PROVE \A j \in FirstBase .. attempt : ~Separates(primes[j])
    <3>1. \A j \in FirstBase .. attempt : j \in FirstBase .. attempt - 1 \/ j = attempt
      BY <1>1, <1>4
    <3> QED
      BY <1>3, <2>2, <2>3, <3>1
  <2>4. attempt' >= FirstBase /\ attempt' - 1 = attempt
    BY <1>1, <1>3, <1>4, <2>1
  <2> QED
    BY <1>1, <1>3, <1>4, <2>1, <2>3, <2>4 DEF FinderInv, KeysAreFactored
<1> QED
  BY <1>5, <1>6

\* A squaring after which the search goes on showed no factor.
LEMMA SquareFinds ==
  ASSUME SearchInv, FinderInv, Square
  PROVE  FinderInv'
<1> DEFINE n == in.N
           b == primes[attempt]
<1>1. /\ pc = "square" /\ n \in Nat /\ UNCHANGED <<in, T, order, attempt>>
      /\ P' = Gcd(K + 1, n) /\ iter \in Nat \ {0}
      /\ K = ExpMod(b, T * TwoTo[iter - 1], n)
  BY DeducePrimesAssumption DEF SearchInv, TypeOK, Square, N, KIsThePower
<1>2. /\ T % 2 = 1 /\ T * TwoTo[order] = D * E - 1 /\ attempt >= FirstBase
      /\ IsKey => \A j \in FirstBase .. attempt - 1 : ~Separates(primes[j])
      /\ Gcd(b, n) = 1
      /\ \A i \in Nat : i < iter - 1 => ~Shows(b, i)
  BY <1>1 DEF FinderInv, N
<1>3. /\ FirstBase' = FirstBase /\ (IsKey' <=> IsKey) /\ D' = D /\ E' = E
      /\ \A x : Separates(x)' <=> Separates(x)
      /\ \A x, i : Shows(x, i)' <=> Shows(x, i)
  BY <1>1 DEF FirstBase, IsKey, PrimesOf, Separates, Shows, IsFactor, N, D, E
<1>4. CASE IsFactor(P')
  BY <1>4 DEF Square, Goto, FinderInv, KeysAreFactored
<1>5. CASE ~IsFactor(P')
  <2>1. pc' = "square" /\ iter' = iter + 1
    BY <1>1, <1>5 DEF Square
  <2>2. ~Shows(b, iter - 1)
    BY <1>1, <1>5 DEF Shows, N
  <2>3. \A i \in Nat : i < iter' - 1 => i < iter - 1 \/ i = iter - 1
    BY <1>1, <2>1
  <2>4. \A i \in Nat : i < iter' - 1 => ~Shows(b, i)
    BY <1>2, <2>2, <2>3
  <2> QED
    BY <1>1, <1>2, <1>3, <2>1, <2>4 DEF FinderInv, KeysAreFactored, N
<1> QED
  BY <1>4, <1>5

\* When K is 1 the base had no power that separates the primes of a key.
LEMMA OneMeansNoSeparation ==
  ASSUME SearchInv, FinderInv, pc = "square", K = 1, IsKey
  PROVE  ~Separates(primes[attempt])
<1> DEFINE n == in.N
           b == primes[attempt]
<1>1. /\ n \in Nat /\ n > 2 /\ n \in Nat \ {0} /\ iter \in Nat \ {0} /\ T \in Nat \ {0} /\ order \in Nat
      /\ attempt \in 1 .. Len(primes) /\ ExpMod(b, T * TwoTo[iter - 1], n) = 1
      /\ in.E \in Nat /\ in.D \in Nat
  BY DeducePrimesAssumption DEF SearchInv, TypeOK, N, KIsThePower
<1>2. b \in Nat
  BY <1>1, DeducePrimesAssumption
<1>3. /\ T % 2 = 1 /\ T * TwoTo[order] = D * E - 1 /\ Gcd(b, n) = 1
      /\ \A i \in Nat : i < iter - 1 => ~Shows(b, i)
  BY DEF FinderInv, N
<1>4. PICK p \in Nat, q \in Nat :
        /\ IsPrime(p) /\ p > 2 /\ IsPrime(q) /\ q > 2 /\ p # q /\ N = p * q
        /\ Divides(p - 1, D * E - 1) /\ Divides(q - 1, D * E - 1)
  BY <1>1, PrimesOfAKey
<1> SUFFICES ASSUME NEW m \in Nat, (ExpMod(b, m, n) * ExpMod(b, m, n)) % n = 1,
                    ExpMod(b, m, n) \notin {1, n - 1}
             PROVE  FALSE
  BY DEF Separates, N
<1> HIDE DEF b
<1>5. n = p * q /\ n = q * p /\ n % 2 = 1 /\ p \in Nat \ {0} /\ q \in Nat \ {0}
  BY <1>4 DEF N, IsKey
<1>6. ~Divides(p, b) /\ ~Divides(q, b)
  BY <1>1, <1>2, <1>3, <1>4, <1>5, CoprimeBase
<1>7. PICK i \in Nat : LET x == ExpMod(b, T * TwoTo[i], n) + 1
                       IN  Gcd(x, n) > 1 /\ Gcd(x, n) < n
  <2>1. Divides(p - 1, T * TwoTo[order]) /\ Divides(q - 1, T * TwoTo[order])
    BY <1>3, <1>4
  <2> HIDE DEF n
  <2> QED
    BY <1>1, <1>2, <1>3, <1>4, <1>5, <1>6, <2>1, SeparatedPrimesAreFound
<1>8. Shows(b, i)
  BY <1>7 DEF Shows, IsFactor, N
<1>9. i >= iter - 1
  BY <1>1, <1>3, <1>8
<1>10. Gcd(ExpMod(b, T * TwoTo[i], n) + 1, n) = 1
  <2>1. iter - 1 \in Nat /\ n > 1
    BY <1>1
  <2> HIDE DEF n
  <2> QED
    BY <1>1, <1>2, <1>5, <1>9, <2>1, NothingAfterOne
<1> QED
  BY <1>7, <1>10

\* For a key the last of the squarings gives 1, so no key is taken for none.
LEMMA KeysSquareToOne ==
  ASSUME SearchInv, FinderInv, pc = "square", ~RoundLeft, IsKey
  PROVE  K = 1
<1>1. in.N \in Nat /\ in.E \in Nat /\ in.D \in Nat
  BY DeducePrimesAssumption DEF SearchInv, TypeOK
<1>2. iter = order + 1 /\ order \in Nat
  BY DEF SearchInv, TypeOK, RoundLeft
<1>3. K = ExpMod(primes[attempt], T * TwoTo[order], in.N)
  <2>1. iter - 1 = order
    BY <1>2
  <2> QED
    BY <2>1 DEF SearchInv, KIsThePower, N
<1>4. T * TwoTo[order] = D * E - 1 /\ Gcd(primes[attempt], in.N) = 1
  BY DEF FinderInv, N
<1>5. D * E - 1 \in Nat
  <2>1. PICK w \in Nat : w = TwoTo[order]
    BY <1>2, TwoToGrows
  <2>2. T \in Nat
    BY DEF SearchInv, TypeOK
  <2>3. T * w \in Nat
    BY <2>2
  <2> QED
    BY <1>4, <2>1, <2>3
<1>6. primes[attempt] \in Nat
  <2>1. attempt \in 1 .. Len(primes)
    BY DEF SearchInv, TypeOK
  <2> QED
    BY <2>1, DeducePrimesAssumption
<1>7. ExpMod(primes[attempt], D * E - 1, in.N) = 1
  BY <1>1, <1>4, <1>5, <1>6, SquaringsOfAKeyEndAtOne
<1> QED
  BY <1>3, <1>4, <1>7

\* A base is left for the next only when it does not separate the primes.
LEMMA OthersFind ==
  ASSUME SearchInv, FinderInv, GiveUp \/ NextBase \/ NotAKey \/ OutOfMemory \/ UNCHANGED vars
  PROVE  FinderInv'
<1>1. /\ in.N \in Nat /\ in.E \in Nat /\ in.D \in Nat /\ attempt \in Nat /\ Len(primes) \in Nat
      /\ UNCHANGED <<in, T, order>>
  <2>1. UNCHANGED <<in, T, order>>
    BY DEF GiveUp, NextBase, NotAKey, OutOfMemory, vars
  <2>2. Len(primes) \in Nat /\ Inputs \subseteq [N : Nat, E : Nat, D : Nat]
    BY DeducePrimesAssumption
  <2>3. in \in Inputs /\ attempt \in 0 .. Len(primes) + 1
    BY DEF SearchInv, TypeOK
  <2> QED
    BY <2>1, <2>2, <2>3
<1>2. /\ FirstBase' = FirstBase /\ FirstBase \in Nat /\ (IsKey' <=> IsKey) /\ D' = D /\ E' = E
      /\ N' = N /\ (OutOfRange' <=> OutOfRange)
      /\ \A x : Separates(x)' <=> Separates(x)
      /\ \A x, i : Shows(x, i)' <=> Shows(x, i)
      /\ SomeBaseSeparates' <=> SomeBaseSeparates
  BY <1>1 DEF FirstBase, IsKey, PrimesOf, Separates, Shows, IsFactor, SomeBaseSeparates,
              OutOfRange, N, D, E
<1>3. CASE GiveUp
  <2>1. pc = "base" /\ pc' = "bad" /\ (attempt > Len(primes) \/ N % 2 = 0)
    BY <1>3 DEF GiveUp, Goto
  <2>2. ASSUME IsKey, SomeBaseSeparates PROVE FALSE
    <3>1. attempt > Len(primes)
      BY <2>1, <2>2 DEF IsKey
    <3>2. PICK j \in FirstBase .. Len(primes) : Separates(primes[j])
      BY <2>2 DEF SomeBaseSeparates
    <3>3. j \in FirstBase .. attempt - 1
      BY <1>1, <1>2, <3>1
    <3> QED
      BY <2>1, <2>2, <3>2, <3>3 DEF FinderInv
  <2> QED
    BY <1>2, <2>1, <2>2 DEF FinderInv, KeysAreFactored
<1>4. CASE NextBase
  <2>1. pc = "square" /\ K = 1 /\ pc' = "base" /\ attempt' = attempt + 1
    BY <1>4 DEF NextBase, Goto
  <2>2. ASSUME IsKey PROVE \A j \in FirstBase .. attempt : ~Separates(primes[j])
    <3>1. \A j \in FirstBase .. attempt : j \in FirstBase .. attempt - 1 \/ j = attempt
      BY <1>1, <1>2
    <3>2. ~Separates(primes[attempt])
      BY <2>1, <2>2, OneMeansNoSeparation
    <3> QED
      BY <2>1, <2>2, <3>1, <3>2 DEF FinderInv
  <2>3. attempt >= FirstBase /\ T % 2 = 1 /\ T * TwoTo[order] = D * E - 1
    BY <2>1 DEF FinderInv
  <2>4. attempt' >= FirstBase /\ attempt' - 1 = attempt
    BY <1>1, <1>2, <2>1, <2>3
  <2> QED
    BY <1>1, <1>2, <2>1, <2>2, <2>3, <2>4 DEF FinderInv, KeysAreFactored
<1>5. CASE NotAKey
  <2>1. pc = "square" /\ ~RoundLeft /\ K # 1 /\ pc' = "bad"
    BY <1>5 DEF NotAKey, Goto
  <2>2. ~IsKey
    BY <2>1, KeysSquareToOne
  <2> QED
    BY <1>2, <2>1, <2>2 DEF FinderInv, KeysAreFactored
<1>6. CASE OutOfMemory
  BY <1>6 DEF OutOfMemory, Goto, FinderInv, KeysAreFactored
<1>7. CASE UNCHANGED vars
  <2>1. UNCHANGED <<in, pc, T, order, attempt, iter, K, P, Q>>
    BY <1>7 DEF vars
  <2> QED
    BY <1>2, <2>1 DEF FinderInv, KeysAreFactored
<1> QED
  BY <1>3, <1>4, <1>5, <1>6, <1>7

\* Every reachable state satisfies the invariant.
THEOREM SearchMissesNothing == Spec => []FinderInv
<1>1. Init => FinderInv
  BY DEF Init, FinderInv, KeysAreFactored
<1>2. SearchInv /\ FinderInv /\ [Next]_vars => FinderInv'
  BY PrepareFinds, BaseFinds, SquareFinds, OthersFind DEF Next, Search
<1> QED
  BY <1>1, <1>2, SearchInvariance, PTL DEF Spec

\* E and D of a key are never refused: whatever the base, squaring it all the times that
\* are left to rsa_deduce_primes ends at 1, by Fermat's little theorem for both primes.
THEOREM KeysAreNotRefused ==
  Spec => [](pc = "square" /\ ~RoundLeft /\ IsKey => K = 1)
<1>1. SearchInv /\ FinderInv => (pc = "square" /\ ~RoundLeft /\ IsKey => K = 1)
  BY KeysSquareToOne
<1> QED
  BY <1>1, SearchInvariance, SearchMissesNothing, PTL

\* rsa_deduce_primes does not give up on a key for which one of its bases has a power that
\* is 1 modulo one prime and -1 modulo the other: no base is passed over and no squaring
\* comes too late.
THEOREM SeparatedKeysAreFactored == Spec => [](SomeBaseSeparates => KeysAreFactored)
<1>1. FinderInv => (SomeBaseSeparates => KeysAreFactored)
  BY DEF FinderInv
<1> QED
  BY <1>1, SearchMissesNothing, PTL

-----------------------------------------------------------------------------
(* What the search finds is due to a base that separates the primes.       *)

\* A power of b that is 1 modulo one prime and -1 modulo the other is such a root of 1.
LEMMA PowerSeparates ==
  ASSUME NEW r \in Nat, IsPrime(r), r > 2, NEW v \in Nat, IsPrime(v), v > 2, r # v,
         NEW n \in Nat \ {0}, n = r * v, NEW b \in Nat, NEW m \in Nat,
         \/ ExpMod(b, m, r) = r - 1 /\ ExpMod(b, m, v) = 1
         \/ ExpMod(b, m, v) = v - 1 /\ ExpMod(b, m, r) = 1
  PROVE  LET y == ExpMod(b, m, n) IN (y * y) % n = 1 /\ y \notin {1, n - 1}
<1>1. /\ r \in Nat \ {0} /\ v \in Nat \ {0} /\ r > 1 /\ v > 1 /\ n > 1 /\ b \in Int
      /\ n = v * r
  OBVIOUS
<1>2. Divides(r, n) /\ Divides(v, n)
  BY <1>1, DividesIsAProduct
<1>3. PICK y \in 0 .. n - 1 : y = ExpMod(b, m, n)
  <2>1. ExpMod(b, m, n) \in 0 .. n - 1
    BY <1>1, ExpModFirst
  <2> QED
    BY <2>1
<1>4. y % r = ExpMod(b, m, r) /\ y % v = ExpMod(b, m, v)
  BY <1>1, <1>2, <1>3, ExpModOfDivisor
<1>5. \/ y % r = r - 1 /\ y % v = 1
      \/ y % v = v - 1 /\ y % r = 1
  BY <1>4
<1>6. y \in Int
  BY <1>1
<1>7. y # 1
  <2>1. 1 % r = 1 /\ r - 1 # 1 /\ 1 % v = 1 /\ v - 1 # 1
    BY <1>1, OneIsReduced
  <2> QED
    BY <1>5, <2>1
<1>8. y # n - 1
  <2>1. (n - 1) % v = v - 1 /\ v - 1 # 1 /\ (n - 1) % r = r - 1 /\ r - 1 # 1
    BY <1>1, MinusOneOfAProduct
  <2> QED
    BY <1>5, <2>1
<1>9. PICK w \in Int : w = y * y
  BY <1>6
<1>10. ASSUME NEW c \in Nat, c > 2, y % c \in {1, c - 1} PROVE w % c = 1
  <2>1. c \in Nat \ {0} /\ c > 1
    BY <1>10
  <2>2. PICK z \in Int : z = y % c
    BY <1>6, <2>1
  <2>3. (z * y) % c = w % c
    BY <1>9, <1>6, <2>1, <2>2, ModMul
  <2>4. (z * z) % c = (y * z) % c
    BY <1>6, <2>1, <2>2, ModMul
  <2>5. y * z = z * y
    BY <1>6, Products
  <2>6. z = 1 => (z * z) % c = 1
    BY <2>1, OneIsReduced
  <2>7. z = c - 1 => (z * z) % c = 1
    <3>1. ExpMod(c - 1, 1, c) = c - 1 /\ ExpMod(c - 1, 2, c) = 1
      BY <2>1, PowersOfMinusOne
    <3>2. c - 1 \in Int /\ 2 * 1 = 2 /\ 1 \in Nat \ {0}
      BY <2>1
    <3>3. ExpMod(c - 1, 2 * 1, c) = (ExpMod(c - 1, 1, c) * ExpMod(c - 1, 1, c)) % c
      BY <2>1, <3>2, ExpModSquares
    <3> QED
      BY <3>1, <3>2, <3>3
  <2> QED
    BY <1>10, <2>2, <2>3, <2>4, <2>5, <2>6, <2>7
<1>11. w % r = 1 /\ w % v = 1
  BY <1>10, <1>5
<1>12. PICK x \in 0 .. r * v - 1 : x = w % n
  <2>1. w % n \in 0 .. n - 1
    BY Division
  <2> QED
    BY <2>1
<1>13. x % r = 1 /\ x % v = 1
  <2>1. (w % n) % r = w % r /\ (w % n) % v = w % v
    BY <1>1, <1>2, ModOfDivisor
  <2> QED
    BY <1>11, <1>12, <2>1
<1>14. PICK o \in 0 .. r * v - 1 : o = 1
  BY <1>1
<1>15. x % r = o % r /\ x % v = o % v
  BY <1>1, <1>13, <1>14, OneIsReduced
<1>16. x = o
  BY <1>15, Residues
<1> QED
  BY <1>7, <1>8, <1>9, <1>12, <1>14, <1>16, <1>3

\* A number that is -1 modulo one prime only has a power that is such a root, when
\* squarings take it to 1 modulo the other.
LEMMA FactorsSeparate ==
  ASSUME NEW r \in Nat, IsPrime(r), r > 2, NEW v \in Nat, IsPrime(v), v > 2, r # v,
         NEW n \in Nat \ {0}, n = r * v, NEW b \in Nat, NEW e \in Nat,
         ExpMod(b, e, r) = r - 1, ExpMod(b, e, v) # v - 1,
         NEW k \in Nat, ExpMod(b, e * TwoTo[k], v) = 1
  PROVE  \E m \in Nat : LET y == ExpMod(b, m, n)
                        IN  (y * y) % n = 1 /\ y \notin {1, n - 1}
<1>1. /\ r \in Nat \ {0} /\ v \in Nat \ {0} /\ r > 1 /\ v > 1 /\ n > 1 /\ b \in Int
      /\ n = v * r
  OBVIOUS
<1>2. PICK x \in 0 .. v - 1 : x = ExpMod(b, e, v)
  <2>1. ExpMod(b, e, v) \in 0 .. v - 1
    BY <1>1, ExpModFirst
  <2> QED
    BY <2>1
<1>3. \A i \in Nat : TwoTo[i] \in Nat
  BY TwoToGrows
<1>4. TwoTo[0] = 1 /\ \A i \in Nat \ {0} : TwoTo[i] = 2 * TwoTo[i - 1]
  BY TwoToIsRecursive
<1> DEFINE S == {j \in Nat : ExpMod(x, TwoTo[j], v) = 1}
<1>5. k \in S
  <2>1. PICK w \in Nat : w = TwoTo[k]
    BY <1>3
  <2>2. ExpMod(b, e * w, v) = ExpMod(x, w, v)
    BY <1>1, <1>2, ExpModTimes
  <2> QED
    BY <2>1, <2>2
<1>6. PICK j \in S : \A i \in S : j <= i
  <2>1. S \subseteq Nat
    OBVIOUS
  <2> HIDE DEF S
  <2> QED
    BY <1>5, <2>1, Least
<1>7. x \in Int
  BY <1>1
<1>8. ExpMod(x, 1, v) = x
  <2>1. x % v = x
    BY <1>1, <1>7, ModIsReduced
  <2> QED
    BY <1>1, <1>7, <2>1, ExpModFirst
\* a power of b that is -1 modulo one of the primes and 1 modulo the other
<1>10. \E m \in Nat : \/ ExpMod(b, m, r) = r - 1 /\ ExpMod(b, m, v) = 1
                      \/ ExpMod(b, m, v) = v - 1 /\ ExpMod(b, m, r) = 1
  <2>1. CASE j = 0
    <3>1. x = 1
      BY <1>4, <1>6, <1>8, <2>1
    <3> QED
      BY <1>2, <3>1
  <2>2. CASE j # 0
    <3>1. j \in Nat \ {0} /\ j - 1 \in Nat /\ ~ (j <= j - 1)
      BY <1>6, <2>2
    <3>2. PICK t \in Nat \ {0} : t = TwoTo[j - 1]
      BY <3>1, TwoToGrows
    <3>3. PICK z \in 0 .. v - 1 : z = ExpMod(x, t, v)
      BY <1>1, <1>7, ExpModFirst
    <3>4. z # 1
      BY <1>6, <3>1, <3>2, <3>3
    <3>5. (z * z) % v = 1
      <4>1. ExpMod(x, 2 * t, v) = 1
        BY <1>4, <1>6, <3>1, <3>2
      <4> QED
        BY <1>1, <1>7, <3>3, <4>1, ExpModSquares
    <3>6. z = v - 1
      BY <3>4, <3>5, RootsOfOne
    <3>7. t % 2 = 0
      <4>1. j - 1 # 0
        BY <1>2, <1>4, <1>8, <3>2, <3>3, <3>6
      <4>2. j - 1 \in Nat \ {0} /\ (j - 1) - 1 \in Nat
        BY <3>1, <4>1
      <4>3. TwoTo[j - 1] = 2 * TwoTo[(j - 1) - 1] /\ TwoTo[(j - 1) - 1] \in Nat
        BY <1>3, <1>4, <4>2
      <4>4. \A a \in Nat : (2 * a) % 2 = 0
        OBVIOUS
      <4> QED
        BY <3>2, <4>3, <4>4
    <3>8. PICK m \in Nat : m = e * t
      OBVIOUS
    <3>9. ExpMod(b, m, v) = v - 1
      <4>1. \A i \in Nat : ExpMod(b, e * i, v) = ExpMod(ExpMod(b, e, v), i, v)
        BY <1>1, ExpModTimes
      <4> QED
        BY <1>2, <3>3, <3>6, <3>8, <4>1
    <3>10. ExpMod(b, m, r) = 1
      <4>1. ExpMod(b, m, r) = ExpMod(r - 1, t, r)
        BY <1>1, <3>8, ExpModTimes
      <4>2. ExpMod(r - 1, t, r) = 1
        BY <1>1, <3>7, PowersOfMinusOne
      <4> QED
        BY <4>1, <4>2
    <3> QED
      BY <3>9, <3>10
  <2> QED
    BY <2>1, <2>2
<1>11. PICK m \in Nat : \/ ExpMod(b, m, r) = r - 1 /\ ExpMod(b, m, v) = 1
                        \/ ExpMod(b, m, v) = v - 1 /\ ExpMod(b, m, r) = 1
  BY <1>10
<1> QED
  BY <1>11, PowerSeparates

\* The gcd of two multiples of n.
LEMMA GcdOfEquals ==
  ASSUME NEW n \in Nat \ {0}
  PROVE  Gcd(n, n) = n
<1> DEFINE S == {d \in 1 .. n : Divides(d, n) /\ Divides(d, n)}
<1>1. S \subseteq 1 .. n /\ n \in S /\ S # {}
  <2>1. n % n = 0
    OBVIOUS
  <2> QED
    BY <2>1 DEF Divides
<1> HIDE DEF S
<1>2. Max(S) \in S /\ Max(S) >= n
  BY <1>1, Greatest
<1>3. \A g \in 1 .. n : g >= n => g = n
  OBVIOUS
<1>4. Max(S) = n
  BY <1>1, <1>2, <1>3
<1> QED
  BY <1>4 DEF Gcd, S

\* The number before a multiple of r.
LEMMA OneBefore ==
  ASSUME NEW r \in Nat \ {0}, NEW x \in Int, Divides(r, x + 1)
  PROVE  x % r = r - 1
<1>1. PICK u \in Int : x + 1 = r * u
  BY DividesIsAProduct
<1>2. PICK k \in Int, c \in 0 .. r - 1 : k = u - 1 /\ c = r - 1
  OBVIOUS
<1>3. r * k = r * u - r
  BY <1>2
<1>4. x = r * k + c
  BY <1>1, <1>2, <1>3
<1>5. x % r = c
  BY <1>4, DivisionIsUnique
<1> QED
  BY <1>2, <1>5

\* A number that has one of two primes as its greatest common divisor with their product.
LEMMA OnePrimeOnly ==
  ASSUME NEW r \in Nat, IsPrime(r), r > 2, NEW v \in Nat, IsPrime(v), v > 2, r # v,
         NEW n \in Nat \ {0}, n = r * v, NEW x \in 0 .. n - 1, Gcd(x + 1, n) = r
  PROVE  x % r = r - 1 /\ x % v # v - 1
<1>1. r > 1 /\ v > 1 /\ r \in Nat \ {0} /\ v \in Nat \ {0} /\ x + 1 \in Int /\ x \in Nat /\ n \in Nat
  OBVIOUS
<1>2. Divides(r, x + 1)
  BY <1>1, GcdDivides
<1>3. x % r = r - 1
  <2>1. x \in Int /\ r \in Nat \ {0}
    BY <1>1
  <2> QED
    BY <1>2, <2>1, OneBefore, Zenon
<1>4. ASSUME x % v = v - 1 PROVE FALSE
  <2>1. (n - 1) % r = r - 1 /\ (n - 1) % v = v - 1
    <3>1. n = v * r
      BY <1>1
    <3> QED
      BY <1>1, <3>1, MinusOneOfAProduct
  <2>2. PICK y \in 0 .. r * v - 1 : y = n - 1
    OBVIOUS
  <2>3. x \in 0 .. r * v - 1
    OBVIOUS
  <2>4. x % r = y % r /\ x % v = y % v
    BY <1>3, <1>4, <2>1, <2>2
  <2>5. x = y
    BY <2>3, <2>4, Residues
  <2>6. x + 1 = n
    BY <1>1, <2>2, <2>5
  <2>7. r = n
    BY <2>6, GcdOfEquals
  <2>8. r * v # r
    <3>1. r * v >= r * 2
      BY <1>1
    <3> QED
      BY <1>1, <3>1
  <2> QED
    BY <2>7, <2>8
<1> QED
  BY <1>3, <1>4

\* What Square needs: the base of which a power shows a factor of a key has a power that
\* separates the primes.
LEMMA ShownIsSeparated ==
  ASSUME in.N \in Nat, in.E \in Nat, in.D \in Nat, IsKey,
         NEW b \in Nat, Gcd(b, in.N) = 1, NEW t \in Nat, NEW o \in Nat,
         t * TwoTo[o] = D * E - 1, NEW i \in Nat,
         IsFactor(Gcd(ExpMod(b, t * TwoTo[i], in.N) + 1, in.N))
  PROVE  Separates(b)
<1>1. PICK p \in Nat, q \in Nat :
        /\ IsPrime(p) /\ p > 2 /\ IsPrime(q) /\ q > 2 /\ p # q /\ N = p * q
        /\ Divides(p - 1, D * E - 1) /\ Divides(q - 1, D * E - 1)
  BY PrimesOfAKey
<1> DEFINE n == in.N
           m == D * E - 1
<1>2. /\ n = p * q /\ n = q * p /\ n > 1 /\ n \in Nat \ {0} /\ b \in Int
      /\ p \in Nat \ {0} /\ q \in Nat \ {0}
  BY <1>1 DEF N
<1>3. PICK w \in Nat, z \in Nat : w = TwoTo[o] /\ z = TwoTo[i]
  BY TwoToGrows
<1>4. PICK e \in Nat : e = t * z
  BY <1>3
<1>5. m \in Nat /\ t * w = m
  BY <1>3
<1>6. e * w = m * z
  <2>1. (t * z) * w = (t * w) * z
    BY Products
  <2> QED
    BY <1>4, <1>5, <2>1
<1>7. PICK x \in 0 .. n - 1 : x = ExpMod(b, e, n)
  <2> HIDE DEF n
  <2>1. ExpMod(b, e, n) \in 0 .. n - 1
    BY <1>2, ExpModFirst
  <2> QED
    BY <2>1
<1>8. PICK g \in Nat \ {0} : g = Gcd(x + 1, n) /\ g > 1 /\ g < n /\ Divides(g, n)
  <2>1. IsFactor(Gcd(x + 1, n))
    BY <1>3, <1>4, <1>7
  <2> HIDE DEF n
  <2>2. x + 1 \in Int
    BY <1>2
  <2>3. Gcd(x + 1, n) \in 1 .. n /\ Divides(Gcd(x + 1, n), n)
    BY <1>2, <2>2, GcdDivides
  <2> QED
    BY <2>1, <2>3 DEF IsFactor, N, n
<1>9. g \in {p, q}
  <2>1. PICK f \in Int : n = g * f
    <3> HIDE DEF n
    <3>1. n \in Int
      BY <1>2
    <3> QED
      BY <1>8, <3>1, DividesIsAProduct
  <2>2. f \in Nat /\ f > 1
    BY <1>2, <1>8, <2>1
  <2>3. g * f = p * q
    BY <1>2, <2>1
  <2> QED
    BY <1>1, <1>8, <2>2, <2>3, FactorsOfTwoPrimes
<1> HIDE DEF n, m
<1>10. ASSUME NEW r \in Nat, IsPrime(r), r > 2, NEW v \in Nat, IsPrime(v), v > 2, r # v,
              n = r * v, g = r, Divides(v - 1, m)
       PROVE  Separates(b)
  <2>1. x % r = r - 1 /\ x % v # v - 1
    <3>1. Gcd(x + 1, n) = r /\ n \in Nat \ {0}
      BY <1>2, <1>8, <1>10
    <3> QED
      BY <1>7, <1>10, <3>1, OnePrimeOnly
  <2>2. r > 1 /\ v > 1 /\ r \in Nat \ {0} /\ v \in Nat \ {0} /\ n = v * r
    BY <1>10
  <2>3. Divides(r, n) /\ Divides(v, n)
    BY <1>10, <2>2, DividesIsAProduct
  <2>4. x % r = ExpMod(b, e, r) /\ x % v = ExpMod(b, e, v)
    BY <1>2, <1>7, <2>2, <2>3, ExpModOfDivisor
  <2>5. ExpMod(b, e * w, v) = 1
    <3>1. ~Divides(v, b)
      BY <1>2, <1>10, <2>2, CoprimeBase DEF n
    <3>2. ExpMod(b, m, v) = 1
      BY <1>5, <1>10, <3>1, Fermat
    <3>3. ExpMod(b, m * z, v) = 1
      BY <1>3, <1>5, <1>10, <3>2, PowersRepeat
    <3> QED
      BY <1>6, <3>3
  <2>6. \E k \in Nat : LET y == ExpMod(b, k, n)
                       IN  (y * y) % n = 1 /\ y \notin {1, n - 1}
    <3>1. ExpMod(b, e * TwoTo[o], v) = 1
      BY <1>3, <2>5
    <3> QED
      BY <1>2, <1>10, <2>1, <2>4, <3>1, FactorsSeparate
  <2> QED
    BY <2>6 DEF Separates, N, n
<1> QED
  BY <1>1, <1>2, <1>9, <1>10 DEF m

\* A key that was factored has a base that separates its primes.
FoundInv == pc = "ok" /\ IsKey => SomeBaseSeparates

\* Every step preserves it.
LEMMA FoundNext ==
  ASSUME SearchInv, FinderInv, FoundInv, [Next]_vars
  PROVE  FoundInv'
<1>1. in' = in
  BY DEF Next, Search, Prepare, Base, GiveUp, Square, NextBase, NotAKey, OutOfMemory, vars
<1>2. (IsKey' <=> IsKey) /\ (SomeBaseSeparates' <=> SomeBaseSeparates)
  BY <1>1 DEF IsKey, PrimesOf, Separates, SomeBaseSeparates, FirstBase, N, D, E
<1>3. ASSUME Square, IsFactor(P'), IsKey PROVE SomeBaseSeparates
  <2>1. /\ pc = "square" /\ P' = Gcd(K + 1, N) /\ iter \in Nat /\ iter - 1 \in Nat
        /\ T \in Nat /\ order \in Nat /\ attempt \in 1 .. Len(primes)
        /\ in.N \in Nat /\ in.E \in Nat /\ in.D \in Nat
        /\ K = ExpMod(primes[attempt], T * TwoTo[iter - 1], N)
    BY <1>3, DeducePrimesAssumption DEF SearchInv, TypeOK, Square, KIsThePower
  <2>2. T * TwoTo[order] = D * E - 1 /\ attempt >= FirstBase /\ Gcd(primes[attempt], N) = 1
    BY <2>1 DEF FinderInv
  <2>3. primes[attempt] \in Nat
    BY <2>1, DeducePrimesAssumption
  <2>4. PICK b \in Nat, i \in Nat : b = primes[attempt] /\ i = iter - 1
    BY <2>1, <2>3
  <2>5. IsFactor(Gcd(ExpMod(b, T * TwoTo[i], in.N) + 1, in.N)) /\ Gcd(b, in.N) = 1
    BY <1>3, <2>1, <2>2, <2>4 DEF N
  <2>6. Separates(b)
    BY <1>3, <2>1, <2>2, <2>5, ShownIsSeparated
  <2>7. attempt \in FirstBase .. Len(primes)
    BY <2>1, <2>2 DEF FirstBase
  <2> QED
    BY <2>4, <2>6, <2>7 DEF SomeBaseSeparates
<1>4. pc' = "ok" => (pc = "ok" \/ (Square /\ IsFactor(P')))
  BY DEF Next, Search, Prepare, Base, GiveUp, Square, NextBase, NotAKey, OutOfMemory, vars, Goto
<1> QED
  BY <1>2, <1>3, <1>4 DEF FoundInv

\* The condition of SeparatedKeysAreFactored is the weakest: rsa_deduce_primes finds the
\* primes of no key for which all the bases are such that it gives up.
THEOREM FactoredKeysAreSeparated == Spec => [](pc = "ok" /\ IsKey => SomeBaseSeparates)
<1>1. Init => FoundInv
  BY DEF Init, FoundInv
<1>2. SearchInv /\ FinderInv /\ FoundInv /\ [Next]_vars => FoundInv'
  BY FoundNext
<1>3. FoundInv <=> (pc = "ok" /\ IsKey => SomeBaseSeparates)
  BY DEF FoundInv
<1> QED
  BY <1>1, <1>2, <1>3, SearchInvariance, SearchMissesNothing, PTL DEF Spec

-----------------------------------------------------------------------------
(* The search ends: how many steps it can still take.                      *)

\* The bases that were not tried to their end.
BasesLeft == Len(primes) + 1 - attempt

\* A bound of the steps that the call can still take.
StepsLeft ==
  CASE pc = "start"  -> IF OutOfRange THEN 1
                          ELSE 2 + (Len(primes) + 1) * (Lsb(D * E - 1) + 3)
    [] pc = "base"   -> 1 + BasesLeft * (order + 3)
    [] pc = "square" -> BasesLeft * (order + 3) - iter
    [] OTHER         -> 0

\* Products with one more base.
LEMMA OneBaseMore ==
  ASSUME NEW c \in Nat, NEW o \in Nat
  PROVE  c * o \in Nat /\ (c + 1) * o = c * o + o
  OBVIOUS

\* The exponents of the search when it starts.
LEMMA OrderOfTheKey ==
  ASSUME SearchInv, ~OutOfRange
  PROVE  Lsb(D * E - 1) \in Nat
<1>1. in.N \in Nat /\ in.E \in Nat /\ in.D \in Nat
  BY DeducePrimesAssumption DEF SearchInv, TypeOK
<1>2. PICK t \in Nat \ {0} : t = D * E - 1
  BY <1>1 DEF OutOfRange, N, D, E
<1>3. Lsb(t) \in Nat
  BY LsbSplits
<1> QED
  BY <1>2, <1>3

\* The number of steps is a natural number, and 0 only at the end.
LEMMA StepsAreCounted ==
  ASSUME SearchInv
  PROVE  StepsLeft \in Nat /\ (pc \in {"start", "base", "square"} => StepsLeft > 0)
<1>1. in.N \in Nat /\ in.E \in Nat /\ in.D \in Nat /\ Len(primes) \in Nat \ {0}
  BY DeducePrimesAssumption DEF SearchInv, TypeOK
<1>2. CASE pc = "start" /\ ~OutOfRange
  <2>1. PICK l \in Nat : l = Lsb(D * E - 1)
    BY <1>2, OrderOfTheKey
  <2>2. PICK o \in Nat, c \in Nat : o = l + 3 /\ c = Len(primes) + 1
    <3>1. l + 3 \in Nat /\ Len(primes) + 1 \in Nat
      BY <1>1
    <3> QED
      BY <3>1
  <2>3. c * o \in Nat
    BY OneBaseMore
  <2>4. StepsLeft = 2 + c * o
    BY <1>2, <2>1, <2>2 DEF StepsLeft
  <2> QED
    BY <2>3, <2>4
<1>3. CASE pc = "start" /\ OutOfRange
  BY <1>3 DEF StepsLeft
<1>4. CASE pc = "base"
  <2>1. order \in Nat /\ attempt \in Nat /\ attempt <= Len(primes) + 1
    BY <1>1 DEF SearchInv, TypeOK
  <2>2. PICK c \in Nat, o \in Nat : c = BasesLeft /\ o = order + 3
    BY <1>1, <2>1 DEF BasesLeft
  <2>3. c * o \in Nat
    BY OneBaseMore
  <2> QED
    BY <1>4, <2>2, <2>3 DEF StepsLeft
<1>5. CASE pc = "square"
  <2>1. /\ order \in Nat /\ attempt \in Nat /\ attempt <= Len(primes) /\ iter \in Nat
        /\ iter < order + 3
    BY <1>1, <1>5 DEF SearchInv, TypeOK
  <2>2. PICK c \in Nat, o \in Nat : c = Len(primes) - attempt /\ o = order + 3
    <3>1. Len(primes) - attempt \in Nat /\ order + 3 \in Nat
      BY <1>1, <2>1
    <3> QED
      BY <3>1
  <2>3. c * o \in Nat /\ (c + 1) * o = c * o + o
    BY OneBaseMore
  <2>4. StepsLeft = (c + 1) * o - iter
    <3>1. BasesLeft = c + 1
      BY <1>1, <2>1, <2>2 DEF BasesLeft
    <3> QED
      BY <1>5, <2>2, <3>1 DEF StepsLeft
  <2>5. iter < o
    BY <2>1, <2>2
  <2> QED
    BY <2>1, <2>3, <2>4, <2>5
<1>6. CASE pc \notin {"start", "base", "square"}
  BY <1>6 DEF StepsLeft
<1> QED
  BY <1>2, <1>3, <1>4, <1>5, <1>6

\* Every step takes one off.
LEMMA StepsAreTaken ==
  ASSUME SearchInv, Next
  PROVE  StepsLeft' < StepsLeft
<1>1. /\ in.N \in Nat /\ in.E \in Nat /\ in.D \in Nat /\ Len(primes) \in Nat \ {0} /\ in' = in
  <2>1. in' = in
    BY DEF Next, Search, Prepare, Base, GiveUp, Square, NextBase, NotAKey, OutOfMemory
  <2> QED
    BY <2>1, DeducePrimesAssumption DEF SearchInv, TypeOK
<1>2. CASE pc \in {"start", "base", "square"} /\ pc' \notin {"start", "base", "square"}
  <2>1. StepsLeft' = 0
    BY <1>2 DEF StepsLeft
  <2> QED
    BY <1>2, <2>1, StepsAreCounted
<1>3. CASE Prepare /\ pc' = "base"
  <2>1. /\ pc = "start" /\ ~OutOfRange /\ order' = Lsb(D * E - 1) /\ attempt' \in {1, 2}
    BY <1>3 DEF Prepare, Goto
  <2>2. PICK l \in Nat : l = Lsb(D * E - 1)
    BY <2>1, OrderOfTheKey
  <2>3. PICK o \in Nat, c \in Nat : o = l + 3 /\ c = Len(primes)
    <3>1. l + 3 \in Nat /\ Len(primes) \in Nat
      BY <1>1
    <3> QED
      BY <3>1
  <2>4. StepsLeft = 2 + (c + 1) * o
    BY <2>1, <2>2, <2>3 DEF StepsLeft
  <2>5. StepsLeft' = 1 + (c + 1 - attempt') * o
    BY <1>3, <2>1, <2>2, <2>3 DEF StepsLeft, BasesLeft
  <2>6. \E e \in Nat : c + 1 - attempt' = e /\ (e + 1 = c + 1 \/ e + 2 = c + 1)
    BY <1>1, <2>1, <2>3
  <2>7. \A e \in Nat : e * o \in Nat /\ (e + 1) * o = e * o + o /\ (e + 2) * o = e * o + o + o
    OBVIOUS
  <2> QED
    BY <2>4, <2>5, <2>6, <2>7
<1>4. CASE Base
  <2>1. pc = "base" /\ attempt \in 1 .. Len(primes) /\ order' = order /\ order \in Nat
    BY <1>1, <1>4 DEF SearchInv, TypeOK, Base
  <2>2. PICK c \in Nat, o \in Nat : c + 1 = BasesLeft /\ o = order + 3
    <3>1. Len(primes) - attempt \in Nat /\ order + 3 \in Nat
      BY <1>1, <2>1
    <3>2. (Len(primes) - attempt) + 1 = BasesLeft
      BY <1>1, <2>1 DEF BasesLeft
    <3> QED
      BY <3>1, <3>2
  <2>3. c * o \in Nat /\ (c + 1) * o = c * o + o /\ o > 0
    BY <2>1, <2>2, OneBaseMore
  <2>4. StepsLeft = 1 + (c + 1) * o
    BY <2>1, <2>2 DEF StepsLeft
  <2>5. CASE pc' = "square" /\ attempt' = attempt /\ iter' = 1
    <3>1. StepsLeft' = (c + 1) * o - 1
      BY <2>1, <2>2, <2>5 DEF StepsLeft, BasesLeft
    <3> QED
      BY <2>3, <2>4, <3>1
  <2>6. CASE pc' = "base" /\ attempt' = attempt + 1
    <3>1. BasesLeft' = c
      BY <1>1, <2>1, <2>2, <2>6 DEF BasesLeft
    <3>2. StepsLeft' = 1 + c * o
      BY <2>1, <2>2, <2>6, <3>1 DEF StepsLeft
    <3> QED
      BY <2>3, <2>4, <3>2
  <2> QED
    BY <1>4, <2>5, <2>6 DEF Base, Goto
<1>5. CASE (Square \/ NextBase) /\ pc' \in {"base", "square"}
  <2>1. /\ pc = "square" /\ attempt \in 1 .. Len(primes) /\ order' = order /\ order \in Nat
        /\ iter \in 1 .. order + 1
    BY <1>1, <1>5 DEF SearchInv, TypeOK, Square, NextBase
  <2>2. PICK c \in Nat, o \in Nat : c + 1 = BasesLeft /\ o = order + 3
    <3>1. Len(primes) - attempt \in Nat /\ order + 3 \in Nat
      BY <1>1, <2>1
    <3>2. (Len(primes) - attempt) + 1 = BasesLeft
      BY <1>1, <2>1 DEF BasesLeft
    <3> QED
      BY <3>1, <3>2
  <2>3. c * o \in Nat /\ (c + 1) * o = c * o + o
    BY OneBaseMore
  <2>4. StepsLeft = (c + 1) * o - iter
    BY <2>1, <2>2 DEF StepsLeft
  <2>5. CASE pc' = "square" /\ attempt' = attempt /\ iter' = iter + 1
    <3>1. StepsLeft' = (c + 1) * o - (iter + 1)
      BY <2>1, <2>2, <2>5 DEF StepsLeft, BasesLeft
    <3> QED
      BY <2>1, <2>3, <2>4, <3>1
  <2>6. CASE pc' = "base" /\ attempt' = attempt + 1
    <3>1. BasesLeft' = c
      BY <1>1, <2>1, <2>2, <2>6 DEF BasesLeft
    <3>2. StepsLeft' = 1 + c * o
      BY <2>1, <2>2, <2>6, <3>1 DEF StepsLeft
    <3>3. o > iter + 1
      BY <2>1, <2>2
    <3> QED
      BY <2>1, <2>3, <2>4, <3>2, <3>3
  <2> QED
    BY <1>5, <2>5, <2>6 DEF Square, NextBase, Goto
<1> QED
  BY <1>2, <1>3, <1>4, <1>5
     DEF Next, Search, Prepare, GiveUp, Square, NextBase, NotAKey, OutOfMemory, Goto

\* What can be proved of termination: every step of rsa_deduce_primes takes it nearer to
\* its end, so it cannot loop for ever whatever N, E and D are.
THEOREM SearchEnds == Spec => [](StepsLeft \in Nat) /\ [][StepsLeft' < StepsLeft]_vars
<1>1. SearchInv => StepsLeft \in Nat
  BY StepsAreCounted
<1>2. SearchInv /\ [Next]_vars => [StepsLeft' < StepsLeft]_vars
  BY StepsAreTaken
<1> QED
  BY <1>1, <1>2, SearchInvariance, PTL DEF Spec
=============================================================================

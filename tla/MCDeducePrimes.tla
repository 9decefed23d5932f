--------------------------- MODULE MCDeducePrimes ----------------------------
(***************************************************************************)
(* Small numbers for DeducePrimes: every E and D for moduli of one, two    *)
(* and three factors and an even one, and the exponents of real keys.      *)
(***************************************************************************)
EXTENDS DeducePrimes

MCPrimes  == <<2, 3, 5>>
MCScratch == -1

\* 0, an even number, two squares of a prime, three factors, and two primes.
AllExponents == {0, 12, 9, 25, 45, 15, 21, 33}

\* Products of two primes that are not among the bases; 161 and 209 are 1 mod 8.
Moduli == {77, 91, 119, 161, 209}

ForKeys(n) ==
  LET ps == PrimesOf(n)
  IN  {i \in [N : {n}, E : {3, 5, 7, 11, 13, 17}, D : 2..(n - 1)] :
         \A p \in ps : (i.D * i.E - 1) % (p - 1) = 0}

MCInputs ==
  UNION {[N : {n}, E : 0..(n + 1), D : 0..(n + 1)] : n \in AllExponents}
    \cup UNION {ForKeys(n) : n \in Moduli}
=============================================================================

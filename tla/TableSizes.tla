------------------------------ MODULE TableSizes ------------------------------
(***************************************************************************)
(* The sizes HashTableT (NativeLib/my.h) gives its table: GetTableSize     *)
(* rounds a size up to one that IsPrime, a strong pseudoprime test with    *)
(* the bases 2, 7 and 61, accepts. The recursions are functions, so that a *)
(* module with proofs can use them. The products of MillerRabin stay below *)
(* 2^64 for the sizes of a 32-bit process, so they are plain integers      *)
(* here.                                                                   *)
(***************************************************************************)
EXTENDS Naturals

\* b^e mod n by repeated squaring, x being what is multiplied up so far.
PowerMod(b, e, n) ==
    LET step[x \in Nat, y \in Nat, i \in Nat] ==
          IF i = 0 THEN x
          ELSE step[IF i % 2 = 1 THEN (x * y) % n ELSE x,
                    (y * y) % n,
                    i \div 2]
    IN  step[1, b % n, e]

\* m = d * 2^s with d odd.
Halvings(m) ==
    LET s[k \in Nat] == IF k % 2 = 1 THEN 0 ELSE 1 + s[k \div 2] IN s[m]

\* Mutant: the squarings stop one early.
BugMillerRabin(n, k) ==
    \/ n = k \/ n \in {2, 3}
    \/ /\ n > 1 /\ n % 2 = 1
       /\ LET s == Halvings(n - 1)
              x == PowerMod(k, (n - 1) \div 2^s, n)
              reaches[i \in Nat] ==
                 IF i = 0 THEN x ELSE (reaches[i - 1] * reaches[i - 1]) % n
          IN  x = 1 \/ \E i \in 0 .. s - 2 : reaches[i] = n - 1

\* One round of the test. The loop squares x until it is n - 1, and gives up
\* after s - 1 squarings or when x is 1, from which n - 1 is not reached.
MillerRabin(n, k) ==
    \/ n = k \/ n \in {2, 3}
    \/ /\ n > 1 /\ n % 2 = 1
       /\ LET s == Halvings(n - 1)
              x == PowerMod(k, (n - 1) \div 2^s, n)
              reaches[i \in Nat] ==
                 IF i = 0 THEN x ELSE (reaches[i - 1] * reaches[i - 1]) % n
          IN  x = 1 \/ \E i \in 0 .. s - 1 : reaches[i] = n - 1

SmallPrimes == {2, 3, 5, 7, 11, 13, 17, 19, 23, 29, 31, 37, 41, 43, 47, 53,
                59, 61, 67, 71, 73}

IsPrime(n) ==
    /\ n > 73 => \A p \in SmallPrimes : n % p # 0
    /\ \A k \in {2, 7, 61} : MillerRabin(n, k)

\* Mutant: an even size is not made odd.
BugGetTableSize(size) ==
    LET up[n \in Nat] == IF IsPrime(n) THEN n ELSE up[n + 2]
    IN  IF size % 2 = 0 THEN up[size + 3] ELSE up[size]

GetTableSize(size) ==
    LET up[n \in Nat] == IF IsPrime(n) THEN n ELSE up[n + 2]
    IN  IF size % 2 = 0 THEN up[size + 1] ELSE up[size]

\* (ULONG_PTR)(TableSize * GrowthFactor), the factor being 1.3; its nearest
\* double is slightly larger, so the product is never rounded below a whole.
Grown(size) == GetTableSize((size * 13) \div 10)
=============================================================================

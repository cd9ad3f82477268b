-------------------------------- MODULE NTT --------------------------------
(***************************************************************************)
(* contracts/samples/ZKNOX_NTT.sol: products of polynomials over the       *)
(* integers modulo q, reduced by X^n + 1, through the number theoretic     *)
(* transform.  A polynomial is the function from 0..n-1 to its             *)
(* coefficients, n a power of two; a table of the powers of psi, a 2n-th   *)
(* root of unity, in bit-reversed order is such a function too.            *)
(*                                                                         *)
(* A pass of the outer loop is an operator.  Its butterflies work on pairs *)
(* of coefficients of their own, so the order of the inner loops is        *)
(* immaterial and they are written as one function.                        *)
(***************************************************************************)
EXTENDS Integers, FiniteSetsExt

(* addmod and mulmod of the EVM, where a modulus of zero gives zero. *)
addmod(x, y, q) == IF q = 0 THEN 0 ELSE (x + y) % q
mulmod(x, y, q) == IF q = 0 THEN 0 ELSE (x * y) % q

VECMULMOD(a, b, q) == [i \in DOMAIN a |-> mulmod(a[i], b[i], q)]
VECSUBMOD(a, b, q) == [i \in DOMAIN a |-> addmod(a[i], q - b[i], q)]

Size(a) == Cardinality(DOMAIN a)

(* What the sizes of blocks and their number run through. *)
Divisors(k) == {m \in 1..k : k % m = 0}

(* The pass of NTTFW that makes m blocks of 2t coefficients from m of t. *)
ForwardPass(a, m, psirev, q) ==
  LET t == Size(a) \div (2 * m)
      V(j) == mulmod(a[j + t], psirev[m + j \div (2 * t)], q)
  IN  [j \in DOMAIN a |->
         IF j % (2 * t) < t THEN addmod(a[j], V(j), q)
                            ELSE addmod(a[j - t], q - V(j - t), q)]

(* Mutant: the last pass is left out. *)
NTTFWShort(a, psirev, q) ==
  LET After[m \in Divisors(Size(a))] == IF m = 1 THEN a ELSE ForwardPass(After[m \div 2], m \div 2, psirev, q)
  IN  After[Size(a) \div 2]

(* m doubles from one to n. *)
NTTFW(a, psirev, q) ==
  LET After[m \in Divisors(Size(a))] == IF m = 1 THEN a ELSE ForwardPass(After[m \div 2], m \div 2, psirev, q)
  IN  After[Size(a)]

(* The pass of NTTINV on blocks of t coefficients, h of them. *)
InversePass(a, t, psiinvrev, q) ==
  LET h == Size(a) \div (2 * t)
  IN  [j \in DOMAIN a |->
         IF j % (2 * t) < t THEN addmod(a[j], a[j + t], q)
                            ELSE mulmod(addmod(a[j - t], q - a[j], q), psiinvrev[h + j \div (2 * t)], q)]

(* t doubles from one to n, then everything is divided by n. *)
NTTINV(a, psiinvrev, q, nm1modq) ==
  LET After[t \in Divisors(Size(a))] == IF t = 1 THEN a ELSE InversePass(After[t \div 2], t \div 2, psiinvrev, q)
      b == After[Size(a)]
  IN  [j \in DOMAIN a |-> mulmod(b[j], nm1modq, q)]

(* The contract's storage s: the modulus, 1/n and the tables. *)
NTT_HALFMUL(a, b, s) ==
  NTTINV(VECMULMOD(NTTFW(a, s.psirev, s.q), b, s.q), s.psiinvrev, s.q, s.nm1modq)

NTT_MUL(a, b, s) ==
  NTTINV(VECMULMOD(NTTFW(a, s.psirev, s.q), NTTFW(b, s.psirev, s.q), s.q),
         s.psiinvrev, s.q, s.nm1modq)

---------------------------------------------------------------------------
(* The product by its definition: X^n is -1. *)
Product(a, b, q) ==
  LET size == Size(a)
      Term(i, j) == IF i <= j THEN a[i] * b[j - i] ELSE -(a[i] * b[j - i + size])
  IN  [j \in DOMAIN a |-> SumFunction([i \in DOMAIN a |-> Term(i, j)]) % q]
===========================================================================

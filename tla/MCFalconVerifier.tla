-------------------------- MODULE MCFalconVerifier --------------------------
(***************************************************************************)
(* FalconVerifier in the smallest field that has an eighth root of unity:  *)
(* four coefficients modulo 17, with psi = 2, and words of six bits.       *)
(***************************************************************************)
EXTENDS FalconVerifier

Poly(s) == [j \in 0..(Len(s) - 1) |-> s[j + 1]]

Storage(psirev) ==
  [q |-> 17, nm1modq |-> 13, psirev |-> Poly(psirev),
   psiinvrev |-> Poly(<<1, 13, 9, 15>>), is_immutable |-> 0]

GenuineTables == Storage(<<1, 4, 2, 8>>)
OtherTables == {GenuineTables, Storage(<<1, 2, 4, 8>>)}

SomeKeys == {Poly(<<3, 0, 16, 5>>), Poly(<<1, 12, 7, 9>>), Poly(<<1, 2>>)}

Signature(s2) == [s2 |-> Poly(s2), decodes |-> TRUE, saltLength |-> 40]

SomeSigs ==
  { Signature(<<1, 0, 0, 0>>), Signature(<<0, 16, 1, 2>>), Signature(<<9, 0, 0, 17>>),
    Signature(<<0, 0, 18, 0>>), [Signature(<<1, 0, 0, 0>>) EXCEPT !.saltLength = 39],
    [Signature(<<1, 0, 0, 0>>) EXCEPT !.decodes = FALSE] }

SomeWords == {8, 50, 51}
=============================================================================

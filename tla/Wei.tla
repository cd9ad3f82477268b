------------------------------- MODULE Wei --------------------------------
(***************************************************************************)
(* Sums of amounts.  The ledger of the EntryPoint is a function from       *)
(* addresses to amounts, and what makes it solvent is a statement about    *)
(* its sum.  A sum is stated here as the number of the wei that are owed:  *)
(* each wei owed to a is the pair <<a, k>> with 1 <= k <= f[a].  No        *)
(* recursion is needed to define it, and none to reason about it.          *)
(***************************************************************************)
EXTENDS Integers, FiniteSets

Slot(a, n) == {a} \X (1..n)

Tokens(f) == UNION {Slot(a, f[a]) : a \in DOMAIN f}

Total(f) == Cardinality(Tokens(f))
===========================================================================

---------------------------- MODULE Wei_proofs ----------------------------
(***************************************************************************)
(* The facts about sums that the proofs of the ledger rest on, and two     *)
(* about natural numbers that every proof about a recursive function rests *)
(* on: induction over a set of numbers, and that a recursion whose calls   *)
(* descend defines a function.                                             *)
(***************************************************************************)
EXTENDS Wei, FiniteSetTheorems, WellFoundedInduction, TLAPS

(* A slot of n wei has n elements. *)
LEMMA SlotSize ==
  ASSUME NEW a, NEW n \in Nat
  PROVE  IsFiniteSet(Slot(a, n)) /\ Cardinality(Slot(a, n)) = n
<1>1. IsFiniteSet({a}) /\ Cardinality({a}) = 1
  BY FS_Singleton
<1>2. IsFiniteSet(1..n) /\ Cardinality(1..n) = n
  <2>1. Cardinality(1..n) = IF 1 > n THEN 0 ELSE n - 1 + 1
    BY FS_Interval
  <2>2. QED  BY <2>1, FS_Interval
<1>3. QED
  <2>1. /\ IsFiniteSet({a} \X (1..n))
        /\ Cardinality({a} \X (1..n)) = Cardinality({a}) * Cardinality(1..n)
    BY <1>1, <1>2, FS_Product
  <2>2. Cardinality({a} \X (1..n)) = 1 * n
    BY <2>1, <1>1, <1>2
  <2>3. QED  BY <2>1, <2>2 DEF Slot

(* Finitely many holders of finite amounts are owed finitely many wei. *)
LEMMA TokensFinite ==
  ASSUME NEW S, IsFiniteSet(S), NEW f \in [S -> Nat]
  PROVE  IsFiniteSet(Tokens(f))
<1> DEFINE T == {Slot(a, f[a]) : a \in S}
           g == [a \in S |-> Slot(a, f[a])]
<1>1. g \in Surjection(S, T)
  BY DEF Surjection
<1>2. IsFiniteSet(T)
  BY <1>1, FS_Surjection
<1>3. \A t \in T : IsFiniteSet(t)
  BY SlotSize
<1>4. QED  BY <1>2, <1>3, FS_UNION DEF Tokens

(* A sum of natural numbers is a natural number. *)
LEMMA TotalType ==
  ASSUME NEW S, IsFiniteSet(S), NEW f \in [S -> Nat]
  PROVE  Total(f) \in Nat
BY TokensFinite, FS_CardinalityType DEF Total

(* Membership of a sum's tokens. *)
LEMMA InTokens ==
  ASSUME NEW S, NEW f \in [S -> Nat], NEW t
  PROVE  t \in Tokens(f) <=> \E a \in S : t \in Slot(a, f[a])
BY DEF Tokens

(* Replacing one summand changes the sum by the difference. *)
LEMMA TotalUpdate ==
  ASSUME NEW S, IsFiniteSet(S), NEW f \in [S -> Nat], NEW a \in S,
         NEW g \in [S -> Nat], \A b \in S : b # a => g[b] = f[b]
  PROVE  Total(g) = Total(f) - f[a] + g[a]
<1> DEFINE v == g[a]
           R == Tokens(f) \ Slot(a, f[a])
<1>0. v \in Nat /\ f[a] \in Nat
  OBVIOUS
<1>1. \A b \in S : \A t : t \in Slot(b, f[b]) /\ b # a => t \notin Slot(a, f[a]) /\ t \notin Slot(a, v)
  BY DEF Slot
<1>2. Tokens(f) = R \cup Slot(a, f[a])
  <2>1. Slot(a, f[a]) \subseteq Tokens(f)
    BY DEF Tokens
  <2>2. QED  BY <2>1
<1>3. R \cap Slot(a, v) = {}
  <2>1. \A t \in R : \E b \in S : t \in Slot(b, f[b]) /\ b # a
    BY InTokens
  <2>2. QED  BY <2>1, <1>1
<1>4. Tokens(g) = R \cup Slot(a, v)
  <2>1. ASSUME NEW t \in Tokens(g) PROVE t \in R \cup Slot(a, v)
    <3>1. PICK b \in S : t \in Slot(b, g[b])
      BY <2>1, InTokens
    <3>2. CASE b = a
      BY <3>1, <3>2
    <3>3. CASE b # a
      <4>1. t \in Slot(b, f[b])
        BY <3>1, <3>3
      <4>2. t \in Tokens(f)
        BY <4>1, InTokens
      <4>3. QED  BY <4>1, <4>2, <3>3, <1>1
    <3>4. QED  BY <3>2, <3>3
  <2>2. ASSUME NEW t \in R PROVE t \in Tokens(g)
    <3>1. PICK b \in S : t \in Slot(b, f[b]) /\ b # a
      BY <2>2, InTokens
    <3>2. t \in Slot(b, g[b])
      BY <3>1
    <3>3. QED  BY <3>2, InTokens
  <2>3. Slot(a, v) \subseteq Tokens(g)
    BY InTokens
  <2>4. QED  BY <2>1, <2>2, <2>3
<1>5. IsFiniteSet(R) /\ IsFiniteSet(Tokens(f)) /\ Cardinality(R) \in Nat
  <2>1. IsFiniteSet(Tokens(f))
    BY TokensFinite
  <2>2. IsFiniteSet(R)
    BY <2>1, FS_Difference
  <2>3. QED  BY <2>1, <2>2, FS_CardinalityType
<1>6. R \cap Slot(a, f[a]) = {}
  OBVIOUS
<1> HIDE DEF R, v
<1>7. Cardinality(Tokens(f)) = Cardinality(R) + f[a]
  <2>1. Cardinality(R \cap Slot(a, f[a])) = 0
    BY <1>6, FS_EmptySet
  <2>2. IsFiniteSet(Slot(a, f[a])) /\ Cardinality(Slot(a, f[a])) = f[a]
    BY <1>0, SlotSize
  <2>3. Cardinality(R \cup Slot(a, f[a])) = Cardinality(R) + f[a] - 0
    BY <2>1, <2>2, <1>5, FS_Union
  <2>4. QED  BY <2>3, <1>2, <1>0, <1>5
<1>8. Cardinality(Tokens(g)) = Cardinality(R) + v
  <2>1. IsFiniteSet(Slot(a, v)) /\ Cardinality(Slot(a, v)) = v
    BY <1>0, SlotSize
  <2>2. Cardinality(R \cap Slot(a, v)) = 0
    BY <1>3, FS_EmptySet
  <2>3. Cardinality(R \cup Slot(a, v)) = Cardinality(R) + v - 0
    BY <2>1, <2>2, <1>5, FS_Union
  <2>4. QED  BY <2>3, <1>4, <1>5, <1>0
<1>9. QED  BY <1>0, <1>5, <1>7, <1>8 DEF Total, v

(* No summand exceeds the sum. *)
LEMMA TotalAtLeast ==
  ASSUME NEW S, IsFiniteSet(S), NEW f \in [S -> Nat], NEW a \in S
  PROVE  f[a] <= Total(f)
<1>1. Slot(a, f[a]) \in SUBSET Tokens(f)
  BY DEF Tokens
<1>2. Cardinality(Slot(a, f[a])) <= Cardinality(Tokens(f))
  BY <1>1, TokensFinite, FS_Subset
<1>3. QED  BY <1>2, SlotSize DEF Total

(* A ledger in which nobody holds anything sums to nothing. *)
LEMMA TotalZero ==
  ASSUME NEW S, NEW f \in [S -> Nat], \A a \in S : f[a] = 0
  PROVE  Total(f) = 0
<1>1. \A a \in S : Slot(a, f[a]) = {}
  BY DEF Slot
<1>2. Tokens(f) = {}
  BY <1>1 DEF Tokens
<1>3. QED  BY <1>2, FS_EmptySet DEF Total

(* A summand is added. *)
LEMMA TotalAdded ==
  ASSUME NEW S, IsFiniteSet(S), NEW x, x \notin S, NEW f \in [S -> Nat],
         NEW g \in [S \cup {x} -> Nat], \A a \in S : g[a] = f[a]
  PROVE  Total(g) = Total(f) + g[x]
<1>1. IsFiniteSet(Tokens(f)) /\ Cardinality(Tokens(f)) \in Nat
  BY TokensFinite, FS_CardinalityType
<1>2. IsFiniteSet(Slot(x, g[x])) /\ Cardinality(Slot(x, g[x])) = g[x] /\ g[x] \in Nat
  BY SlotSize
<1>3. Tokens(g) = Tokens(f) \cup Slot(x, g[x])
  <2>1. ASSUME NEW t
        PROVE  t \in Tokens(g) <=> t \in Tokens(f) \/ t \in Slot(x, g[x])
    <3>1. t \in Tokens(f) <=> \E a \in S : t \in Slot(a, f[a])
      BY InTokens
    <3>2. t \in Tokens(g) <=> \E a \in S \cup {x} : t \in Slot(a, g[a])
      BY InTokens
    <3>3. QED  BY <3>1, <3>2
  <2>2. QED  BY <2>1
<1>4. Tokens(f) \cap Slot(x, g[x]) = {}
  <2>1. \A a \in S : \A t \in Slot(a, f[a]) : t \notin Slot(x, g[x])
    BY DEF Slot
  <2>2. QED  BY <2>1, InTokens
<1>5. Cardinality(Tokens(f) \cap Slot(x, g[x])) = 0
  BY <1>4, FS_EmptySet
<1> DEFINE n == g[x]
<1> HIDE DEF n
<1>6. Cardinality(Tokens(g)) = Cardinality(Tokens(f)) + n - 0
  BY <1>1, <1>2, <1>3, <1>5, FS_Union DEF n
<1>7. Cardinality(Tokens(g)) = Cardinality(Tokens(f)) + n
  BY <1>1, <1>2, <1>6 DEF n
<1>8. Cardinality(Tokens(g)) = Cardinality(Tokens(f)) + g[x]
  BY <1>7 DEF n
<1>9. QED  BY <1>8 DEF Total

(* Numbers and their successors are as many. *)
LEMMA Shifted ==
  ASSUME NEW Y \in SUBSET Int, NEW Z \in SUBSET Int, IsFiniteSet(Y),
         \A i \in Y : i + 1 \in Z, \A j \in Z : j - 1 \in Y
  PROVE  IsFiniteSet(Z) /\ Cardinality(Z) = Cardinality(Y)
<1> DEFINE shift == [i \in Y |-> i + 1]
<1>1. shift \in [Y -> Z]
  OBVIOUS
<1>2. \A i, j \in Y : shift[i] = shift[j] => i = j
  OBVIOUS
<1>3. \A j \in Z : \E i \in Y : shift[i] = j
  <2>1. ASSUME NEW j \in Z
        PROVE  j - 1 \in Y /\ shift[j - 1] = j
    BY <2>1
  <2>2. QED  BY <2>1
<1> HIDE DEF shift
<1>4. ExistsBijection(Y, Z)
  BY <1>1, <1>2, <1>3 DEF ExistsBijection, Bijection, Injection, Surjection, IsInjective
<1>5. QED  BY <1>4, FS_Bijection

(* The larger sum has more summands, or larger ones. *)
LEMMA TotalLess ==
  ASSUME NEW S, NEW R \in SUBSET S, IsFiniteSet(S), NEW f \in [R -> Nat], NEW g \in [S -> Nat],
         \A x \in R : f[x] <= g[x]
  PROVE  Total(f) <= Total(g)
<1>1. ASSUME NEW t, t \in Tokens(f)
      PROVE  t \in Tokens(g)
  <2>1. PICK x \in R : t \in Slot(x, f[x])
    BY <1>1, InTokens
  <2>2. f[x] \in Nat /\ g[x] \in Nat /\ f[x] <= g[x]
    OBVIOUS
  <2>3. t \in Slot(x, g[x])
    <3>1. 1..f[x] \subseteq 1..g[x]
      BY <2>2
    <3>2. QED  BY <2>1, <3>1 DEF Slot
  <2>4. QED  BY <2>3, InTokens
<1>2. Tokens(f) \in SUBSET Tokens(g)
  BY <1>1
<1>3. IsFiniteSet(Tokens(g))
  BY TokensFinite
<1>4. Cardinality(Tokens(f)) <= Cardinality(Tokens(g))
  BY <1>2, <1>3, FS_Subset
<1>5. QED  BY <1>4 DEF Total

(* A sum does not change when its summands move up by one. *)
LEMMA TotalShifted ==
  ASSUME NEW m \in Nat, NEW f \in [1..m -> Nat], NEW g \in [2..(m + 1) -> Nat],
         \A i \in 1..m : g[i + 1] = f[i]
  PROVE  Total(g) = Total(f)
<1> DEFINE S == 1..m
           R == 2..(m + 1)
           shift == [t \in Tokens(f) |-> <<t[1] + 1, t[2]>>]
<1>1. /\ IsFiniteSet(S) /\ S \subseteq Int /\ R \subseteq Int
      /\ \A i \in S : i + 1 \in R
      /\ \A j \in R : j - 1 \in S /\ (j - 1) + 1 = j
  BY FS_Interval
<1>2. /\ f \in [S -> Nat] /\ g \in [R -> Nat] /\ \A i \in S : g[i + 1] = f[i]
  OBVIOUS
<1> HIDE DEF S, R
<1>3. ASSUME NEW t, t \in Tokens(f)
      PROVE  \E i \in S : \E k \in 1..f[i] : t = <<i, k>>
  <2>1. PICK i \in S : t \in Slot(i, f[i])
    BY <1>2, <1>3, InTokens
  <2>2. QED  BY <2>1 DEF Slot
<1>4. ASSUME NEW t, t \in Tokens(g)
      PROVE  \E j \in R : \E k \in 1..g[j] : t = <<j, k>>
  <2>1. PICK j \in R : t \in Slot(j, g[j])
    BY <1>2, <1>4, InTokens
  <2>2. QED  BY <2>1 DEF Slot
<1>5. \A i \in S : \A k \in 1..f[i] : <<i, k>> \in Tokens(f)
  <2>1. \A i \in S : \A k \in 1..f[i] : <<i, k>> \in Slot(i, f[i])
    BY DEF Slot
  <2>2. QED  BY <1>2, <2>1, InTokens
<1>6. \A j \in R : \A k \in 1..g[j] : <<j, k>> \in Tokens(g)
  <2>1. \A j \in R : \A k \in 1..g[j] : <<j, k>> \in Slot(j, g[j])
    BY DEF Slot
  <2>2. QED  BY <1>2, <2>1, InTokens
<1>7. shift \in [Tokens(f) -> Tokens(g)]
  <2>1. ASSUME NEW t \in Tokens(f)
        PROVE  <<t[1] + 1, t[2]>> \in Tokens(g)
    <3>0. PICK i \in S : \E k \in 1..f[i] : t = <<i, k>>
      BY <1>3
    <3>1. PICK k \in 1..f[i] : t = <<i, k>>
      BY <3>0
    <3>2. i + 1 \in R /\ k \in 1..g[i + 1]
      BY <1>1, <1>2
    <3>3. <<i + 1, k>> \in Tokens(g)
      BY <1>6, <3>2
    <3>4. QED  BY <3>1, <3>3
  <2>2. QED  BY <2>1
<1>8. \A t, u \in Tokens(f) : shift[t] = shift[u] => t = u
  <2>1. SUFFICES ASSUME NEW t \in Tokens(f), NEW u \in Tokens(f), shift[t] = shift[u]
                 PROVE  t = u
    OBVIOUS
  <2>2. PICK i \in S : \E k \in 1..f[i] : t = <<i, k>>
    BY <1>3
  <2>3. PICK j \in S : \E l \in 1..f[j] : u = <<j, l>>
    BY <1>3
  <2>7. PICK k \in 1..f[i] : t = <<i, k>>
    BY <2>2
  <2>8. PICK l \in 1..f[j] : u = <<j, l>>
    BY <2>3
  <2>4. i \in Int /\ j \in Int
    BY <1>1
  <2>5. <<i + 1, k>> = <<j + 1, l>>
    BY <2>1, <2>7, <2>8
  <2>6. QED  BY <2>4, <2>5, <2>7, <2>8
<1>9. \A u \in Tokens(g) : \E t \in Tokens(f) : shift[t] = u
  <2>1. SUFFICES ASSUME NEW u \in Tokens(g)
                 PROVE  \E t \in Tokens(f) : shift[t] = u
    OBVIOUS
  <2>7. PICK j \in R : \E k \in 1..g[j] : u = <<j, k>>
    BY <1>4
  <2>2. PICK k \in 1..g[j] : u = <<j, k>>
    BY <2>7
  <2>3. PICK i \in S : i + 1 = j
    BY <1>1
  <2>4. <<i, k>> \in Tokens(f)
    BY <1>2, <1>5, <2>3
  <2>5. shift[<<i, k>>] = u
    BY <2>2, <2>3, <2>4
  <2>6. QED  BY <2>4, <2>5
<1> HIDE DEF shift
<1>10. ExistsBijection(Tokens(f), Tokens(g))
  BY <1>7, <1>8, <1>9 DEF ExistsBijection, Bijection, Injection, Surjection, IsInjective
<1>11. IsFiniteSet(Tokens(f))
  BY <1>1, <1>2, TokensFinite
<1>12. Cardinality(Tokens(g)) = Cardinality(Tokens(f))
  BY <1>10, <1>11, FS_Bijection
<1>13. QED  BY <1>12 DEF Total

(* One more summand. *)
LEMMA TotalMore ==
  ASSUME NEW S, NEW x, NEW R, NEW f, NEW g,
         IsFiniteSet(S), x \notin S, R = S \cup {x}, f \in [S -> Nat], g \in [R -> Nat],
         \A a \in S : g[a] = f[a]
  PROVE  Total(g) = Total(f) + g[x]
<1>1. g \in [S \cup {x} -> Nat]
  OBVIOUS
<1>2. QED  BY <1>1, TotalAdded

(* The first summand, and the others moved down. *)
LEMMA TotalFirst ==
  ASSUME NEW m \in Nat, NEW f \in [1..(m + 1) -> Nat], NEW h \in [1..m -> Nat],
         \A i \in 1..m : f[i + 1] = h[i]
  PROVE  Total(f) = f[1] + Total(h)
<1> DEFINE R == 1..(m + 1)
           S == 2..(m + 1)
           x == 1
           g == [i \in S |-> f[i]]
<1>1. IsFiniteSet(1..m) /\ IsFiniteSet(S)
  BY FS_Interval
<1>2. R = S \cup {x} /\ x \notin S
  OBVIOUS
<1>3. g \in [S -> Nat] /\ f \in [R -> Nat] /\ \A i \in S : f[i] = g[i]
  OBVIOUS
<1>4. \A i \in 1..m : g[i + 1] = h[i]
  OBVIOUS
<1>5. Total(g) = Total(h)
  <2> HIDE DEF g
  <2>1. g \in [2..(m + 1) -> Nat]
    BY <1>3
  <2>2. QED  BY <1>4, <2>1, TotalShifted
<1>6. Total(f) = Total(g) + f[x]
  <2> HIDE DEF g, S, R, x
  <2>1. QED  BY <1>1, <1>2, <1>3, TotalMore
<1>7. Total(h) \in Nat
  BY <1>1, TotalType
<1>8. f[x] \in Nat /\ f[x] = f[1]
  OBVIOUS
<1> HIDE DEF g, S, R, x
<1>9. QED  BY <1>5, <1>6, <1>7, <1>8

(* A step that takes one from each holder in W takes as many as W has. *)
LEMMA TotalOneLess ==
  ASSUME NEW S, IsFiniteSet(S), NEW f \in [S -> Nat], NEW g \in [S -> Nat], NEW W \in SUBSET S,
         \A a \in W : f[a] # 0 /\ g[a] = f[a] - 1,
         \A a \in S \ W : g[a] = f[a]
  PROVE  Total(g) = Total(f) - Cardinality(W)
<1> DEFINE last == [a \in W |-> <<a, f[a]>>]
           X == {<<a, f[a]>> : a \in W}
<1>1. ASSUME NEW t
      PROVE  t \in Tokens(f) <=> t \in Tokens(g) \/ t \in X
  <2>1. \A a \in S : t \in Slot(a, f[a]) <=> t \in Slot(a, g[a]) \/ (a \in W /\ t = <<a, f[a]>>)
    <3> SUFFICES ASSUME NEW a \in S
                 PROVE  t \in Slot(a, f[a]) <=> t \in Slot(a, g[a]) \/ (a \in W /\ t = <<a, f[a]>>)
      OBVIOUS
    <3>1. CASE a \notin W
      BY <3>1
    <3>2. CASE a \in W
      <4>1. 1..f[a] = (1..g[a]) \cup {f[a]}
        BY <3>2
      <4>2. QED  BY <3>2, <4>1 DEF Slot
    <3>3. QED  BY <3>1, <3>2
  <2>2. t \in Tokens(f) <=> \E a \in S : t \in Slot(a, f[a])
    BY InTokens
  <2>3. t \in Tokens(g) <=> \E a \in S : t \in Slot(a, g[a])
    BY InTokens
  <2>4. QED  BY <2>1, <2>2, <2>3
<1>2. Tokens(f) = Tokens(g) \cup X
  BY <1>1
<1>3. Tokens(g) \cap X = {}
  <2>1. ASSUME NEW a \in W, NEW b \in S PROVE <<a, f[a]>> \notin Slot(b, g[b])
    BY DEF Slot
  <2>2. QED  BY <2>1, InTokens
<1>4. IsFiniteSet(W) /\ IsFiniteSet(Tokens(g))
  BY FS_Subset, TokensFinite
<1>5. IsFiniteSet(X) /\ Cardinality(X) = Cardinality(W)
  <2>1. last \in [W -> X] /\ (\A a, b \in W : last[a] = last[b] => a = b) /\ \A t \in X : \E a \in W : last[a] = t
    OBVIOUS
  <2> HIDE DEF last, X
  <2>2. ExistsBijection(W, X)
    BY <2>1 DEF ExistsBijection, Bijection, Injection, Surjection, IsInjective
  <2>3. QED  BY <1>4, <2>2, FS_Bijection
<1> HIDE DEF X
<1>6. Cardinality(Tokens(g) \cap X) = 0
  BY <1>3, FS_EmptySet
<1>7. Cardinality(Tokens(f)) = Cardinality(Tokens(g)) + Cardinality(X) - Cardinality(Tokens(g) \cap X)
  BY <1>2, <1>4, <1>5, FS_Union
<1>8. Cardinality(Tokens(g)) \in Nat /\ Cardinality(X) \in Nat
  BY <1>4, <1>5, FS_CardinalityType
<1>9. QED  BY <1>5, <1>6, <1>7, <1>8 DEF Total

---------------------------------------------------------------------------
(***************************************************************************)
(* Induction and recursion. The sets in which these are stated take the    *)
(* place of formulas.                                                      *)
(***************************************************************************)
(* A set of natural numbers has a least element. *)
LEMMA Least ==
  ASSUME NEW T \in SUBSET Nat, T # {}
  PROVE  \E k \in T : \A j \in T : k <= j
<1> DEFINE R == {ss \in Nat \X Nat : ss[1] < ss[2]}
<1>1. IsWellFoundedOn(R, Nat)
  BY NatLessThanWellFounded, SMT DEF OpToRel
<1>2. \A k, j \in Nat : <<j, k>> \notin R => k <= j
  OBVIOUS
<1> HIDE DEF R
<1>3. PICK k \in T : \A j \in T : <<j, k>> \notin R
  BY <1>1, WFMin
<1>4. QED  BY <1>2, <1>3

(* Induction, of a set of numbers rather than of a formula. *)
LEMMA Induction ==
  ASSUME NEW T, 0 \in T, \A k \in Nat : k \in T => k + 1 \in T
  PROVE  Nat \subseteq T
<1> SUFFICES ASSUME Nat \ T # {} PROVE FALSE
  OBVIOUS
<1>1. PICK k \in Nat \ T : \A j \in Nat \ T : k <= j
  BY Least
<1>2. k - 1 \in Nat /\ k - 1 \in T
  BY <1>1
<1>3. k - 1 + 1 = k
  BY <1>1
<1>4. QED  BY <1>1, <1>2, <1>3

(* The same, where each number rests on some smaller ones. *)
LEMMA StrongInduction ==
  ASSUME NEW T, \A k \in Nat : (\A j \in 0..(k - 1) : j \in T) => k \in T
  PROVE  Nat \subseteq T
<1> SUFFICES ASSUME Nat \ T # {} PROVE FALSE
  OBVIOUS
<1>1. PICK k \in Nat \ T : \A j \in Nat \ T : k <= j
  BY Least
<1>2. \A j \in 0..(k - 1) : j \in T
  BY <1>1
<1>3. QED  BY <1>1, <1>2

(***************************************************************************)
(* A function defined by recursion exists: f[m] is base where m is in B,   *)
(* and else made by step from the value at the smaller number pred[m].     *)
(***************************************************************************)
Obeys(g, K, base, step, pred, B) ==
  \A m \in K : g[m] = IF m \in B THEN base ELSE step[<<g[pred[m]], m>>]

(* A recursion over the natural numbers whose calls descend has a function. *)
LEMMA Recursion ==
  ASSUME NEW X, NEW base \in X, NEW step \in [X \X Nat -> X],
         NEW pred \in [Nat -> Nat], NEW B, \A m \in Nat \ B : pred[m] < m
  PROVE  \E f \in [Nat -> X] : Obeys(f, Nat, base, step, pred, B)
<1> DEFINE Partial(k, g) == g \in [0..k -> X] /\ Obeys(g, 0..k, base, step, pred, B)
           T == {k \in Nat : \E g : Partial(k, g)}
<1>1. 0 \in T
  <2> DEFINE g == [i \in 0..0 |-> base]
  <2>1. 0 \in B /\ 0..0 = {0}
    OBVIOUS
  <2>2. Partial(0, g)
    BY <2>1 DEF Obeys
  <2>3. QED  BY <2>2
<1>2. ASSUME NEW k \in Nat, k \in T PROVE k + 1 \in T
  <2>1. PICK g : Partial(k, g)
    BY <1>2
  <2> DEFINE p == pred[k + 1]
             v == IF k + 1 \in B THEN base ELSE step[<<g[p], k + 1>>]
             h == [i \in 0..(k + 1) |-> IF i = k + 1 THEN v ELSE g[i]]
  <2>2. k + 1 \notin B => p \in 0..k
    OBVIOUS
  <2>3. v \in X
    <3>1. CASE k + 1 \in B
      BY <3>1
    <3>2. CASE k + 1 \notin B
      <4>1. g[p] \in X
        BY <2>1, <2>2, <3>2
      <4>2. <<g[p], k + 1>> \in X \X Nat
        BY <4>1
      <4>3. QED  BY <3>2, <4>2
    <3>3. QED  BY <3>1, <3>2
  <2>4. h \in [0..(k + 1) -> X]
    BY <2>1, <2>3
  <2>5. ASSUME NEW m \in 0..(k + 1)
        PROVE  h[m] = IF m \in B THEN base ELSE step[<<h[pred[m]], m>>]
    <3>1. CASE m = k + 1
      <4>1. h[m] = v
        BY <3>1
      <4>2. k + 1 \notin B => h[p] = g[p]
        <5>1. \A j \in 0..k : h[j] = g[j]
          OBVIOUS
        <5>2. QED  BY <2>2, <5>1
      <4>3. QED  BY <3>1, <4>1, <4>2
    <3>2. CASE m # k + 1
      <4>1. m \in 0..k /\ h[m] = g[m]
        BY <3>2
      <4>2. m \notin B => pred[m] \in 0..k
        BY <4>1
      <4>3. m \notin B => h[pred[m]] = g[pred[m]]
        BY <4>2
      <4>4. QED  BY <4>1, <4>3, <2>1 DEF Obeys
    <3>3. QED  BY <3>1, <3>2
  <2> HIDE DEF h
  <2>6. Partial(k + 1, h)
    BY <2>4, <2>5 DEF Obeys
  <2>7. QED  BY <2>6
<1> HIDE DEF T
<1>3. Nat \subseteq T
  BY <1>1, <1>2, Induction
<1>4. \A k \in Nat : \E g : Partial(k, g)
  BY <1>3 DEF T
<1> DEFINE G(k) == CHOOSE g : Partial(k, g)
<1>5. \A k \in Nat : Partial(k, G(k))
  BY <1>4
<1> DEFINE f == [k \in Nat |-> G(k)[k]]
<1> HIDE DEF G
<1>6. f \in [Nat -> X]
  BY <1>5
<1>7. ASSUME NEW m \in Nat
      PROVE  f[m] = IF m \in B THEN base ELSE step[<<f[pred[m]], m>>]
  <2>1. m \in 0..m /\ f[m] = G(m)[m]
    OBVIOUS
  <2>2. Obeys(G(m), 0..m, base, step, pred, B)
    BY <1>5
  <2>3. ASSUME m \notin B PROVE f[pred[m]] = G(m)[pred[m]]
    <3> DEFINE p == pred[m]
    <3>1. p \in Nat /\ p <= m /\ p \in 0..p
      BY <2>3
    <3>2. Obeys(G(p), 0..p, base, step, pred, B)
      BY <1>5, <3>1
    <3> DEFINE g == G(p)
               h == G(m)
    <3> HIDE DEF g, h, p
    <3>3. Obeys(g, 0..p, base, step, pred, B) /\ Obeys(h, 0..m, base, step, pred, B)
      BY <2>2, <3>2 DEF g, h
    <3> DEFINE S == {i \in Nat : i <= p => g[i] = h[i]}
    <3>4. ASSUME NEW i \in Nat, \A j \in 0..(i - 1) : j \in S PROVE i \in S
      <4> SUFFICES ASSUME i <= p PROVE g[i] = h[i]
        OBVIOUS
      <4>1. i \in 0..p /\ i \in 0..m
        BY <3>1
      <4>2. i \notin B => pred[i] \in 0..(i - 1) /\ pred[i] <= p
        BY <3>1
      <4>3. i \notin B => g[pred[i]] = h[pred[i]]
        BY <4>2, <3>4
      <4>4. QED  BY <4>1, <4>3, <3>3 DEF Obeys
    <3> HIDE DEF S
    <3>5. Nat \subseteq S
      BY <3>4, StrongInduction
    <3>6. g[p] = h[p]
      BY <3>1, <3>5 DEF S
    <3>7. QED  BY <3>6 DEF g, h, p
  <2>4. QED  BY <2>1, <2>2, <2>3 DEF Obeys
<1> HIDE DEF f
<1>8. QED  BY <1>6, <1>7 DEF Obeys

(* The same for a function whose domain D the predecessors do not leave. *)
Recurs(f, D, base, step, pred, B) ==
  f = [m \in D |-> IF m \in B THEN base ELSE step[<<f[pred[m]], m>>]]

(* And so has one over a set of natural numbers, as the divisors of n are. *)
LEMMA RecursionOn ==
  ASSUME NEW D \in SUBSET Nat, NEW X, NEW base \in X, NEW step \in [X \X D -> X], NEW pred, NEW B,
         \A m \in D \ B : pred[m] \in D /\ pred[m] < m
  PROVE  \E f \in [D -> X] : Recurs(f, D, base, step, pred, B)
<1> DEFINE BB == B \cup (Nat \ D)
           next == [m \in Nat |-> IF m \in BB THEN 0 ELSE pred[m]]
           does == [p \in X \X Nat |-> IF p[2] \in D THEN step[p] ELSE base]
<1>1. next \in [Nat -> Nat] /\ \A m \in Nat \ BB : next[m] = pred[m] /\ m \in D /\ pred[m] \in D /\ next[m] < m
  OBVIOUS
<1>2. does \in [X \X Nat -> X]
  <2>1. ASSUME NEW p \in X \X Nat PROVE (IF p[2] \in D THEN step[p] ELSE base) \in X
    <3>1. p[2] \in D => p \in X \X D
      OBVIOUS
    <3>2. QED  BY <3>1
  <2>2. QED  BY <2>1
<1>3. \A x \in X, m \in D : does[<<x, m>>] = step[<<x, m>>]
  OBVIOUS
<1>4. \A m \in D : m \in BB <=> m \in B
  OBVIOUS
<1> HIDE DEF BB, next, does
<1>5. PICK f \in [Nat -> X] : Obeys(f, Nat, base, does, next, BB)
  BY <1>1, <1>2, Recursion
<1> DEFINE g == [m \in D |-> f[m]]
<1>6. g \in [D -> X]
  BY <1>5
<1>7. ASSUME NEW m \in D
      PROVE  g[m] = IF m \in B THEN base ELSE step[<<g[pred[m]], m>>]
  <2>1. f[m] = IF m \in BB THEN base ELSE does[<<f[next[m]], m>>]
    BY <1>5 DEF Obeys
  <2>2. CASE m \in B
    BY <1>4, <2>1, <2>2
  <2>3. CASE m \notin B
    <3>1. m \in Nat \ BB
      BY <1>4, <2>3
    <3>2. next[m] = pred[m] /\ pred[m] \in D
      BY <1>1, <3>1
    <3>3. f[pred[m]] \in X /\ g[pred[m]] = f[pred[m]]
      BY <1>5, <3>2
    <3>4. QED  BY <1>3, <2>1, <2>3, <3>1, <3>2, <3>3
  <2>4. QED  BY <2>2, <2>3
<1> HIDE DEF g
<1>8. g = [m \in D |-> IF m \in B THEN base ELSE step[<<g[pred[m]], m>>]]
  BY <1>6, <1>7
<1>9. Recurs(g, D, base, step, pred, B)
  BY <1>8, Zenon DEF Recurs
<1>10. QED  BY <1>6, <1>9
============================================================================
